--------------------------- MODULE TransferProofs ---------------------------
(***************************************************************************)
(* Theorems about requests that outlive a call: those whose owner is       *)
(* watched (OwnerWatch) and the transfers of files (Obex).                 *)
(***************************************************************************)
EXTENDS OwnerWatch, Obex, FiniteSetTheorems, TLAPS

-----------------------------------------------------------------------------
(***************************************************************************)
(* Watched owners.  No request of a vanished D-Bus caller is overlooked,   *)
(* for any number of concurrent calls, as long as owner monitoring itself  *)
(* works.                                                                  *)
(***************************************************************************)

DataOK ==
  /\ stage \in [Actors -> Stage]
  /\ todo \in [Actors -> SUBSET Calls]
  /\ waits \in [Actors -> SUBSET Calls]
  /\ status \in [Calls -> Status]

(***************************************************************************)
(* While the owner lives nobody cleans up, and the watch task waits from   *)
(* the first registration on.                                              *)
(***************************************************************************)
WatchOK ==
  /\ stage[Watcher] \in {"unsent", "waiting", "operations", "cancelling", "stopping"}
  /\ watching => stage[Watcher] # "unsent"
  /\ ~watching => stage[Watcher] = "unsent"
  /\ alive => \A x \in Actors : stage[x] \in {"unsent", "admitted", "asking", "waiting", "returned"}
  /\ alive => \A c \in Calls : stage[c] \in {"asking", "returned"} => watching

(* Only one actor waits for the end of a cancelled operation, and it still *)
(* has it in its list.                                                     *)
Canceller(c, y) == stage[y] = "cancelling" /\ waits[y] = {c} /\ c \in todo[y]

CancellersOK ==
  \A c \in Calls : status[c] = "cancelling" => \E y \in Actors : Canceller(c, y)

(***************************************************************************)
(* Who will deal with request c: its own call, the watch task, or somebody *)
(* who has captured it or is about to.                                     *)
(***************************************************************************)
Covered(c) ==
  \/ stage[c] \in {"admitted", "asking", "operations"}
  \/ stage[Watcher] \in {"waiting", "operations"}
  \/ \E x \in Actors : stage[x] = "cancelling" /\ (c \in todo[x] \/ c \in Scans)
  \/ \E x \in Actors : stage[x] = "stopping" /\ c \in todo[x]

CoveredOK == \A c \in Calls : status[c] = "active" => Covered(c)

IInv == DataOK /\ WatchOK /\ CancellersOK /\ CoveredOK

-----------------------------------------------------------------------------
LEMMA Start == Init => IInv
<1> SUFFICES ASSUME Init PROVE IInv
  OBVIOUS
<1>1. /\ \A x \in Actors : stage[x] = "unsent"
      /\ \A c \in Calls : status[c] = "none"
      /\ Watcher \in Actors /\ Calls \subseteq Actors
      /\ watching = FALSE
  BY DEF Init, Actors
<1>2. DataOK
  BY DEF Init, DataOK, Stage, Status
<1>3. WatchOK
  BY <1>1 DEF WatchOK
<1> QED  BY <1>1, <1>2, <1>3 DEF IInv, CancellersOK, CoveredOK

LEMMA DataStep ==
  ASSUME DataOK, [Next]_vars
  PROVE  DataOK'
<1>a. Watcher \in Actors /\ Calls \subseteq Actors /\ Operations \subseteq Calls /\ Scans \subseteq Calls
  BY DEF Actors, Calls
<1>1. ASSUME NEW c \in Calls, Admit(c) \/ Register(c) \/ AskOwner(c) \/ Ends(c) PROVE DataOK'
  <2>1. CASE Admit(c) \/ Ends(c)
    BY <1>a, <2>1 DEF Admit, Ends, DataOK, Stage, Status
  <2>2. CASE Register(c)
    BY <1>a, <2>2 DEF Register, DataOK, Stage
  <2>3. CASE AskOwner(c)
    BY <1>a, <2>3 DEF AskOwner, DataOK, Stage
  <2> QED  BY <1>1, <2>1, <2>2, <2>3
<1>2. CASE WatchEnds \/ OwnerLeaves \/ UNCHANGED vars
  BY <1>2, <1>a DEF WatchEnds, OwnerLeaves, vars, DataOK, Stage
<1>3. ASSUME NEW x \in Actors, CaptureOperations(x) \/ CaptureScans(x) \/ CleanupDone(x) PROVE DataOK'
  <2>1. CASE CaptureOperations(x)
    BY <1>a, <2>1 DEF CaptureOperations, DataOK, Stage
  <2>2. CASE CaptureScans(x)
    BY <1>a, <2>2 DEF CaptureScans, DataOK, Stage
  <2>3. CASE CleanupDone(x)
    BY <2>3 DEF CleanupDone, DataOK, Stage
  <2> QED  BY <1>3, <2>1, <2>2, <2>3
<1>4. ASSUME NEW x \in Actors, NEW c \in Calls,
             CancelOperation(x, c) \/ Cancelled(x, c) \/ StopScan(x, c)
      PROVE  DataOK'
  BY <1>4, <1>a DEF CancelOperation, Cancelled, StopScan, DataOK, Status
<1> QED  BY <1>1, <1>2, <1>3, <1>4, <1>a DEF Next, CallStep, Cleanup

LEMMA WatchStep ==
  ASSUME DataOK, WatchOK, "monitor" \notin Faults, [Next]_vars
  PROVE  WatchOK'
<1>a. /\ Watcher \in Actors /\ Calls \subseteq Actors /\ Operations \subseteq Calls
      /\ Scans \subseteq Calls /\ \A c \in Calls : c # Watcher
      /\ \A x \in Actors : x = Watcher \/ x \in Calls
      /\ stage \in [Actors -> Stage]
  BY WatcherAssumption DEF Actors, Calls, DataOK
<1>1. ASSUME NEW c \in Calls, Admit(c) PROVE WatchOK'
  BY <1>1, <1>a DEF Admit, WatchOK
<1>2. ASSUME NEW c \in Calls, Register(c) PROVE WatchOK'
  <2>1. CASE watching
    BY <1>2, <1>a, <2>1 DEF Register, WatchOK
  <2>2. CASE ~watching
    BY <1>2, <1>a, <2>2 DEF Register, WatchOK
  <2> QED  BY <2>1, <2>2
<1>3. ASSUME NEW c \in Calls, AskOwner(c) PROVE WatchOK'
  <2>1. alive => stage'[c] = "returned"
    BY <1>3, <1>a DEF AskOwner
  <2>2. /\ \A x \in Actors : x # c => stage'[x] = stage[x]
        /\ stage'[c] \in {"returned", "operations"} /\ stage[c] = "asking"
        /\ UNCHANGED <<alive, watching>>
    BY <1>3, <1>a DEF AskOwner
  <2> QED  BY <1>a, <2>1, <2>2 DEF WatchOK
<1>4. CASE WatchEnds
  BY <1>4, <1>a DEF WatchEnds, WatchOK
<1>5. ASSUME NEW x \in Actors, CaptureOperations(x) \/ CaptureScans(x) PROVE WatchOK'
  BY <1>5, <1>a DEF CaptureOperations, CaptureScans, WatchOK
<1>6. ASSUME NEW x \in Actors, CleanupDone(x) PROVE WatchOK'
  <2>1. ~alive /\ ~alive'
    BY <1>6, <1>a DEF CleanupDone, WatchOK
  <2>2. CASE x = Watcher
    BY <1>6, <1>a, <2>1, <2>2 DEF CleanupDone, WatchOK
  <2>3. CASE x # Watcher
    BY <1>6, <1>a, <2>1, <2>3 DEF CleanupDone, WatchOK
  <2> QED  BY <2>2, <2>3
<1>7. CASE UNCHANGED <<stage, watching, alive>>
  BY <1>7 DEF WatchOK
<1>8. CASE OwnerLeaves
  BY <1>8 DEF OwnerLeaves, WatchOK
<1>9. ASSUME NEW x \in Actors, NEW c \in Calls,
             CancelOperation(x, c) \/ Cancelled(x, c) \/ StopScan(x, c) \/ Ends(c)
      PROVE  WatchOK'
  BY <1>7, <1>9 DEF CancelOperation, Cancelled, StopScan, Ends
<1> QED
  BY <1>1, <1>2, <1>3, <1>4, <1>5, <1>6, <1>7, <1>8, <1>9, <1>a DEF Next, CallStep, Cleanup, vars

LEMMA CancellersStep ==
  ASSUME DataOK, WatchOK, CancellersOK, [Next]_vars
  PROVE  CancellersOK'
<1>a. /\ Watcher \in Actors /\ Calls \subseteq Actors /\ Operations \subseteq Calls
      /\ Scans \subseteq Calls
      /\ stage \in [Actors -> Stage] /\ todo \in [Actors -> SUBSET Calls]
      /\ waits \in [Actors -> SUBSET Calls] /\ status \in [Calls -> Status]
  BY DEF Actors, Calls, DataOK
<1>b. ASSUME \A c \in Calls : status'[c] = "cancelling" => status[c] = "cancelling",
             \A c \in Calls, y \in Actors :
               status'[c] = "cancelling" /\ Canceller(c, y) => Canceller(c, y)'
      PROVE  CancellersOK'
  BY <1>b DEF CancellersOK
<1>1. ASSUME NEW c \in Calls, Admit(c) \/ Register(c) \/ AskOwner(c) \/ Ends(c) PROVE CancellersOK'
  <2>1. \A d \in Calls : status'[d] = "cancelling" => status[d] = "cancelling"
    BY <1>1, <1>a DEF Admit, Register, AskOwner, Ends
  <2>2. /\ UNCHANGED <<todo, waits>>
        /\ \A y \in Actors : stage[y] = "cancelling" => stage'[y] = "cancelling"
    <3>1. CASE Register(c)
      <4>1. stage[c] = "admitted" /\ (watching \/ stage[Watcher] = "unsent")
        BY <3>1 DEF Register, WatchOK
      <4> QED  BY <3>1, <1>a, <4>1 DEF Register
    <3>2. CASE Admit(c) \/ AskOwner(c) \/ Ends(c)
      BY <3>2, <1>a DEF Admit, AskOwner, Ends
    <3> QED  BY <1>1, <3>1, <3>2
  <2> QED  BY <1>b, <2>1, <2>2 DEF Canceller
<1>2. CASE WatchEnds \/ OwnerLeaves \/ UNCHANGED vars
  <2>1. /\ UNCHANGED <<todo, waits, status>>
        /\ \A y \in Actors : stage[y] = "cancelling" => stage'[y] = "cancelling"
    BY <1>2, <1>a DEF WatchEnds, OwnerLeaves, vars
  <2> QED  BY <1>b, <2>1 DEF Canceller
<1>3. ASSUME NEW x \in Actors, CaptureOperations(x) PROVE CancellersOK'
  <2>1. /\ UNCHANGED <<waits, status>> /\ stage[x] = "operations"
        /\ \A y \in Actors : y # x => stage'[y] = stage[y] /\ todo'[y] = todo[y]
    BY <1>3, <1>a DEF CaptureOperations
  <2> QED  BY <1>b, <2>1 DEF Canceller
<1>4. ASSUME NEW x \in Actors, CaptureScans(x) \/ CleanupDone(x) PROVE CancellersOK'
  <2>1. /\ UNCHANGED <<waits, status>> /\ todo[x] = {}
        /\ \A y \in Actors : y # x => stage'[y] = stage[y] /\ todo'[y] = todo[y]
    BY <1>4, <1>a DEF CaptureScans, CleanupDone
  <2> QED  BY <1>b, <2>1 DEF Canceller
<1>5. ASSUME NEW x \in Actors, NEW c \in Calls, CancelOperation(x, c) PROVE CancellersOK'
  <2>1. CASE status[c] = "active"
    <3>1. /\ status' = [status EXCEPT ![c] = "cancelling"] /\ waits' = [waits EXCEPT ![x] = {c}]
          /\ stage[x] = "cancelling" /\ waits[x] = {} /\ c \in todo[x] /\ UNCHANGED <<todo, stage>>
      BY <1>5, <2>1 DEF CancelOperation
    <3>2. Canceller(c, x)'
      BY <1>a, <3>1 DEF Canceller
    <3>3. \A d \in Calls, y \in Actors : Canceller(d, y) => Canceller(d, y)'
      BY <1>a, <3>1 DEF Canceller
    <3>4. \A d \in Calls : d # c => status'[d] = status[d]
      BY <1>a, <3>1
    <3> QED  BY <3>2, <3>3, <3>4 DEF CancellersOK
  <2>2. CASE status[c] # "active"
    <3>1. /\ UNCHANGED <<status, waits, stage>> /\ waits[x] = {}
          /\ \A y \in Actors : y # x => todo'[y] = todo[y]
      BY <1>5, <1>a, <2>2 DEF CancelOperation
    <3> QED  BY <1>b, <3>1 DEF Canceller
  <2> QED  BY <2>1, <2>2
<1>6. ASSUME NEW x \in Actors, NEW c \in Calls, Cancelled(x, c) PROVE CancellersOK'
  <2>1. /\ UNCHANGED <<status, stage>> /\ waits[x] = {c} /\ status[c] = "gone"
        /\ \A y \in Actors : y # x => todo'[y] = todo[y] /\ waits'[y] = waits[y]
    BY <1>6, <1>a DEF Cancelled
  <2> QED  BY <1>b, <2>1 DEF Canceller
<1>7. ASSUME NEW x \in Actors, NEW c \in Calls, StopScan(x, c) PROVE CancellersOK'
  <2>1. /\ UNCHANGED <<waits, stage>> /\ stage[x] = "stopping"
        /\ \A y \in Actors : y # x => todo'[y] = todo[y]
        /\ \A d \in Calls : status'[d] = "cancelling" => status[d] = "cancelling"
    BY <1>7, <1>a DEF StopScan
  <2> QED  BY <1>b, <2>1 DEF Canceller
<1> QED
  BY <1>1, <1>2, <1>3, <1>4, <1>5, <1>6, <1>7, <1>a DEF Next, CallStep, Cleanup

LEMMA CoveredStep ==
  ASSUME DataOK, WatchOK, CoveredOK, "monitor" \notin Faults, [Next]_vars
  PROVE  CoveredOK'
<1>a. /\ Watcher \in Actors /\ Calls \subseteq Actors /\ Operations \subseteq Calls
      /\ Scans \subseteq Calls /\ \A c \in Calls : c # Watcher
      /\ Calls = Operations \cup Scans
      /\ stage \in [Actors -> Stage] /\ todo \in [Actors -> SUBSET Calls]
      /\ waits \in [Actors -> SUBSET Calls] /\ status \in [Calls -> Status]
  BY WatcherAssumption DEF Actors, Calls, DataOK
<1>1. ASSUME NEW c \in Calls, Admit(c) PROVE CoveredOK'
  <2>1. /\ stage'[c] = "admitted" /\ stage[c] = "unsent" /\ UNCHANGED todo
        /\ \A x \in Actors : x # c => stage'[x] = stage[x]
        /\ \A d \in Calls : d # c => status'[d] = status[d]
    BY <1>1, <1>a DEF Admit
  <2>2. ASSUME NEW d \in Calls, d # c, Covered(d) PROVE Covered(d)'
    BY <1>a, <2>1, <2>2 DEF Covered
  <2>3. Covered(c)'
    BY <2>1 DEF Covered
  <2> QED  BY <2>1, <2>2, <2>3 DEF CoveredOK
<1>2. ASSUME NEW c \in Calls, Register(c) PROVE CoveredOK'
  <2>1. /\ stage[c] = "admitted" /\ UNCHANGED <<todo, status>>
        /\ \A x \in Actors : x # c /\ x # Watcher => stage'[x] = stage[x]
        /\ \/ stage'[c] = "asking" /\ stage'[Watcher] = stage[Watcher]
           \/ stage'[Watcher] = "waiting"
    BY <1>2, <1>a DEF Register
  <2>2. ASSUME NEW d \in Calls, Covered(d) PROVE Covered(d)'
    BY <1>a, <2>1, <2>2 DEF Covered
  <2> QED  BY <2>1, <2>2 DEF CoveredOK
<1>3. ASSUME NEW c \in Calls, AskOwner(c) PROVE CoveredOK'
  <2>1. /\ stage[c] = "asking" /\ UNCHANGED <<todo, status>>
        /\ \A x \in Actors : x # c => stage'[x] = stage[x]
        /\ alive \/ stage'[c] = "operations"
    BY <1>3, <1>a DEF AskOwner
  <2>2. CASE alive
    <3>1. stage[Watcher] = "waiting"
      BY <1>a, <2>1, <2>2 DEF WatchOK
    <3>2. stage'[Watcher] = "waiting"
      BY <1>a, <2>1, <3>1
    <3> QED  BY <3>2 DEF CoveredOK, Covered
  <2>3. CASE stage'[c] = "operations"
    <3>1. ASSUME NEW d \in Calls, Covered(d) PROVE Covered(d)'
      BY <1>a, <2>1, <2>3, <3>1 DEF Covered
    <3> QED  BY <2>1, <3>1 DEF CoveredOK
  <2> QED  BY <2>1, <2>2, <2>3
<1>4. CASE WatchEnds
  <2>1. stage'[Watcher] = "operations"
    BY <1>4, <1>a DEF WatchEnds
  <2> QED  BY <2>1 DEF CoveredOK, Covered
<1>5. ASSUME NEW x \in Actors, CaptureOperations(x) PROVE CoveredOK'
  <2>1. /\ stage[x] = "operations" /\ stage'[x] = "cancelling" /\ UNCHANGED status
        /\ todo'[x] = {c \in Operations : status[c] \in {"active", "cancelling"}}
    BY <1>5, <1>a DEF CaptureOperations
  <2>2. ASSUME NEW c \in Calls, status'[c] = "active" PROVE c \in todo'[x] \/ c \in Scans
    BY <1>a, <2>1, <2>2
  <2> QED  BY <2>1, <2>2 DEF CoveredOK, Covered
<1>6. ASSUME NEW x \in Actors, CaptureScans(x) PROVE CoveredOK'
  <2>1. /\ stage[x] = "cancelling" /\ stage'[x] = "stopping" /\ UNCHANGED status /\ todo[x] = {}
        /\ todo'[x] = {c \in Scans : Leased(c)}
        /\ \A y \in Actors : y # x => stage'[y] = stage[y] /\ todo'[y] = todo[y]
    BY <1>6, <1>a DEF CaptureScans
  <2>2. ASSUME NEW c \in Calls, status[c] = "active", Covered(c) PROVE Covered(c)'
    <3>1. CASE c \in Scans
      <4>1. c \in todo'[x]
        BY <2>1, <2>2, <3>1 DEF Leased
      <4> QED  BY <2>1, <4>1 DEF Covered
    <3>2. CASE c \notin Scans
      BY <1>a, <2>1, <2>2, <3>2 DEF Covered
    <3> QED  BY <3>1, <3>2
  <2> QED  BY <2>1, <2>2 DEF CoveredOK
<1>7. ASSUME NEW x \in Actors, CleanupDone(x) PROVE CoveredOK'
  <2>1. /\ stage[x] = "stopping" /\ todo[x] = {} /\ UNCHANGED <<todo, status>>
        /\ \A y \in Actors : y # x => stage'[y] = stage[y]
    BY <1>7, <1>a DEF CleanupDone
  <2>2. ASSUME NEW c \in Calls, Covered(c) PROVE Covered(c)'
    BY <1>a, <2>1, <2>2 DEF Covered
  <2> QED  BY <2>1, <2>2 DEF CoveredOK
<1>8. ASSUME NEW x \in Actors, NEW c \in Calls,
             CancelOperation(x, c) \/ Cancelled(x, c) \/ StopScan(x, c) \/ Ends(c)
      PROVE  CoveredOK'
  <2>1. /\ UNCHANGED stage
        /\ \A d \in Calls : status'[d] = "active" => status[d] = "active"
        /\ \A y \in Actors, d \in Calls : status'[d] = "active" /\ d \in todo[y] => d \in todo'[y]
    BY <1>8, <1>a DEF CancelOperation, Cancelled, StopScan, Ends
  <2>2. ASSUME NEW d \in Calls, status'[d] = "active", Covered(d) PROVE Covered(d)'
    BY <2>1, <2>2 DEF Covered
  <2> QED  BY <2>1, <2>2 DEF CoveredOK
<1>9. CASE OwnerLeaves \/ UNCHANGED vars
  BY <1>9 DEF OwnerLeaves, vars, CoveredOK, Covered
<1> QED
  BY <1>1, <1>2, <1>3, <1>4, <1>5, <1>6, <1>7, <1>8, <1>9, <1>a DEF Next, CallStep, Cleanup

(***************************************************************************)
(* Once the owner has left and every cleanup has run, none of its          *)
(* operations or scans is left running, however the calls, the watch task  *)
(* and the late reconciliations interleaved.  It needs a bus whose owner   *)
(* monitor does not fail while the owner lives.                            *)
(***************************************************************************)
THEOREM NothingForgotten ==
  ASSUME "monitor" \notin Faults
  PROVE  Spec => []NoForgottenRequest
<1>1. IInv /\ [Next]_vars => IInv'
  BY DataStep, WatchStep, CancellersStep, CoveredStep DEF IInv
<1>2. IInv => NoForgottenRequest
  <2> SUFFICES ASSUME IInv, Settled, NEW c \in Calls PROVE status[c] \notin {"active", "cancelling"}
    BY DEF NoForgottenRequest
  <2>1. \A x \in Actors : stage[x] \in {"unsent", "returned"}
    BY DEF Settled
  <2>2. Watcher \in Actors /\ c \in Actors
    BY DEF Actors
  <2>3. status[c] # "active"
    BY <2>1, <2>2 DEF IInv, CoveredOK, Covered
  <2>4. status[c] # "cancelling"
    BY <2>1 DEF IInv, CancellersOK, Canceller
  <2> QED  BY <2>3, <2>4
<1> QED  BY <1>1, <1>2, Start, PTL DEF Spec

-----------------------------------------------------------------------------
(***************************************************************************)
(* Transfers.  For any number of transfers in both directions: what is     *)
(* told about their ends is true, and files are reserved with consent      *)
(* only.                                                                   *)
(***************************************************************************)

(***************************************************************************)
(* The terminal events of a transfer.                                      *)
(***************************************************************************)
Outcome(t) == Told(t) \cap Terminal

(* obexd's side of a transfer fits how far the daemon has got, and a final *)
(* status that waits to be taken is the one that the transfer has.         *)
ObexdOK(t) ==
  /\ phase[t] = "none" => obexd[t] = "absent"
  /\ phase[t] \in {"prompt", "accepted"} => t \in Incoming /\ obexd[t] \in {"queued", "gone"}
  /\ phase[t] \in Monitoring \cup {"cleanup"} => obexd[t] \notin {"absent", "refused"}
  /\ \A i \in 1..Len(feed[t]) : feed[t][i] \in Final => obexd[t] = feed[t][i]

(* Nothing terminal is told before monitor_transfer has returned or the    *)
(* prompt is over, and from then on at most one thing, which is true.      *)
OutcomeOK(t) ==
  /\ phase[t] \notin {"cleanup", "ended", "dropped"} => Outcome(t) = {} /\ t \notin failed
  /\ phase[t] = "cleanup" =>
       IF t \in failed THEN Outcome(t) = {}
                       ELSE seen[t] \in Final /\ obexd[t] = seen[t] /\ Outcome(t) = {Event(seen[t])}
  /\ phase[t] \in {"ended", "dropped"} =>
       \/ Outcome(t) \in {{}, {"failed"}}
       \/ Outcome(t) = {"cancelled"} /\ obexd[t] \notin Live \cup {"complete"}
       \/ Outcome(t) = {"completed"} /\ obexd[t] = "complete"

(* Both, for every transfer.                                               *)
TransfersOK == \A t \in Transfers : ObexdOK(t) /\ OutcomeOK(t)

(* A prompt is in the map only while it is shown and nobody has answered   *)
(* it.                                                                     *)
Unanswered(t) == decision[t] = "none" /\ sending[t] = "none"

(* A prompt that can be taken from the map is unanswered, and files are    *)
(* reserved for prompts that are shown and for accepted ones only.         *)
PromptsOK ==
  /\ ReservationMatchesConsent
  /\ \A t \in pending : phase[t] = "prompt" /\ Unanswered(t)
  /\ \A t \in Incoming : phase[t] = "none" => Unanswered(t)

(* The inductive invariant of the transfers.                               *)
ObexIInv == TypeOK /\ TransfersOK /\ PromptsOK

(* The parts of TypeOK.                                                    *)
PhaseTypes ==
  /\ phase \in [Transfers -> Phase]
  /\ cancels \subseteq {t \in Transfers : phase[t] \in Monitoring \cup {"cleanup"}}

(* The prompts and the reservations.                                       *)
PromptTypes ==
  /\ pending \subseteq Incoming
  /\ sending \in [Incoming -> Decision]
  /\ decision \in [Incoming -> Decision]
  /\ files \subseteq Incoming

(* What a monitor knows and has told.                                      *)
MonitorTypes ==
  /\ signalled \subseteq Transfers
  /\ failed \subseteq Transfers
  /\ seen \in [Transfers -> Live \cup Final]
  /\ sent \in [Transfers -> Seq(Events)]

(* What obexd holds.                                                       *)
ObexdTypes ==
  /\ obexd \in [Transfers -> ObexStatus]
  /\ feed \in [Transfers -> Seq(Live \cup Final)]

(* TypeOK is the conjunction of its parts.                                 *)
LEMMA TypeParts == TypeOK <=> PhaseTypes /\ PromptTypes /\ MonitorTypes /\ ObexdTypes
BY DEF TypeOK, PhaseTypes, PromptTypes, MonitorTypes, ObexdTypes

(* No transfer is both sent and received.                                  *)
LEMMA Directions == \A t \in Outgoing : t \in Transfers /\ t \notin Incoming
BY DirectionsAreDistinct DEF Transfers

(* The event of a status is terminal exactly for a final one.              *)
LEMMA EventValues ==
  ASSUME NEW st \in Live \cup Final
  PROVE  /\ Event(st) \in Events
         /\ Event(st) \in Terminal <=> st \in Final
         /\ Event(st) = "completed" <=> st = "complete"
         /\ Event(st) = "cancelled" <=> st = "cancelled"
         /\ Event(st) = "failed" <=> st = "error"
BY DEF Event, Live, Final, Events, Terminal

(* What monitor_transfer takes or reads is a status of a transfer.         *)
LEMMA Observed ==
  ASSUME ObexdTypes, NEW t \in Transfers
  PROVE  /\ feed[t] # <<>> => Head(feed[t]) \in Live \cup Final
         /\ feed[t] # <<>> => Tail(feed[t]) \in Seq(Live \cup Final)
         /\ ObexdOK(t) /\ phase[t] = "refresh" /\ obexd[t] # "gone" => obexd[t] \in Live \cup Final
<1>1. feed[t] \in Seq(Live \cup Final) /\ obexd[t] \in ObexStatus
  BY DEF ObexdTypes
<1>2. feed[t] # <<>> => Head(feed[t]) \in Live \cup Final /\ Tail(feed[t]) \in Seq(Live \cup Final)
  BY <1>1
<1>3. ObexdOK(t) /\ phase[t] = "refresh" /\ obexd[t] # "gone" => obexd[t] \in Live \cup Final
  BY <1>1 DEF ObexdOK, ObexStatus, Monitoring
<1> QED  BY <1>2, <1>3

(* No step leaves the types of the tasks.                                  *)
LEMMA NextKeepsPhaseTypes ==
  ASSUME PhaseTypes, [ObexNext]_obexVars
  PROVE  PhaseTypes'
<1>1. CASE UNCHANGED <<phase, cancels>>
  BY <1>1 DEF PhaseTypes
<1>2. ASSUME NEW t \in Transfers, NEW p \in Phase, phase' = [phase EXCEPT ![t] = p],
             \/ p \in Monitoring \cup {"cleanup"} /\ cancels' \in {cancels, cancels \cup {t}}
             \/ phase[t] \notin Monitoring \cup {"cleanup"} /\ UNCHANGED cancels
             \/ cancels' = cancels \ {t}
      PROVE  PhaseTypes'
  <2>1. phase' \in [Transfers -> Phase]
    BY <1>2 DEF PhaseTypes
  <2>2. ASSUME NEW u \in cancels' PROVE u \in Transfers /\ phase'[u] \in Monitoring \cup {"cleanup"}
    BY <1>2, <2>2 DEF PhaseTypes
  <2> QED  BY <2>1, <2>2 DEF PhaseTypes
<1>p. Monitoring \cup {"cleanup", "ended", "prompt", "accepted", "dropped"} \subseteq Phase
  BY DEF Phase
<1>3. ASSUME NEW t \in Outgoing, NEW st, StartOwned(t, st) PROVE PhaseTypes'
  <2>1. PICK p \in {"cleanup", "connect"} : phase' = [phase EXCEPT ![t] = p]
    BY <1>3 DEF StartOwned
  <2> QED  BY <1>3, <1>2, <1>p, <2>1 DEF StartOwned, Monitoring, Transfers
<1>4. ASSUME NEW t \in Incoming, PrepareFails(t) \/ Authorize(t) \/ Timeout(t) \/ DropAuthorize(t)
      PROVE  PhaseTypes'
  <2>1. PICK p \in {"ended", "prompt", "dropped"} : phase' = [phase EXCEPT ![t] = p]
    BY <1>4 DEF PrepareFails, Authorize, Timeout, Refuse, DropAuthorize
  <2>2. phase[t] \notin Monitoring \cup {"cleanup"} /\ UNCHANGED cancels
    BY <1>4 DEF PrepareFails, Authorize, Timeout, DropAuthorize, Monitoring
  <2> QED  BY <1>2, <1>p, <2>1, <2>2 DEF Transfers
<1>5. ASSUME NEW t \in Incoming, Decide(t) PROVE PhaseTypes'
  <2>1. PICK p \in {"ended", "accepted"} : phase' = [phase EXCEPT ![t] = p]
    BY <1>5 DEF Decide, Refuse
  <2>2. phase[t] \notin Monitoring \cup {"cleanup"} /\ UNCHANGED cancels
    BY <1>5 DEF Decide, Monitoring
  <2> QED  BY <1>2, <1>p, <2>1, <2>2 DEF Transfers
<1>6. ASSUME NEW t \in Incoming, StartIncoming(t) PROVE PhaseTypes'
  BY <1>6, <1>2, <1>p DEF StartIncoming, Monitoring, Transfers
<1>7. ASSUME NEW ts, Cancel(ts) PROVE PhaseTypes'
  BY <1>7 DEF PhaseTypes, Cancel
<1>8. ASSUME NEW t \in Transfers, Subscribe(t) \/ Refresh(t) \/ TakeSignal(t) \/ Cancelling(t)
      PROVE  PhaseTypes'
  <2>1. PICK p \in {"refresh", "cleanup", "watch", "cancelling"} : phase' = [phase EXCEPT ![t] = p]
    BY <1>8 DEF Subscribe, Refresh, TakeSignal, Cancelling, BeginCancel, CancelAnswered, MonitorFails, Observe
  <2>2. UNCHANGED cancels
    BY <1>8 DEF Subscribe, Refresh, TakeSignal, Cancelling, BeginCancel, CancelAnswered
  <2> QED  BY <1>2, <1>p, <2>1, <2>2 DEF Monitoring
<1>9. ASSUME NEW t \in Transfers, Finish(t) PROVE PhaseTypes'
  BY <1>9, <1>2, <1>p DEF Finish
<1>10. CASE (\E t \in Incoming : Deliver(t) \/ \E answer \in Decision \ {"none"} : Answer(t, answer))
            \/ CancelAuthorizations \/ ObexdCrashes \/ UNCHANGED obexVars
            \/ \E t \in Transfers, st \in ObexStatus : ObexdMoves(t, st)
  BY <1>10, <1>1 DEF Deliver, Answer, CancelAuthorizations, ObexdCrashes, ObexdMoves, obexVars
<1> QED  BY <1>3, <1>4, <1>5, <1>6, <1>7, <1>8, <1>9, <1>10 DEF ObexNext, Prompting, Following

(* The prompts and the reservations.                                       *)
LEMMA NextKeepsPrompts ==
  ASSUME PhaseTypes, PromptTypes, PromptsOK, [ObexNext]_obexVars
  PROVE  PromptTypes' /\ PromptsOK'
<1> USE DEF ReservationMatchesConsent, Unanswered
<1>1. ASSUME UNCHANGED <<pending, sending, decision, files>>,
             \A t \in Incoming : /\ phase'[t] = "prompt" <=> phase[t] = "prompt"
                                 /\ phase'[t] = "dropped" <=> phase[t] = "dropped"
                                 /\ phase'[t] = "none" => phase[t] = "none"
      PROVE  PromptTypes' /\ PromptsOK'
  <2>1. PromptTypes'
    BY <1>1 DEF PromptTypes
  <2>2. PromptsOK'
    BY <1>1 DEF PromptTypes, PromptsOK
  <2> QED  BY <2>1, <2>2
<1>2. ASSUME NEW t \in Transfers, phase[t] \notin {"prompt", "dropped"}, NEW p \in Phase \ {"prompt", "none", "dropped"},
             phase' = [phase EXCEPT ![t] = p], UNCHANGED <<pending, sending, decision, files>>
      PROVE  PromptTypes' /\ PromptsOK'
  <2>1. \A u \in Incoming : /\ phase'[u] = "prompt" <=> phase[u] = "prompt"
                            /\ phase'[u] = "dropped" <=> phase[u] = "dropped"
                            /\ phase'[u] = "none" => phase[u] = "none"
    BY <1>2 DEF PhaseTypes, Transfers
  <2> QED  BY <1>1, <1>2, <2>1
<1>p. Monitoring \cup {"cleanup", "ended", "accepted"} \subseteq Phase \ {"prompt", "none", "dropped"}
  BY DEF Phase, Monitoring
<1>3. ASSUME NEW t \in Outgoing, NEW st, StartOwned(t, st) PROVE PromptTypes' /\ PromptsOK'
  <2>1. \A u \in Incoming : phase'[u] = phase[u]
    BY <1>3, Directions DEF StartOwned, PhaseTypes, Transfers
  <2> QED  BY <1>3, <1>1, <2>1 DEF StartOwned, promptVars
<1>4. ASSUME NEW t \in Incoming, PrepareFails(t) PROVE PromptTypes' /\ PromptsOK'
  BY <1>4, <1>2, <1>p DEF PrepareFails, promptVars, Transfers
<1>5. ASSUME NEW t \in Incoming, Authorize(t) PROVE PromptTypes' /\ PromptsOK'
  <2>1. /\ pending' = pending \cup {t} /\ files' = files \cup {t} /\ UNCHANGED <<sending, decision>>
        /\ phase' = [phase EXCEPT ![t] = "prompt"]
    BY <1>5 DEF Authorize, ReserveDestination
  <2>2. phase'[t] = "prompt" /\ \A u \in Incoming : u # t => phase'[u] = phase[u]
    BY <2>1 DEF PhaseTypes, Transfers
  <2>3. PromptTypes'
    BY <2>1 DEF PromptTypes
  <2>4. decision[t] = "none" /\ sending[t] = "none"
    BY <1>5 DEF Authorize, PromptsOK
  <2> QED  BY <2>1, <2>2, <2>3, <2>4 DEF PromptsOK, PromptTypes
<1>6. ASSUME NEW t \in Incoming, NEW answer \in Decision, Answer(t, answer)
      PROVE PromptTypes' /\ PromptsOK'
  <2>1. /\ UNCHANGED <<phase, decision, files>> /\ pending' = pending \ {t} /\ t \in pending
        /\ sending' = [sending EXCEPT ![t] = answer]
    BY <1>6 DEF Answer
  <2>2. PromptTypes'
    BY <1>6, <2>1 DEF PromptTypes
  <2>3. phase[t] = "prompt" /\ \A u \in Incoming : u # t => sending'[u] = sending[u]
    BY <2>1 DEF PromptsOK, PromptTypes
  <2> QED  BY <2>1, <2>2, <2>3 DEF PromptsOK, PromptTypes
<1>7. ASSUME NEW t \in Incoming, Deliver(t) PROVE PromptTypes' /\ PromptsOK'
  <2>1. /\ UNCHANGED <<phase, pending, files>> /\ sending' = [sending EXCEPT ![t] = "none"]
        /\ decision' = [decision EXCEPT ![t] = IF phase[t] = "prompt" THEN sending[t] ELSE @]
    BY <1>7 DEF Deliver
  <2>2. PromptTypes'
    BY <2>1 DEF PromptTypes, Decision
  <2>3. \A u \in Incoming : phase[u] = "prompt" \/ decision'[u] = decision[u]
    BY <2>1 DEF PromptTypes
  <2> QED  BY <2>1, <2>2, <2>3 DEF PromptsOK
<1>8. CASE CancelAuthorizations
  <2>1. /\ UNCHANGED <<phase, sending, files>> /\ pending' = {}
        /\ decision' = [t \in Incoming |-> IF t \in pending THEN "cancel" ELSE decision[t]]
    BY <1>8 DEF CancelAuthorizations
  <2>2. PromptTypes'
    BY <2>1 DEF PromptTypes, Decision
  <2>3. \A u \in Incoming : phase[u] = "prompt" \/ decision'[u] = decision[u]
    BY <2>1 DEF PromptsOK
  <2> QED  BY <2>1, <2>2, <2>3 DEF PromptsOK
<1>9. ASSUME NEW t \in Incoming, phase[t] = "prompt", decision[t] # "accept", Refuse(t),
             pending' \in {pending, pending \ {t}}, UNCHANGED <<sending, decision>>,
             t \notin pending'
      PROVE  PromptTypes' /\ PromptsOK'
  <2>1. files' = files \ {t} /\ phase'[t] = "ended" /\ \A u \in Incoming : u # t => phase'[u] = phase[u]
    BY <1>9 DEF Refuse, RemoveReservation, PhaseTypes, Transfers
  <2>2. PromptTypes'
    BY <1>9, <2>1 DEF PromptTypes
  <2> QED  BY <1>9, <2>1, <2>2 DEF PromptsOK, PromptTypes
<1>10. ASSUME NEW t \in Incoming, Timeout(t) PROVE PromptTypes' /\ PromptsOK'
  BY <1>10, <1>9 DEF Timeout
<1>11. ASSUME NEW t \in Incoming, Decide(t) PROVE PromptTypes' /\ PromptsOK'
  <2>1. CASE decision[t] = "accept"
    <3>1. /\ phase'[t] = "accepted" /\ \A u \in Incoming : u # t => phase'[u] = phase[u]
          /\ UNCHANGED <<pending, sending, decision, files>>
      BY <1>11, <2>1 DEF Decide, PhaseTypes, Transfers, promptVars
    <3>2. t \notin pending
      BY <2>1 DEF PromptsOK, Unanswered
    <3> QED  BY <2>1, <3>1, <3>2, <1>11 DEF PromptTypes, PromptsOK, Decide, Unanswered
  <2>2. CASE decision[t] # "accept"
    <3>1. t \notin pending
      BY <1>11, <2>2 DEF Decide, PromptsOK, Unanswered
    <3> QED  BY <1>9, <1>11, <2>2, <3>1 DEF Decide, promptVars
  <2> QED  BY <2>1, <2>2
<1>12. ASSUME NEW t \in Incoming, StartIncoming(t) PROVE PromptTypes' /\ PromptsOK'
  BY <1>12, <1>2, <1>p DEF StartIncoming, promptVars, Transfers, Monitoring
<1>13. ASSUME NEW t \in Transfers, Following(t) \/ Cancelling(t)
      PROVE  PromptTypes' /\ PromptsOK'
  <2>1. PICK p \in Monitoring \cup {"cleanup", "ended"} : phase' = [phase EXCEPT ![t] = p]
    BY <1>13 DEF Following, Subscribe, Refresh, TakeSignal, Finish, Cancelling, BeginCancel, CancelAnswered,
         MonitorFails, Observe, Monitoring
  <2>2. phase[t] \notin {"prompt", "dropped"} /\ UNCHANGED <<pending, sending, decision, files>>
    BY <1>13 DEF Following, Subscribe, Refresh, TakeSignal, Finish, Cancelling, BeginCancel, CancelAnswered,
         promptVars, Monitoring
  <2> QED  BY <1>2, <1>p, <2>1, <2>2
<1>14. CASE ObexdCrashes \/ UNCHANGED obexVars \/ (\E ts \in SUBSET cancels : Cancel(ts))
            \/ \E t \in Transfers, st \in ObexStatus : ObexdMoves(t, st)
  BY <1>14, <1>1 DEF ObexdCrashes, ObexdMoves, Cancel, obexVars, promptVars
<1>15. \A ts : Cancel(ts) => ts \in SUBSET cancels
  BY DEF Cancel
<1>16. ASSUME NEW t \in Incoming, DropAuthorize(t) PROVE PromptTypes' /\ PromptsOK'
  <2>1. /\ files' = files \ {t} /\ pending' = pending \ {t} /\ UNCHANGED <<sending, decision>>
        /\ phase'[t] = "dropped" /\ \A u \in Incoming : u # t => phase'[u] = phase[u]
    BY <1>16 DEF DropAuthorize, RemoveReservation, PhaseTypes, Transfers
  <2>2. PromptTypes'
    BY <2>1 DEF PromptTypes
  <2> QED  BY <2>1, <2>2 DEF PromptsOK, PromptTypes
<1> QED  BY <1>3, <1>4, <1>5, <1>6, <1>7, <1>8, <1>10, <1>11, <1>12, <1>13, <1>14, <1>15, <1>16 DEF ObexNext, Prompting
-----------------------------------------------------------------------------
(* Telling something adds it to what was told.                             *)
LEMMA TellingAdds ==
  ASSUME sent \in [Transfers -> Seq(Events)], NEW t \in Transfers, NEW event \in Events, Send(t, event)
  PROVE  /\ sent' \in [Transfers -> Seq(Events)]
         /\ Told(t)' = Told(t) \cup {event}
         /\ \A u \in Transfers : u # t => Told(u)' = Told(u)
<1>1. sent' = [sent EXCEPT ![t] = Append(sent[t], event)]
  BY DEF Send
<1>2. sent[t] \in Seq(Events)
  OBVIOUS
<1>3. Append(sent[t], event) \in Seq(Events)
  BY <1>2
<1>4. sent' \in [Transfers -> Seq(Events)] /\ sent'[t] = Append(sent[t], event)
      /\ \A u \in Transfers : u # t => sent'[u] = sent[u]
  BY <1>1, <1>3
<1>5. Told(t)' = Told(t) \cup {event}
  <2> DEFINE s == sent[t]
             n == Append(s, event)
  <2>1. Len(n) = Len(s) + 1 /\ n[Len(s) + 1] = event /\ \A i \in 1..Len(s) : n[i] = s[i]
    BY <1>2
  <2>2. Len(s) \in Nat
    BY <1>2
  <2>3. Told(t)' = {n[i] : i \in 1..Len(n)} /\ Told(t) = {s[i] : i \in 1..Len(s)}
    BY <1>4 DEF Told
  <2> HIDE DEF s, n
  <2>4. {n[i] : i \in 1..Len(n)} = {s[i] : i \in 1..Len(s)} \cup {event}
    <3>1. Len(s) + 1 \in 1..Len(n) /\ \A i \in 1..Len(s) : i \in 1..Len(n)
      BY <2>1, <2>2
    <3>2. \A i \in 1..Len(n) : i \in 1..Len(s) \/ i = Len(s) + 1
      BY <2>1, <2>2
    <3> QED  BY <2>1, <3>1, <3>2, Zenon
  <2> QED  BY <2>3, <2>4
<1> QED  BY <1>4, <1>5 DEF Told

(* Everything that the outcome of a transfer depends on.                   *)
Same(u) ==
  /\ phase'[u] = phase[u] /\ obexd'[u] = obexd[u] /\ feed'[u] = feed[u] /\ seen'[u] = seen[u]
  /\ u \in failed' <=> u \in failed
  /\ Told(u)' = Told(u)

(* A transfer that is left alone keeps its part of the invariant.          *)
LEMMA SameKeeps ==
  ASSUME NEW u \in Transfers, ObexdOK(u), OutcomeOK(u), Same(u)
  PROVE  ObexdOK(u)' /\ OutcomeOK(u)'
<1>1. Outcome(u)' = Outcome(u)
  BY DEF Same, Outcome
<1> QED  BY <1>1 DEF Same, ObexdOK, OutcomeOK

(* A step about one transfer leaves the others alone.                      *)
LEMMA OthersKeep ==
  ASSUME TransfersOK, NEW t \in Transfers, \A u \in Transfers : u # t => Same(u),
         ObexdOK(t)', OutcomeOK(t)'
  PROVE  TransfersOK'
BY SameKeeps DEF TransfersOK

(* monitor_transfer publishes a status that the transfer has.              *)
LEMMA ObserveKeeps ==
  ASSUME PhaseTypes, MonitorTypes, TransfersOK, NEW t \in Transfers, NEW st \in Live \cup Final,
         phase[t] \in Monitoring, Observe(t, st), UNCHANGED signalled,
         st \in Final => obexd'[t] = st,
         \A u \in Transfers : u # t => obexd'[u] = obexd[u] /\ feed'[u] = feed[u],
         obexd'[t] \notin {"absent", "refused"},
         \A i \in 1..Len(feed'[t]) : feed'[t][i] \in Final => obexd'[t] = feed'[t][i]
  PROVE  MonitorTypes' /\ TransfersOK'
<1>1. Event(st) \in Events /\ (Event(st) \in Terminal <=> st \in Final)
  BY EventValues
<1>2. /\ sent' \in [Transfers -> Seq(Events)]
      /\ Told(t)' = Told(t) \cup {Event(st)}
      /\ \A u \in Transfers : u # t => Told(u)' = Told(u)
  BY <1>1, TellingAdds DEF Observe, MonitorTypes
<1>3. seen' = [seen EXCEPT ![t] = st] /\ UNCHANGED failed
      /\ phase' = [phase EXCEPT ![t] = IF st \in Final THEN "cleanup" ELSE "watch"]
  BY DEF Observe
<1>4. seen'[t] = st /\ phase'[t] = IF st \in Final THEN "cleanup" ELSE "watch"
  BY <1>3 DEF PhaseTypes, MonitorTypes
<1>5. MonitorTypes'
  BY <1>2, <1>3 DEF MonitorTypes, Observe
<1>6. \A u \in Transfers : u # t => Same(u)
  BY <1>2, <1>3 DEF Same, PhaseTypes, MonitorTypes
<1>7. ObexdOK(t)'
  BY <1>4 DEF ObexdOK, Monitoring
<1>8. Outcome(t) = {} /\ t \notin failed
  BY DEF TransfersOK, OutcomeOK, Monitoring
<1>9. Outcome(t)' = {Event(st)} \cap Terminal
  BY <1>2, <1>8 DEF Outcome
<1>10. OutcomeOK(t)'
  BY <1>1, <1>3, <1>4, <1>8, <1>9 DEF OutcomeOK
<1> QED  BY <1>5, <1>6, <1>7, <1>10, OthersKeep

(* monitor_transfer returns an error: nothing is told yet.                 *)
LEMMA MonitorFailsKeeps ==
  ASSUME PhaseTypes, MonitorTypes, TransfersOK, NEW t \in Transfers, phase[t] \in Monitoring,
         MonitorFails(t), UNCHANGED <<signalled, obexd, feed>>
  PROVE  MonitorTypes' /\ TransfersOK'
<1>1. /\ phase' = [phase EXCEPT ![t] = "cleanup"]
      /\ failed' = failed \cup {t} /\ UNCHANGED <<seen, sent>>
  BY DEF MonitorFails
<1>2. \A u \in Transfers : Told(u)' = Told(u) /\ Outcome(u)' = Outcome(u)
  BY <1>1 DEF Told, Outcome
<1>3. MonitorTypes'
  BY <1>1 DEF MonitorTypes
<1>4. \A u \in Transfers : u # t => Same(u)
  BY <1>1, <1>2 DEF Same, PhaseTypes
<1>5. phase'[t] = "cleanup" /\ t \in failed'
  BY <1>1 DEF PhaseTypes
<1>6. ObexdOK(t)'
  BY <1>5 DEF TransfersOK, ObexdOK, Monitoring
<1>7. OutcomeOK(t)'
  BY <1>2, <1>5 DEF TransfersOK, OutcomeOK, Monitoring
<1> QED  BY <1>3, <1>4, <1>6, <1>7, OthersKeep
(* obexd moves a transfer from a live status to another one: no final      *)
(* status waits to be taken, and no end that depends on it has been told.  *)
LEMMA LiveChanges ==
  ASSUME NEW t \in Transfers, ObexdOK(t), OutcomeOK(t), obexd[t] \in Live,
         phase[t] \notin {"prompt", "accepted"} \/ obexd'[t] = "gone",
         obexd'[t] \in Live \cup Final \cup {"gone"}, phase'[t] = phase[t], seen'[t] = seen[t],
         t \in failed' <=> t \in failed, Told(t)' = Told(t),
         \A i \in 1..Len(feed'[t]) :
           (i \in 1..Len(feed[t]) /\ feed'[t][i] = feed[t][i]) \/ feed'[t][i] = obexd'[t]
  PROVE  ObexdOK(t)' /\ OutcomeOK(t)'
<1>1. obexd[t] \notin Final \cup {"absent"}
  BY DEF Live, Final
<1>2. \A i \in 1..Len(feed'[t]) : feed'[t][i] \in Final => obexd'[t] = feed'[t][i]
  BY <1>1 DEF ObexdOK
<1>3. obexd'[t] \notin {"absent", "refused"}
  BY DEF Live, Final
<1>4. ObexdOK(t)'
  BY <1>1, <1>2, <1>3 DEF ObexdOK
<1>5. Outcome(t)' = Outcome(t)
  BY DEF Outcome
<1>6. OutcomeOK(t)'
  BY <1>1, <1>5 DEF OutcomeOK, Final, Live
<1> QED  BY <1>4, <1>6

(* The steps before a transfer is followed keep every transfer's part.     *)
LEMMA StartsKeepTransfers ==
  ASSUME PhaseTypes, MonitorTypes, ObexdTypes, TransfersOK,
         \/ \E t \in Outgoing, st \in Live \cup {"complete", "error"} : StartOwned(t, st)
         \/ \E t \in Incoming : PrepareFails(t) \/ Authorize(t) \/ Timeout(t) \/ Decide(t) \/ StartIncoming(t)
                             \/ DropAuthorize(t)
  PROVE  MonitorTypes' /\ ObexdTypes' /\ TransfersOK'
<1>1. ASSUME NEW t \in Outgoing, NEW st \in Live \cup {"complete", "error"}, StartOwned(t, st)
      PROVE  MonitorTypes' /\ ObexdTypes' /\ TransfersOK'
  <2>1. t \in Transfers /\ st \in Live \cup Final
    BY DEF Transfers, Final
  <2>2. /\ phase[t] = "none" /\ phase' = [phase EXCEPT ![t] = IF st \in Final THEN "cleanup" ELSE "connect"]
        /\ obexd' = [obexd EXCEPT ![t] = st] /\ seen' = [seen EXCEPT ![t] = st]
        /\ Send(t, Event(st)) /\ UNCHANGED <<signalled, failed, feed>>
    BY <1>1 DEF StartOwned, StartFile
  <2>3. Event(st) \in Events /\ (Event(st) \in Terminal <=> st \in Final)
    BY <2>1, EventValues
  <2>4. /\ sent' \in [Transfers -> Seq(Events)] /\ Told(t)' = Told(t) \cup {Event(st)}
        /\ \A u \in Transfers : u # t => Told(u)' = Told(u)
    BY <2>1, <2>2, <2>3, TellingAdds DEF MonitorTypes
  <2>5. MonitorTypes'
    BY <2>1, <2>2, <2>4 DEF MonitorTypes
  <2>6. ObexdTypes'
    BY <2>1, <2>2 DEF ObexdTypes, ObexStatus
  <2>7. \A u \in Transfers : u # t => Same(u)
    BY <2>1, <2>2, <2>4 DEF Same, PhaseTypes, MonitorTypes, ObexdTypes
  <2>8. seen'[t] = st /\ obexd'[t] = st /\ phase'[t] = IF st \in Final THEN "cleanup" ELSE "connect"
    BY <2>1, <2>2 DEF PhaseTypes, MonitorTypes, ObexdTypes
  <2>9. \A i \in 1..Len(feed[t]) : feed[t][i] \notin Final
    BY <2>1, <2>2 DEF TransfersOK, ObexdOK, Final
  <2>10. ObexdOK(t)'
    BY <2>1, <2>2, <2>8, <2>9 DEF ObexdOK, Monitoring, Live, Final
  <2>11. Outcome(t)' = {Event(st)} \cap Terminal /\ t \notin failed'
    BY <2>1, <2>2, <2>4 DEF TransfersOK, OutcomeOK, Outcome
  <2>12. OutcomeOK(t)'
    BY <2>3, <2>8, <2>11 DEF OutcomeOK
  <2> QED  BY <2>1, <2>5, <2>6, <2>7, <2>10, <2>12, OthersKeep
<1>2. ASSUME NEW t \in Incoming, PrepareFails(t)
      PROVE  MonitorTypes' /\ ObexdTypes' /\ TransfersOK'
  <2>1. /\ t \in Transfers /\ phase[t] = "none" /\ phase' = [phase EXCEPT ![t] = "ended"]
        /\ obexd' = [obexd EXCEPT ![t] = "refused"] /\ UNCHANGED <<signalled, seen, failed, sent, feed>>
    BY <1>2 DEF PrepareFails, Transfers, monitorVars
  <2>2. MonitorTypes' /\ ObexdTypes'
    BY <2>1 DEF MonitorTypes, ObexdTypes, ObexStatus
  <2>3. \A u \in Transfers : Told(u)' = Told(u) /\ Outcome(u)' = Outcome(u)
    BY <2>1 DEF Told, Outcome
  <2>4. \A u \in Transfers : u # t => Same(u)
    BY <2>1, <2>3 DEF Same, PhaseTypes, ObexdTypes
  <2>5. phase'[t] = "ended" /\ obexd'[t] = "refused"
    BY <2>1 DEF PhaseTypes, ObexdTypes
  <2>6. \A i \in 1..Len(feed[t]) : feed[t][i] \notin Final
    BY <2>1 DEF TransfersOK, ObexdOK, Final
  <2>7. ObexdOK(t)'
    BY <2>1, <2>5, <2>6 DEF ObexdOK, Monitoring
  <2>8. OutcomeOK(t)'
    BY <2>1, <2>3, <2>5 DEF TransfersOK, OutcomeOK
  <2> QED  BY <2>1, <2>2, <2>4, <2>7, <2>8, OthersKeep
<1>3. ASSUME NEW t \in Incoming, Authorize(t)
      PROVE  MonitorTypes' /\ ObexdTypes' /\ TransfersOK'
  <2>1. /\ t \in Transfers /\ phase[t] = "none" /\ phase' = [phase EXCEPT ![t] = "prompt"]
        /\ obexd' = [obexd EXCEPT ![t] = "queued"] /\ UNCHANGED <<signalled, seen, failed, feed>>
        /\ Send(t, "authorization-requested")
    BY <1>3 DEF Authorize, Transfers, monitorVars
  <2>2. /\ sent' \in [Transfers -> Seq(Events)] /\ Told(t)' = Told(t) \cup {"authorization-requested"}
        /\ \A u \in Transfers : u # t => Told(u)' = Told(u)
    BY <2>1, TellingAdds DEF MonitorTypes, Events
  <2>3. MonitorTypes' /\ ObexdTypes'
    BY <2>1, <2>2 DEF MonitorTypes, ObexdTypes, ObexStatus, Live
  <2>4. \A u \in Transfers : u # t => Same(u)
    BY <2>1, <2>2 DEF Same, PhaseTypes, ObexdTypes
  <2>5. phase'[t] = "prompt" /\ obexd'[t] = "queued"
    BY <2>1 DEF PhaseTypes, ObexdTypes
  <2>6. \A i \in 1..Len(feed[t]) : feed[t][i] \notin Final
    BY <2>1 DEF TransfersOK, ObexdOK, Final
  <2>7. ObexdOK(t)'
    BY <2>1, <2>5, <2>6, <1>3 DEF ObexdOK, Monitoring
  <2>8. Outcome(t)' = {} /\ t \notin failed'
    BY <2>1, <2>2 DEF TransfersOK, OutcomeOK, Outcome, Terminal
  <2>9. OutcomeOK(t)'
    BY <2>5, <2>8 DEF OutcomeOK
  <2> QED  BY <2>1, <2>3, <2>4, <2>7, <2>9, OthersKeep
<1>4. ASSUME NEW t \in Incoming, phase[t] = "prompt", Refuse(t), UNCHANGED <<signalled, seen, failed, feed>>
      PROVE  MonitorTypes' /\ ObexdTypes' /\ TransfersOK'
  <2>1. /\ t \in Transfers /\ phase' = [phase EXCEPT ![t] = "ended"] /\ Send(t, "cancelled")
        /\ obexd' = [obexd EXCEPT ![t] = IF @ \in Live THEN "refused" ELSE @]
    BY <1>4 DEF Refuse, Transfers
  <2>2. /\ sent' \in [Transfers -> Seq(Events)] /\ Told(t)' = Told(t) \cup {"cancelled"}
        /\ \A u \in Transfers : u # t => Told(u)' = Told(u)
    BY <2>1, TellingAdds DEF MonitorTypes, Events, Terminal
  <2>3. MonitorTypes' /\ ObexdTypes'
    BY <1>4, <2>1, <2>2 DEF MonitorTypes, ObexdTypes, ObexStatus, Live
  <2>4. \A u \in Transfers : u # t => Same(u)
    BY <1>4, <2>1, <2>2 DEF Same, PhaseTypes, ObexdTypes
  <2>5. obexd[t] \in {"queued", "gone"} /\ \A i \in 1..Len(feed[t]) : feed[t][i] \notin Final
    BY <1>4, <2>1 DEF TransfersOK, ObexdOK, Final
  <2>6. phase'[t] = "ended" /\ obexd'[t] \in {"refused", "gone"}
    BY <2>1, <2>5 DEF PhaseTypes, ObexdTypes, Live
  <2>7. ObexdOK(t)'
    BY <1>4, <2>5, <2>6 DEF ObexdOK, Monitoring
  <2>8. Outcome(t)' = {"cancelled"}
    BY <1>4, <2>1, <2>2 DEF TransfersOK, OutcomeOK, Outcome, Terminal
  <2>9. OutcomeOK(t)'
    BY <2>6, <2>8 DEF OutcomeOK, Live
  <2> QED  BY <2>1, <2>3, <2>4, <2>7, <2>9, OthersKeep
<1>5. ASSUME NEW t \in Incoming, NEW p \in {"accepted", "connect"}, phase' = [phase EXCEPT ![t] = p],
             phase[t] \in {"prompt", "accepted"}, UNCHANGED <<signalled, seen, failed, feed, obexd, sent>>
      PROVE  MonitorTypes' /\ ObexdTypes' /\ TransfersOK'
  <2>1. t \in Transfers /\ phase'[t] = p
    BY <1>5 DEF PhaseTypes, Transfers
  <2>2. MonitorTypes' /\ ObexdTypes'
    BY <1>5 DEF MonitorTypes, ObexdTypes
  <2>3. \A u \in Transfers : Told(u)' = Told(u) /\ Outcome(u)' = Outcome(u)
    BY <1>5 DEF Told, Outcome
  <2>4. \A u \in Transfers : u # t => Same(u)
    BY <1>5, <2>3 DEF Same, PhaseTypes
  <2>5. ObexdOK(t)'
    BY <1>5, <2>1 DEF TransfersOK, ObexdOK, Monitoring
  <2>6. OutcomeOK(t)'
    BY <1>5, <2>1, <2>3 DEF TransfersOK, OutcomeOK
  <2> QED  BY <2>1, <2>2, <2>4, <2>5, <2>6, OthersKeep
<1>6. ASSUME NEW t \in Incoming, Timeout(t) \/ Decide(t) \/ StartIncoming(t)
      PROVE  MonitorTypes' /\ ObexdTypes' /\ TransfersOK'
  BY <1>6, <1>4, <1>5 DEF Timeout, Decide, StartIncoming, monitorVars, obexdVars
<1>7. ASSUME NEW t \in Incoming, DropAuthorize(t) PROVE MonitorTypes' /\ ObexdTypes' /\ TransfersOK'
  <2>1. /\ t \in Transfers /\ phase[t] \in {"prompt", "accepted"} /\ phase' = [phase EXCEPT ![t] = "dropped"]
        /\ obexd' = [obexd EXCEPT ![t] = IF @ \in Live THEN "refused" ELSE @]
        /\ Send(t, "cancelled") \/ UNCHANGED sent
        /\ UNCHANGED <<signalled, seen, failed, feed>>
    BY <1>7 DEF DropAuthorize, Transfers, monitorVars
  <2>2. /\ sent' \in [Transfers -> Seq(Events)]
        /\ Told(t)' \in {Told(t), Told(t) \cup {"cancelled"}}
        /\ \A u \in Transfers : u # t => Told(u)' = Told(u)
    <3>1. CASE Send(t, "cancelled")
      BY <2>1, <3>1, TellingAdds DEF MonitorTypes, Events, Terminal
    <3>2. CASE UNCHANGED sent
      BY <3>2 DEF MonitorTypes, Told
    <3> QED  BY <2>1, <3>1, <3>2
  <2>3. MonitorTypes' /\ ObexdTypes'
    BY <2>1, <2>2 DEF MonitorTypes, ObexdTypes, ObexStatus, Live
  <2>4. \A u \in Transfers : u # t => Same(u)
    BY <2>1, <2>2 DEF Same, PhaseTypes, ObexdTypes
  <2>5. obexd[t] \in {"queued", "gone"} /\ \A i \in 1..Len(feed[t]) : feed[t][i] \notin Final
    BY <2>1 DEF TransfersOK, ObexdOK, Final
  <2>6. phase'[t] = "dropped" /\ obexd'[t] \in {"refused", "gone"}
    BY <2>1, <2>5 DEF PhaseTypes, ObexdTypes, Live
  <2>7. ObexdOK(t)'
    BY <2>1, <2>5, <2>6 DEF ObexdOK, Monitoring
  <2>8. Outcome(t)' \in {{}, {"cancelled"}}
    BY <2>1, <2>2 DEF TransfersOK, OutcomeOK, Outcome, Terminal
  <2>9. OutcomeOK(t)'
    BY <2>6, <2>8 DEF OutcomeOK, Live
  <2> QED  BY <2>1, <2>3, <2>4, <2>7, <2>9, OthersKeep
<1> QED  BY <1>1, <1>2, <1>3, <1>6, <1>7

(* The task that follows a transfer.                                       *)
LEMMA FollowingKeepsTransfers ==
  ASSUME PhaseTypes, MonitorTypes, ObexdTypes, TransfersOK, NEW t \in Transfers,
         Following(t) \/ Cancelling(t)
  PROVE  MonitorTypes' /\ ObexdTypes' /\ TransfersOK'
<1> USE DEF Monitoring
<1>1. ObexdOK(t) /\ OutcomeOK(t)
  BY DEF TransfersOK
<1>2. ASSUME NEW p \in Monitoring, phase[t] \in Monitoring, phase' = [phase EXCEPT ![t] = p],
             UNCHANGED <<signalled, seen, failed, sent, obexd, feed>>
      PROVE  MonitorTypes' /\ ObexdTypes' /\ TransfersOK'
  <2>1. MonitorTypes' /\ ObexdTypes'
    BY <1>2 DEF MonitorTypes, ObexdTypes
  <2>2. \A u \in Transfers : Told(u)' = Told(u) /\ Outcome(u)' = Outcome(u)
    BY <1>2 DEF Told, Outcome
  <2>3. phase'[t] = p /\ \A u \in Transfers : u # t => Same(u)
    BY <1>2, <2>2 DEF Same, PhaseTypes
  <2>4. ObexdOK(t)'
    BY <1>1, <1>2, <2>3 DEF ObexdOK
  <2>5. OutcomeOK(t)'
    BY <1>1, <1>2, <2>2, <2>3 DEF OutcomeOK
  <2> QED  BY <2>1, <2>3, <2>4, <2>5, OthersKeep
<1>3. ASSUME phase[t] \in Monitoring, MonitorFails(t), UNCHANGED <<signalled, obexd, feed>>
      PROVE  MonitorTypes' /\ ObexdTypes' /\ TransfersOK'
  BY <1>3, MonitorFailsKeeps DEF ObexdTypes
<1>4. CASE Subscribe(t)
  BY <1>4, <1>2, <1>3 DEF Subscribe, monitorVars, obexdVars
<1>5. CASE Refresh(t)
  <2>1. CASE obexd[t] # "gone" /\ Observe(t, obexd[t])
    <3>1. obexd[t] \in Live \cup Final /\ phase[t] = "refresh" /\ UNCHANGED <<signalled, obexd, feed>>
      BY <1>1, <1>5, <2>1, Observed DEF Refresh, obexdVars
    <3>2. obexd[t] \notin {"absent", "refused"}
      BY <1>1, <3>1 DEF ObexdOK
    <3>3. MonitorTypes' /\ TransfersOK'
      BY <1>1, <2>1, <3>1, <3>2, ObserveKeeps DEF ObexdOK
    <3> QED  BY <3>1, <3>3 DEF ObexdTypes
  <2> QED  BY <1>5, <1>3, <2>1 DEF Refresh, obexdVars
<1>6. CASE TakeSignal(t)
  <2> DEFINE st == Head(feed[t])
  <2>1. /\ phase[t] = "watch" /\ feed[t] # <<>> /\ feed' = [feed EXCEPT ![t] = Tail(feed[t])]
        /\ Observe(t, st) /\ UNCHANGED <<signalled, obexd>>
    BY <1>6 DEF TakeSignal
  <2>2. st \in Live \cup Final /\ Tail(feed[t]) \in Seq(Live \cup Final)
    BY <2>1, Observed
  <2>3. ObexdTypes'
    BY <2>1, <2>2 DEF ObexdTypes
  <2>4. /\ Len(Tail(feed[t])) = Len(feed[t]) - 1 /\ Len(feed[t]) \in Nat \ {0}
        /\ st = feed[t][1]
        /\ \A i \in 1..Len(Tail(feed[t])) : Tail(feed[t])[i] = feed[t][i + 1]
    <3>1. feed[t] \in Seq(Live \cup Final)
      BY DEF ObexdTypes
    <3> QED  BY <2>1, <3>1
  <2>5. st \in Final => obexd[t] = st
    BY <1>1, <2>4 DEF ObexdOK
  <2>6. \A i \in 1..Len(Tail(feed[t])) : Tail(feed[t])[i] \in Final => obexd[t] = Tail(feed[t])[i]
    <3> SUFFICES ASSUME NEW i \in 1..Len(Tail(feed[t])), Tail(feed[t])[i] \in Final
                 PROVE  obexd[t] = Tail(feed[t])[i]
      OBVIOUS
    <3>1. i + 1 \in 1..Len(feed[t]) /\ Tail(feed[t])[i] = feed[t][i + 1]
      BY <2>4
    <3> QED  BY <1>1, <3>1 DEF ObexdOK
  <2>7. feed'[t] = Tail(feed[t]) /\ \A u \in Transfers : u # t => feed'[u] = feed[u]
    BY <2>1 DEF ObexdTypes
  <2>8. obexd[t] \notin {"absent", "refused"}
    BY <1>1, <2>1 DEF ObexdOK
  <2> HIDE DEF st
  <2>9. MonitorTypes' /\ TransfersOK'
    BY <2>1, <2>2, <2>5, <2>6, <2>7, <2>8, ObserveKeeps
  <2> QED  BY <2>3, <2>9
<1>7. CASE BeginCancel(t)
  BY <1>7, <1>2 DEF BeginCancel, monitorVars, obexdVars
<1>8. CASE CancelAnswered(t)
  <2>1. CASE obexd[t] \in Live
    <3>1. /\ obexd' = [obexd EXCEPT ![t] = "cancelled"] /\ Observe(t, "cancelled") /\ UNCHANGED <<signalled, feed>>
          /\ phase[t] = "cancelling"
      BY <1>8, <2>1 DEF CancelAnswered
    <3>2. ObexdTypes' /\ obexd'[t] = "cancelled" /\ \A u \in Transfers : u # t => obexd'[u] = obexd[u]
      BY <3>1 DEF ObexdTypes, ObexStatus, Final
    <3>3. \A i \in 1..Len(feed[t]) : feed[t][i] \notin Final
      BY <1>1, <2>1 DEF ObexdOK, Live, Final
    <3>4. "cancelled" \in Live \cup Final
      BY DEF Final
    <3>5. MonitorTypes' /\ TransfersOK'
      BY <3>1, <3>2, <3>3, <3>4, ObserveKeeps
    <3> QED  BY <3>2, <3>5
  <2>2. CASE obexd[t] \notin Live
    BY <1>8, <2>2, <1>3 DEF CancelAnswered
  <2> QED  BY <2>1, <2>2
<1>9. CASE Finish(t)
  <2>1. /\ phase[t] = "cleanup" /\ phase' = [phase EXCEPT ![t] = "ended"]
        /\ obexd' = [obexd EXCEPT ![t] = IF t \in Outgoing /\ @ \in Live THEN "gone" ELSE @]
        /\ UNCHANGED <<signalled, seen, failed, feed>>
        /\ IF t \in failed \/ seen[t] = "error" THEN Send(t, "failed") ELSE UNCHANGED sent
    BY <1>9 DEF Finish, monitorVars
  <2>2. ObexdTypes' /\ obexd'[t] \in {obexd[t], IF obexd[t] \in Live THEN "gone" ELSE obexd[t]}
        /\ phase'[t] = "ended"
        /\ \A u \in Transfers : u # t => obexd'[u] = obexd[u] /\ phase'[u] = phase[u]
    BY <2>1 DEF ObexdTypes, ObexStatus, PhaseTypes
  <2>3. /\ sent' \in [Transfers -> Seq(Events)]
        /\ Told(t)' = IF t \in failed \/ seen[t] = "error" THEN Told(t) \cup {"failed"} ELSE Told(t)
        /\ \A u \in Transfers : u # t => Told(u)' = Told(u)
    <3>1. CASE t \in failed \/ seen[t] = "error"
      BY <2>1, <3>1, TellingAdds DEF MonitorTypes, Events, Terminal
    <3>2. CASE ~(t \in failed \/ seen[t] = "error")
      BY <2>1, <3>2 DEF MonitorTypes, Told
    <3> QED  BY <3>1, <3>2
  <2>4. MonitorTypes'
    BY <2>1, <2>3 DEF MonitorTypes
  <2>5. \A u \in Transfers : u # t => Same(u)
    BY <2>1, <2>2, <2>3 DEF Same
  <2>6. ObexdOK(t)'
    BY <1>1, <2>1, <2>2 DEF ObexdOK, Live, Final
  <2>7. Outcome(t)' = IF t \in failed \/ seen[t] = "error" THEN Outcome(t) \cup {"failed"} ELSE Outcome(t)
    BY <2>3 DEF Outcome, Terminal
  <2>8. OutcomeOK(t)'
    <3>1. CASE t \in failed
      BY <1>1, <2>1, <2>2, <2>7, <3>1 DEF OutcomeOK
    <3>2. CASE t \notin failed
      <4>1. seen[t] \in Final /\ obexd[t] = seen[t] /\ Outcome(t) = {Event(seen[t])}
        BY <1>1, <2>1, <3>2 DEF OutcomeOK
      <4>2. obexd'[t] = obexd[t]
        BY <2>2, <4>1 DEF Live, Final
      <4>3. CASE seen[t] = "error"
        BY <2>2, <2>7, <4>1, <4>3 DEF OutcomeOK, Event
      <4>4. CASE seen[t] = "complete"
        BY <2>2, <2>7, <3>2, <4>1, <4>2, <4>4 DEF OutcomeOK, Event
      <4>5. CASE seen[t] = "cancelled"
        BY <2>2, <2>7, <3>2, <4>1, <4>2, <4>5 DEF OutcomeOK, Event, Live
      <4> QED  BY <4>1, <4>3, <4>4, <4>5 DEF Final
    <3> QED  BY <3>1, <3>2
  <2> QED  BY <2>2, <2>4, <2>5, <2>6, <2>8, OthersKeep
<1> QED  BY <1>4, <1>5, <1>6, <1>7, <1>8, <1>9 DEF Following, Cancelling

(* Every step keeps every transfer's part.                                 *)
LEMMA NextKeepsTransfers ==
  ASSUME PhaseTypes, MonitorTypes, ObexdTypes, TransfersOK, [ObexNext]_obexVars
  PROVE  MonitorTypes' /\ ObexdTypes' /\ TransfersOK'
<1>1. ASSUME UNCHANGED <<phase, seen, failed, sent, obexd, feed>>, signalled' \subseteq Transfers
      PROVE  MonitorTypes' /\ ObexdTypes' /\ TransfersOK'
  <2>1. \A u \in Transfers : Same(u)
    BY <1>1 DEF Same, Told
  <2>2. TransfersOK'
    BY <2>1, SameKeeps DEF TransfersOK
  <2> QED  BY <1>1, <2>2 DEF MonitorTypes, ObexdTypes
<1>2. ASSUME NEW ts, Cancel(ts) PROVE MonitorTypes' /\ ObexdTypes' /\ TransfersOK'
  <2>1. signalled' \subseteq Transfers
    BY <1>2 DEF Cancel, MonitorTypes, PhaseTypes
  <2> QED  BY <1>1, <1>2, <2>1 DEF Cancel, monitorVars, obexdVars
<1>3. ASSUME NEW t \in Transfers, NEW st \in ObexStatus, ObexdMoves(t, st)
      PROVE  MonitorTypes' /\ ObexdTypes' /\ TransfersOK'
  <2>1. /\ obexd[t] \in Live /\ st \in {"active", "complete", "error"}
        /\ obexd' = [obexd EXCEPT ![t] = st]
        /\ feed' = [feed EXCEPT ![t] = IF Subscribed(t) THEN Append(feed[t], st) ELSE feed[t]]
        /\ UNCHANGED <<phase, signalled, seen, failed, sent>>
    BY <1>3 DEF ObexdMoves, monitorVars
  <2>2. st \in Live \cup Final
    BY <2>1 DEF Live, Final
  <2>3. feed[t] \in Seq(Live \cup Final)
    BY DEF ObexdTypes
  <2>4. Append(feed[t], st) \in Seq(Live \cup Final)
    BY <2>2, <2>3
  <2>5. ObexdTypes' /\ MonitorTypes'
    BY <2>1, <2>2, <2>4 DEF ObexdTypes, MonitorTypes, ObexStatus
  <2>6. /\ obexd'[t] = st /\ feed'[t] \in {feed[t], Append(feed[t], st)}
        /\ \A u \in Transfers : u # t => feed'[u] = feed[u] /\ obexd'[u] = obexd[u]
    BY <2>1 DEF ObexdTypes
  <2>7. \A i \in 1..Len(feed'[t]) : (i \in 1..Len(feed[t]) /\ feed'[t][i] = feed[t][i]) \/ feed'[t][i] = st
    BY <2>3, <2>6
  <2>8. \A u \in Transfers : Told(u)' = Told(u)
    BY <2>1 DEF Told
  <2>9. \A u \in Transfers : u # t => Same(u)
    BY <2>1, <2>6, <2>8 DEF Same
  <2>10. ObexdOK(t) /\ OutcomeOK(t)
    BY DEF TransfersOK
  <2>11. phase[t] \notin {"prompt", "accepted"}
    BY <1>3, <2>10 DEF ObexdMoves, ObexdOK, Monitoring
  <2>12. ObexdOK(t)' /\ OutcomeOK(t)'
    BY <2>1, <2>2, <2>6, <2>7, <2>8, <2>10, <2>11, LiveChanges
  <2> QED  BY <2>5, <2>9, <2>12, OthersKeep
<1>4. CASE ObexdCrashes
  <2>1. /\ obexd' = [t \in Transfers |-> IF obexd[t] \in Live THEN "gone" ELSE obexd[t]]
        /\ UNCHANGED <<phase, signalled, seen, failed, sent, feed>>
    BY <1>4 DEF ObexdCrashes, monitorVars
  <2>2. ObexdTypes' /\ MonitorTypes'
    BY <2>1 DEF ObexdTypes, MonitorTypes, ObexStatus
  <2>3. ASSUME NEW u \in Transfers PROVE ObexdOK(u)' /\ OutcomeOK(u)'
    <3>1. Told(u)' = Told(u) /\ ObexdOK(u) /\ OutcomeOK(u)
      BY <2>1 DEF Told, TransfersOK
    <3>2. CASE obexd[u] \in Live
      <4>1. obexd'[u] = "gone"
        BY <2>1, <3>2
      <4> QED  BY <2>1, <3>1, <3>2, <4>1, LiveChanges
    <3>3. CASE obexd[u] \notin Live
      <4>1. Same(u)
        BY <2>1, <3>1, <3>3 DEF Same
      <4> QED  BY <3>1, <4>1, SameKeeps
    <3> QED  BY <3>2, <3>3
  <2> QED  BY <2>2, <2>3 DEF TransfersOK
<1>5. CASE (\E t \in Incoming : Deliver(t) \/ \E answer \in Decision \ {"none"} : Answer(t, answer))
           \/ CancelAuthorizations \/ UNCHANGED obexVars
  <2>1. UNCHANGED <<phase, seen, failed, sent, obexd, feed, signalled>>
    BY <1>5 DEF Deliver, Answer, CancelAuthorizations, obexVars, monitorVars, obexdVars
  <2> QED  BY <1>1, <2>1 DEF MonitorTypes
<1> QED  BY <1>2, <1>3, <1>4, <1>5, StartsKeepTransfers, FollowingKeepsTransfers DEF ObexNext, Prompting

-----------------------------------------------------------------------------
(* The invariant holds when the daemon starts.                             *)
LEMMA InitObexIInv == ObexInit => ObexIInv
<1> SUFFICES ASSUME ObexInit PROVE ObexIInv
  OBVIOUS
<1>1. \A S : <<>> \in Seq(S)
  OBVIOUS
<1>2. PhaseTypes /\ PromptTypes
  BY DEF ObexInit, PhaseTypes, PromptTypes, Phase, Decision
<1>3. MonitorTypes /\ ObexdTypes
  BY <1>1 DEF ObexInit, MonitorTypes, ObexdTypes, Live, ObexStatus
<1>4. PromptsOK
  BY DEF ObexInit, PromptsOK, ReservationMatchesConsent, Unanswered, Transfers
<1>5. ASSUME NEW t \in Transfers PROVE ObexdOK(t) /\ OutcomeOK(t)
  <2>1. /\ phase[t] = "none" /\ obexd[t] = "absent" /\ failed = {}
        /\ Len(feed[t]) = 0 /\ Len(sent[t]) = 0
    BY DEF ObexInit
  <2>2. Outcome(t) = {}
    BY <2>1 DEF Outcome, Told
  <2> QED  BY <2>1, <2>2 DEF ObexdOK, OutcomeOK, Monitoring
<1> QED  BY <1>2, <1>3, <1>4, <1>5, TypeParts DEF ObexIInv, TransfersOK

(***************************************************************************)
(* For any number of transfers in both directions, ObexIInv always holds.  *)
(***************************************************************************)
THEOREM ObexInvariant == ObexSpec => []ObexIInv
<1>1. ObexIInv /\ [ObexNext]_obexVars => ObexIInv'
  <2> SUFFICES ASSUME ObexIInv, [ObexNext]_obexVars PROVE ObexIInv'
    OBVIOUS
  <2>1. PhaseTypes /\ PromptTypes /\ MonitorTypes /\ ObexdTypes /\ TransfersOK /\ PromptsOK
    BY TypeParts DEF ObexIInv
  <2>2. PhaseTypes' /\ PromptTypes' /\ MonitorTypes' /\ ObexdTypes' /\ TransfersOK' /\ PromptsOK'
    BY <2>1, NextKeepsPhaseTypes, NextKeepsPrompts, NextKeepsTransfers
  <2>3. TypeOK'
    BY <2>2 DEF TypeOK, PhaseTypes, PromptTypes, MonitorTypes, ObexdTypes
  <2> QED  BY <2>2, <2>3 DEF ObexIInv
<1> QED  BY <1>1, InitObexIInv, PTL DEF ObexSpec

(***************************************************************************)
(* TypeOK always holds.                                                    *)
(***************************************************************************)
THEOREM ObexTypeCorrect == ObexSpec => []TypeOK
<1>1. ObexIInv => TypeOK
  BY DEF ObexIInv
<1> QED  BY <1>1, ObexInvariant, PTL

(***************************************************************************)
(* For any number of transfers, OutcomeIsTrue always holds: completed is   *)
(* told only if obexd has the whole file through, cancelled only if it     *)
(* neither has nor will, and no transfer is told two ends, in every        *)
(* interleaving of signals, refreshes, cancellations and the loss of obexd *)
(* (monitor_transfer).                                                     *)
(***************************************************************************)
THEOREM OutcomesAreTrue == ObexSpec => []OutcomeIsTrue
<1>1. ObexIInv => OutcomeIsTrue
  <2> SUFFICES ASSUME ObexIInv, NEW t \in Transfers
               PROVE  /\ "completed" \in Told(t) => obexd[t] = "complete"
                      /\ "cancelled" \in Told(t) => obexd[t] \notin Live \cup {"complete"}
                      /\ Cardinality(Told(t) \cap Terminal) <= 1
    BY DEF OutcomeIsTrue
  <2>1. ObexdOK(t) /\ OutcomeOK(t) /\ phase[t] \in Phase
    BY DEF ObexIInv, TransfersOK, TypeOK
  <2>2. PICK S : S = Outcome(t)
    OBVIOUS
  <2>3. \/ S \in {{}, {"failed"}}
        \/ S = {"cancelled"} /\ obexd[t] \notin Live \cup {"complete"}
        \/ S = {"completed"} /\ obexd[t] = "complete"
    <3>1. CASE phase[t] = "cleanup" /\ t \notin failed
      <4>1. seen[t] \in Final /\ obexd[t] = seen[t] /\ S = {Event(seen[t])}
        BY <2>1, <2>2, <3>1 DEF OutcomeOK
      <4> QED  BY <4>1 DEF Final, Event, Live
    <3>2. CASE phase[t] \in {"ended", "dropped"}
      BY <2>1, <2>2, <3>2 DEF OutcomeOK
    <3>3. CASE phase[t] \notin {"ended", "dropped"} /\ ~(phase[t] = "cleanup" /\ t \notin failed)
      BY <2>1, <2>2, <3>3 DEF OutcomeOK
    <3> QED  BY <3>1, <3>2, <3>3
  <2>4. \A e \in Terminal : e \in Told(t) <=> e \in S
    BY <2>2 DEF Outcome
  <2>5. Cardinality(S) <= 1
    <3>1. S = {} \/ \E e : S = {e}
      BY <2>3
    <3> QED  BY <3>1, FS_EmptySet, FS_Singleton
  <2>6. "completed" \in Terminal /\ "cancelled" \in Terminal
    BY DEF Terminal
  <2>7. ("completed" \in S => obexd[t] = "complete") /\ ("cancelled" \in S => obexd[t] \notin Live \cup {"complete"})
    BY <2>3
  <2> QED  BY <2>2, <2>4, <2>5, <2>6, <2>7 DEF Outcome
<1> QED  BY <1>1, ObexInvariant, PTL

(***************************************************************************)
(* For any number of incoming transfers, ReservationMatchesConsent always  *)
(* holds: a destination is reserved exactly while its prompt is shown, or  *)
(* because the user has accepted the file and the call was not dropped     *)
(* before start_incoming, whoever ends the prompt (authorize and the two   *)
(* Drop implementations of obex/authorization.rs).                         *)
(***************************************************************************)
THEOREM ReservationsMatchConsent == ObexSpec => []ReservationMatchesConsent
<1>1. ObexIInv => ReservationMatchesConsent
  BY DEF ObexIInv, PromptsOK
<1> QED  BY <1>1, ObexInvariant, PTL
=============================================================================
