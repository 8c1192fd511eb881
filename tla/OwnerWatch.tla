----------------------------- MODULE OwnerWatch -----------------------------
(***************************************************************************)
(* Cancelling the requests of a D-Bus caller that disappears               *)
(* (watch_request_owner in src/src/daemon.rs).                             *)
(*                                                                         *)
(* One owner is modelled: owners are bus names that are never reused, and  *)
(* everything below is keyed by the owner.  Its calls run concurrently,    *)
(* each admits one operation or scan and then makes sure that the owner is *)
(* watched.  The watch task and a late call both run the same cleanup:     *)
(* cancel_owner on operations, then stop_owner on scans.  Each captures    *)
(* the ids first and then goes through them one by one, so calls that are  *)
(* admitted meanwhile are not in its list.                                 *)
(***************************************************************************)
EXTENDS Naturals, FiniteSets

CONSTANTS
  Operations,  \* calls of bluetooth.device.operation
  Scans,       \* calls of bluetooth.scan
  Watcher,     \* the request-owner-watch task
  Faults       \* "monitor": owner monitoring fails; "stop": a scan stop fails

Calls == Operations \cup Scans
Actors == Calls \cup {Watcher}

ASSUME FaultsAssumption == Faults \subseteq {"monitor", "stop"}

ASSUME WatcherAssumption == Watcher \notin Calls

VARIABLES
  alive,     \* the owner is connected to the bus
  watching,  \* the owner is in scan_owner_watches
  stage,     \* stage[x]: where actor x is
  todo,      \* todo[x]: ids captured by x and not yet dealt with
  waits,     \* waits[x]: x awaits the reaper of an operation it cancelled
  status     \* status[c]: the request admitted by call c

vars == <<alive, watching, stage, todo, waits, status>>

(***************************************************************************)
(* Before the cleanup a call is "unsent", "admitted", "asking" (for the    *)
(* owner) and the watcher is "unsent" (not spawned) or "waiting".          *)
(***************************************************************************)
Stage == {"unsent", "admitted", "asking", "waiting", "operations", "cancelling",
          "stopping", "returned"}

(* An "unstopped" scan is one that a cleanup failed to stop: it keeps its  *)
(* lease, and its timer is left to end it.                                 *)
Status == {"none", "active", "cancelling", "unstopped", "gone"}

Leased(c) == status[c] \in {"active", "unstopped"}

Init ==
  /\ alive = TRUE
  /\ watching = FALSE
  /\ stage = [x \in Actors |-> "unsent"]
  /\ todo = [x \in Actors |-> {}]
  /\ waits = [x \in Actors |-> {}]
  /\ status = [c \in Calls |-> "none"]

-----------------------------------------------------------------------------
(* start_owned or ScanCoordinator::start succeeds, maybe for a dead caller.*)
Admit(c) ==
  /\ stage[c] = "unsent"
  /\ stage' = [stage EXCEPT ![c] = "admitted"]
  /\ status' = [status EXCEPT ![c] = "active"]
  /\ UNCHANGED <<alive, watching, todo, waits>>

(* Mutant: a call that finds the owner watched has nothing more to do.     *)
RegisterTrustsWatch(c) ==
  /\ stage[c] = "admitted"
  /\ stage' = [stage EXCEPT ![c] = "returned",
                            ![Watcher] = IF watching THEN @ ELSE "waiting"]
  /\ watching' = TRUE
  /\ UNCHANGED <<alive, todo, waits, status>>

(* watch_request_owner: insert into the watches and spawn, or reconcile.   *)
Register(c) ==
  /\ stage[c] = "admitted"
  /\ watching' = TRUE
  /\ stage' = IF watching
                THEN [stage EXCEPT ![c] = "asking"]
                ELSE [stage EXCEPT ![c] = "returned", ![Watcher] = "waiting"]
  /\ UNCHANGED <<alive, todo, waits, status>>

(* Mutant: the answer of has_owner is negated.                             *)
AskOwnerNegated(c) ==
  /\ stage[c] = "asking"
  /\ stage' = [stage EXCEPT ![c] = IF alive THEN "operations" ELSE "returned"]
  /\ UNCHANGED <<alive, watching, todo, waits, status>>

(* has_owner: an error counts as "no owner" (failing closed).              *)
AskOwner(c) ==
  /\ stage[c] = "asking"
  /\ \E answer \in BOOLEAN :
       /\ answer # alive => alive /\ "monitor" \in Faults
       /\ stage' = [stage EXCEPT ![c] = IF answer THEN "returned" ELSE "operations"]
  /\ UNCHANGED <<alive, watching, todo, waits, status>>

(* monitor.wait returns: the owner is gone, or monitoring failed.          *)
WatchEnds ==
  /\ stage[Watcher] = "waiting"
  /\ ~alive \/ "monitor" \in Faults
  /\ stage' = [stage EXCEPT ![Watcher] = "operations"]
  /\ UNCHANGED <<alive, watching, todo, waits, status>>

-----------------------------------------------------------------------------
(* cancel_owner: the ids of the owner's active operations.                 *)
CaptureOperations(x) ==
  /\ stage[x] = "operations"
  /\ stage' = [stage EXCEPT ![x] = "cancelling"]
  /\ todo' = [todo EXCEPT ![x] =
                {c \in Operations : status[c] \in {"active", "cancelling"}}]
  /\ UNCHANGED <<alive, watching, waits, status>>

(* cancel_owned: the first canceller awaits the reaper, others return.     *)
CancelOperation(x, c) ==
  /\ stage[x] = "cancelling"
  /\ waits[x] = {}
  /\ c \in todo[x]
  /\ IF status[c] = "active"
       THEN /\ status' = [status EXCEPT ![c] = "cancelling"]
            /\ waits' = [waits EXCEPT ![x] = {c}]
            /\ UNCHANGED todo
       ELSE /\ todo' = [todo EXCEPT ![x] = @ \ {c}]
            /\ UNCHANGED <<status, waits>>
  /\ UNCHANGED <<alive, watching, stage>>

Cancelled(x, c) ==
  /\ waits[x] = {c}
  /\ status[c] = "gone"
  /\ waits' = [waits EXCEPT ![x] = {}]
  /\ todo' = [todo EXCEPT ![x] = @ \ {c}]
  /\ UNCHANGED <<alive, watching, stage, status>>

(* stop_owner: the ids of the owner's scans.                               *)
CaptureScans(x) ==
  /\ stage[x] = "cancelling"
  /\ todo[x] = {}
  /\ stage' = [stage EXCEPT ![x] = "stopping"]
  /\ todo' = [todo EXCEPT ![x] = {c \in Scans : Leased(c)}]
  /\ UNCHANGED <<alive, watching, waits, status>>

(* stop: a scan that is gone is not found; a failure is only logged.       *)
StopScan(x, c) ==
  /\ stage[x] = "stopping"
  /\ c \in todo[x]
  /\ todo' = [todo EXCEPT ![x] = @ \ {c}]
  /\ \E failed \in BOOLEAN :
       /\ failed => "stop" \in Faults
       /\ status' = [status EXCEPT ![c] = IF failed /\ Leased(c) THEN "unstopped" ELSE "gone"]
  /\ UNCHANGED <<alive, watching, stage, waits>>

(* The call returns; the watch task removes its entry and ends.            *)
CleanupDone(x) ==
  /\ stage[x] = "stopping"
  /\ todo[x] = {}
  /\ stage' = [stage EXCEPT ![x] = IF x = Watcher THEN "unsent" ELSE "returned"]
  /\ watching' = IF x = Watcher THEN FALSE ELSE watching
  /\ UNCHANGED <<alive, todo, waits, status>>

-----------------------------------------------------------------------------
(* A request ends by itself, or an aborted operation's reaper claims it.   *)
Ends(c) ==
  /\ status[c] \in {"active", "cancelling", "unstopped"}
  /\ status' = [status EXCEPT ![c] = "gone"]
  /\ UNCHANGED <<alive, watching, stage, todo, waits>>

OwnerLeaves ==
  /\ alive
  /\ alive' = FALSE
  /\ UNCHANGED <<watching, stage, todo, waits, status>>

CallStep(c) == Register(c) \/ AskOwner(c)

Cleanup(x) ==
  \/ CaptureOperations(x)
  \/ \E c \in Operations : CancelOperation(x, c)
  \/ \E c \in Operations : Cancelled(x, c)
  \/ CaptureScans(x)
  \/ \E c \in Scans : StopScan(x, c)
  \/ CleanupDone(x)

Next ==
  \/ \E c \in Calls : Admit(c)
  \/ \E c \in Calls : CallStep(c)
  \/ WatchEnds
  \/ \E x \in Actors : Cleanup(x)
  \/ \E c \in Calls : Ends(c)
  \/ OwnerLeaves

(***************************************************************************)
(* Tasks that can run are polled; the reaper of a cancelled operation does *)
(* its work (CancellationTerminates in Operations).  Requests need not end *)
(* by themselves, and the owner need not leave.                            *)
(***************************************************************************)
Fairness ==
  /\ \A c \in Calls : WF_vars(CallStep(c))
  /\ WF_vars(~alive /\ WatchEnds)
  /\ \A x \in Actors : WF_vars(Cleanup(x))
  /\ \A c \in Operations : WF_vars(status[c] = "cancelling" /\ Ends(c))

Spec == Init /\ [][Next]_vars

FairSpec == Spec /\ Fairness

-----------------------------------------------------------------------------
(***************************************************************************)
(* When the owner is gone and everything has settled, none of its requests *)
(* was overlooked: neither one admitted while the watch task was already   *)
(* cleaning up, nor one of a call processed after the owner had left.      *)
(***************************************************************************)
Settled == \A x \in Actors : stage[x] \in {"unsent", "returned"}

NoForgottenRequest ==
  ~alive /\ Settled => \A c \in Calls : status[c] \notin {"active", "cancelling"}

(***************************************************************************)
(* Owner loss uses cancellation: an operation of a lost owner ends, even   *)
(* if it would never end by itself; and reconciling late registrations     *)
(* never cancels the work of an owner that is still there.                 *)
(***************************************************************************)
OwnerLossCancels ==
  /\ \A c \in Operations : (~alive /\ status[c] = "active") ~> status[c] = "gone"
  /\ [][\A c \in Operations :
           status[c] = "active" /\ status'[c] = "cancelling" => ~alive]_vars
=============================================================================
