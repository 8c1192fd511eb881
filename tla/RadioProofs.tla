---------------------------- MODULE RadioProofs -----------------------------
(***************************************************************************)
(* Theorems about what is done with the radios: scans (Scans) and the      *)
(* operations on one device (DeviceOperations).                            *)
(***************************************************************************)
EXTENDS Scans, DeviceOperations, TLAPS

-----------------------------------------------------------------------------
(***************************************************************************)
(* Scans.  For any number of scans, callers and adapters, whatever fails,  *)
(* comes and goes: leases and events account for each other, discovery is  *)
(* leased, and a scan that ends leaves alone what others lease.            *)
(***************************************************************************)

(* Only an adapter that is on discovers: BlueZ forgets the rest.           *)
LiveIsOn == \A a \in Adapters : Discovering(a) => radio[a] = "on"

(* The mutex is free exactly when `call' says nothing.                     *)
IdleCall == call.kind = "idle" => call = Idle

(* A start, or its rollback, visits and opens what was asked for only, and *)
(* selects no scan.                                                        *)
StartCallOK ==
  call.kind \in {"start", "rollback"} =>
    /\ call.ids = {}
    /\ \A a \in call.todo \cup call.started : call.request \in {Global, a}
    /\ call.started # {} => call.eligible = "yes"

(* A start is rolled back only after nothing it asked for discovers.       *)
RollbackOK ==
  call.kind = "rollback" =>
    \A a \in Adapters : call.request \in {Global, a} => ~Discovering(a)

(* A stop selects scans that hold their leases, has to visit only adapters *)
(* nobody else leases and, unless it failed, has stopped those behind it.  *)
StopCallOK ==
  call.kind \in {"stop", "expire"} =>
    /\ call.ids \subseteq leases
    /\ call.started = {}
    /\ \A a \in call.todo : \A s \in leases \ call.ids : a \notin keys[s]
    /\ call.result = "ok" =>
         \A a \in AdaptersToStop(call.ids) : a \notin call.todo => ~Discovering(a)

(* Discovery is leased, or about to be by the start that opened it, unless *)
(* a start without a snapshot left it behind.                              *)
LeasedOrStarting ==
  \A a \in Adapters :
    session[a] = "live" => a \in call.started \/ \E s \in leases : a \in keys[s]

(* What a client has been told of a scan, by how far its timer has got: a  *)
(* scan whose cleanup is being retried has been reported as failed.        *)
EventsOf(s) ==
  \/ s \in leases /\ timer[s] = "sleeping" /\ Told(s) = {"started"}
  \/ s \in leases /\ timer[s] = "retrying" /\ Told(s) = {"started", "failed"}
  \/ s \notin leases /\ timer[s] = "none" /\ sent[s] = <<>>
  \/ s \notin leases /\ timer[s] = "done" /\ Told(s) \cap Terminal # {}

EventsOK == \A s \in Scans : EventsOf(s)

SafeCall ==
  /\ LiveIsOn
  /\ IdleCall
  /\ StartCallOK
  /\ RollbackOK
  /\ StopCallOK
  /\ LeasedOrStarting

(* The inductive invariant.  LeaseAccounted alone says nothing about a     *)
(* call that is under way, which is where leases and sessions change, nor  *)
(* about what a retrying timer has already told.                           *)
IInv == TypeOK /\ SafeCall /\ EventsOK

-----------------------------------------------------------------------------
(* What discovers is always spelled out in the proofs about scans.         *)
USE DEF Discovering

(* Sending adds what is sent to what a client has been told.               *)
LEMMA ToldGrows ==
  ASSUME NEW S, NEW q \in Seq(S), NEW e \in S
  PROVE  /\ Append(q, e) \in Seq(S)
         /\ {Append(q, e)[i] : i \in 1..Len(Append(q, e))}
              = {q[i] : i \in 1..Len(q)} \cup {e}
<1>1. /\ Append(q, e) \in Seq(S) /\ Len(q) \in Nat
      /\ Len(Append(q, e)) = Len(q) + 1
      /\ Append(q, e)[Len(q) + 1] = e
      /\ \A i \in 1..Len(q) : Append(q, e)[i] = q[i]
  OBVIOUS
<1>2. 1..(Len(q) + 1) = 1..Len(q) \cup {Len(q) + 1}
  BY <1>1
<1> QED  BY <1>1, <1>2

(* What a free mutex says, without the caller it names.                    *)
LEMMA IdleIsCall ==
  /\ Idle \in Call
  /\ Idle.kind = "idle" /\ Idle.ids = {} /\ Idle.todo = {} /\ Idle.started = {}
  /\ Idle.result = "ok"
<1>1. (CHOOSE o \in Owners : TRUE) \in Owners
  BY OwnersAssumption
<1> QED  BY <1>1 DEF Idle, Call

(* What the updates of `call' leave in its fields.                         *)
LEMMA StartFields ==
  ASSUME NEW o \in Owners, NEW asked \in Adapters \cup {Global}, StartCall(o, asked)
  PROVE  /\ call' \in Call /\ call'.kind = "start" /\ call'.request = asked
         /\ call'.todo = Found(asked) /\ call'.started = {} /\ call'.ids = {}
<1>1. Found(asked) \in SUBSET Adapters
  BY DEF Found
<1>2. call' = [Idle EXCEPT !.kind = "start", !.request = asked, !.owner = o,
                           !.todo = Found(asked)]
  BY DEF StartCall
<1> QED  BY <1>1, <1>2, IdleIsCall DEF Call

LEMMA StopFields ==
  ASSUME NEW kind \in {"stop", "expire"}, NEW ids \in SUBSET leases, leases \in SUBSET Scans,
         keys \in [Scans -> SUBSET Adapters], BeginStop(kind, ids)
  PROVE  /\ call' \in Call /\ call'.kind = kind /\ call'.ids = ids
         /\ call'.todo = AdaptersToStop(ids) /\ call'.started = {}
<1>1. AdaptersToStop(ids) \in SUBSET Adapters
  BY Zenon DEF AdaptersToStop
<1>2. PICK result \in {"ok", "err"} :
        call' = [Idle EXCEPT !.kind = kind, !.ids = ids, !.todo = AdaptersToStop(ids),
                             !.result = result]
  BY DEF BeginStop
<1> QED  BY <1>1, <1>2, IdleIsCall DEF Call

LEMMA VisitFields ==
  ASSUME call \in Call, NEW a \in Adapters, Discover(a)
  PROVE  /\ call' \in Call /\ call'.kind = call.kind /\ call'.request = call.request
         /\ call'.todo = call.todo \ {a} /\ call'.ids = call.ids
         /\ \/ session' = session /\ call'.started = call.started
               /\ call'.eligible \in {call.eligible, "yes"}
            \/ /\ session' = [session EXCEPT ![a] = "live"] /\ radio[a] = "on"
               /\ call'.started = call.started \cup {a} /\ call'.eligible = "yes"
<1>1. CASE call' = [call EXCEPT !.todo = @ \ {a}] /\ UNCHANGED session
  BY <1>1 DEF Call
<1>2. CASE call' = [call EXCEPT !.todo = @ \ {a}, !.eligible = "yes"] /\ UNCHANGED session
  BY <1>2 DEF Call
<1>3. CASE /\ call' = [call EXCEPT !.todo = @ \ {a}, !.eligible = "yes", !.started = @ \cup {a}]
           /\ session' = [session EXCEPT ![a] = "live"] /\ radio[a] = "on"
  BY <1>3 DEF Call
<1> QED  BY <1>1, <1>2, <1>3 DEF Discover

LEMMA RollbackFields ==
  ASSUME call \in Call, call' = [call EXCEPT !.kind = "rollback"]
  PROVE  /\ call' \in Call /\ call'.kind = "rollback" /\ call'.request = call.request
         /\ call'.todo = call.todo /\ call'.started = call.started /\ call'.ids = call.ids
         /\ call'.eligible = call.eligible
BY DEF Call

LEMMA StopStepFields ==
  ASSUME call \in Call, NEW a \in Adapters, StopAdapter(a)
  PROVE  /\ call' \in Call /\ call'.kind = call.kind
         /\ call'.todo = call.todo \ {a} /\ call'.ids = call.ids
         /\ call'.started = call.started
         /\ \/ session' = [session EXCEPT ![a] = "none"] /\ call'.result \in {call.result, "err"}
            \/ session' = session /\ call'.result = "err"
<1>1. PICK result \in {call.result, "err"} :
        /\ call' = [call EXCEPT !.todo = @ \ {a}, !.result = result]
        /\ \/ session' = [session EXCEPT ![a] = "none"]
           \/ session' = session /\ result = "err"
  BY DEF StopAdapter
<1> QED  BY <1>1 DEF Call

(* Every action leaves the variables in their types.                       *)
LEMMA TypeStep == TypeOK /\ [Next]_vars => TypeOK'
<1> SUFFICES ASSUME TypeOK, [Next]_vars PROVE TypeOK'
  OBVIOUS
<1> USE DEF TypeOK
<1>1. ASSUME NEW s \in Scans, NEW e \in Terminal \cup {"started"}, Send(s, e)
      PROVE  sent' \in [Scans -> Seq(Terminal \cup {"started"})]
  BY <1>1, ToldGrows DEF Send
<1>2. CASE UNCHANGED vars
  BY <1>2 DEF vars
<1>3. ASSUME NEW o \in Owners, NEW asked \in Adapters \cup {Global}, StartCall(o, asked)
      PROVE  TypeOK'
  <2>1. call' \in Call
    BY <1>3, StartFields
  <2> QED  BY <1>3, <2>1 DEF StartCall, scanVars
<1>4. ASSUME NEW ids \in SUBSET leases, StopCall(ids) PROVE TypeOK'
  <2>1. call' \in Call
    BY <1>4, StopFields DEF StopCall
  <2> QED  BY <1>4, <2>1 DEF StopCall, scanVars
<1>5. ASSUME NEW s \in Scans, TimerFires(s) PROVE TypeOK'
  <2>1. call' \in Call
    BY <1>5, StopFields DEF TimerFires
  <2> QED  BY <1>5, <2>1 DEF TimerFires, scanVars
<1>6. CASE Holder
  <2>1. ASSUME NEW a \in Adapters, DiscoverFails(a) PROVE TypeOK'
    BY <2>1, IdleIsCall DEF DiscoverFails, scanVars, SessionState
  <2>2. ASSUME NEW a \in Adapters, Discover(a) PROVE TypeOK'
    <3>1. call' \in Call /\ session' \in [Adapters -> SessionState]
      BY <2>2, VisitFields DEF SessionState
    <3> QED  BY <2>2, <3>1 DEF Discover, scanVars
  <2>3. CASE StartFails
    BY <2>3, IdleIsCall DEF StartFails, scanVars
  <2>9. CASE SnapshotFails
    BY <2>9, IdleIsCall DEF SnapshotFails, scanVars, SessionState
  <2>4. ASSUME NEW s \in Scans, StartConfirmed(s) PROVE TypeOK'
    <3>1. PoweredAdapterKeys(call.request) \in SUBSET Adapters
      BY DEF PoweredAdapterKeys
    <3>2. CASE PoweredAdapterKeys(call.request) = {}
      BY <2>4, <3>2, RollbackFields DEF StartConfirmed, scanVars
    <3>3. CASE PoweredAdapterKeys(call.request) # {}
      <4>1. Send(s, "started") /\ call' = Idle /\ UNCHANGED <<radio, session, stopping>>
        BY <2>4, <3>3 DEF StartConfirmed
      <4>2. sent' \in [Scans -> Seq(Terminal \cup {"started"})]
        BY <1>1, <4>1
      <4>3. call' \in Call /\ call.owner \in Owners
        BY <4>1, IdleIsCall DEF Call
      <4>4. leases' \in SUBSET Scans /\ keys' \in [Scans -> SUBSET Adapters]
        BY <2>4, <3>1, <3>3 DEF StartConfirmed
      <4>5. owner' \in [Scans -> Owners] /\ timer' \in [Scans -> TimerState]
        BY <2>4, <3>3, <4>3 DEF StartConfirmed, TimerState
      <4> QED  BY <4>1, <4>2, <4>3, <4>4, <4>5
    <3> QED  BY <3>2, <3>3
  <2>5. CASE RollbackStart
    <3>1. session' \in [Adapters -> SessionState]
      BY <2>5 DEF RollbackStart, SessionState
    <3> QED  BY <2>5, <3>1, IdleIsCall DEF RollbackStart, scanVars
  <2>6. ASSUME NEW a \in Adapters, StopAdapter(a) PROVE TypeOK'
    <3>1. call' \in Call /\ session' \in [Adapters -> SessionState]
      BY <2>6, StopStepFields DEF SessionState
    <3> QED  BY <2>6, <3>1 DEF StopAdapter, scanVars
  <2>7. CASE StopDone
    <3>a. \A s \in Scans : Append(sent[s], "cancelled") \in Seq(Terminal \cup {"started"})
      BY ToldGrows DEF Terminal
    <3>1. sent' \in [Scans -> Seq(Terminal \cup {"started"})]
      BY <2>7, <3>a DEF StopDone
    <3>2. leases' \in SUBSET Scans /\ timer' \in [Scans -> TimerState]
      BY <2>7 DEF StopDone, TimerState
    <3>3. keys' \in [Scans -> SUBSET Adapters]
      BY <2>7 DEF StopDone
    <3> QED  BY <2>7, <3>1, <3>2, <3>3, IdleIsCall DEF StopDone
  <2>8. ASSUME NEW s \in Scans, ExpireDone(s) PROVE TypeOK'
    <3>1. sent' \in [Scans -> Seq(Terminal \cup {"started"})]
      BY <2>8, <1>1 DEF ExpireDone, Terminal
    <3>2. leases' \in SUBSET Scans /\ timer' \in [Scans -> TimerState]
      BY <2>8 DEF ExpireDone, TimerState
    <3>3. keys' \in [Scans -> SUBSET Adapters]
      BY <2>8 DEF ExpireDone
    <3> QED  BY <2>8, <3>1, <3>2, <3>3, IdleIsCall DEF ExpireDone
  <2> QED  BY <1>6, <2>1, <2>2, <2>3, <2>4, <2>5, <2>6, <2>7, <2>8, <2>9 DEF Holder
<1>7. CASE Environment
  BY <1>7 DEF Environment, PowerOff, PowerOffStops, PowerLost, PowerOn, Unplug, Plug,
              LosePower, scanVars, SessionState, Unfinished
<1> QED  BY <1>2, <1>3, <1>4, <1>5, <1>6, <1>7 DEF Next

-----------------------------------------------------------------------------
(* The environment stops discovery and never starts it.                    *)
LEMMA EnvironmentOnlyStops ==
  ASSUME TypeOK, LiveIsOn, Environment
  PROVE  /\ UNCHANGED <<scanVars, call>>
         /\ \A a \in Adapters : Discovering(a)' => session'[a] = session[a] /\ radio'[a] = "on"
<1>1. UNCHANGED <<scanVars, call>>
  BY DEF Environment, PowerOff, PowerOffStops, PowerLost, PowerOn, Unplug, Plug
<1>2. ASSUME NEW a \in Adapters,
             \/ LosePower(a)
             \/ PowerOffStops(a) \/ PowerOn(a) \/ Unplug(a) \/ Plug(a)
      PROVE  \A b \in Adapters :
               Discovering(b)' => session'[b] = session[b] /\ radio'[b] = "on"
  <2>1. CASE LosePower(a)
    BY <2>1 DEF LosePower, Unfinished, TypeOK, LiveIsOn, SessionState
  <2>2. CASE PowerOffStops(a)
    BY <2>2 DEF PowerOffStops, TypeOK, LiveIsOn
  <2>3. CASE PowerOn(a)
    BY <2>3 DEF PowerOn, TypeOK, LiveIsOn
  <2>4. CASE Unplug(a)
    BY <2>4 DEF Unplug, Unfinished, TypeOK, LiveIsOn
  <2>5. CASE Plug(a)
    BY <2>5 DEF Plug, TypeOK, LiveIsOn
  <2> QED  BY <1>2, <2>1, <2>2, <2>3, <2>4, <2>5
<1> QED  BY <1>1, <1>2 DEF Environment, PowerOff, PowerLost

(* What the calls that hold the mutex keep of the invariant, one lemma for *)
(* each of them.                                                           *)
LEMMA StartCallSafe ==
  ASSUME TypeOK, SafeCall, NEW o \in Owners, NEW asked \in Adapters \cup {Global},
         StartCall(o, asked)
  PROVE  SafeCall'
<1>1. /\ call'.kind = "start" /\ call'.request = asked
      /\ call'.todo = Found(asked) /\ call'.started = {} /\ call'.ids = {}
  BY StartFields
<1>2. call = Idle /\ UNCHANGED <<scanVars, radio, session, stopping>>
  BY DEF StartCall
<1>3. \A a \in Found(asked) : asked \in {Global, a}
  BY DEF Found
<1>4. LiveIsOn' /\ IdleCall' /\ StartCallOK' /\ RollbackOK' /\ StopCallOK'
  BY <1>1, <1>2, <1>3 DEF SafeCall, LiveIsOn, IdleCall, StartCallOK, RollbackOK, StopCallOK
<1>5. LeasedOrStarting'
  BY <1>1, <1>2, IdleIsCall DEF SafeCall, LeasedOrStarting, scanVars
<1> QED  BY <1>4, <1>5 DEF SafeCall

(* The adapters of the selected scans that no other scan leases.           *)
LEMMA ToStop ==
  ASSUME NEW ids, NEW a
  PROVE  a \in AdaptersToStop(ids) <=> /\ \E s \in ids : a \in keys[s]
                                       /\ \A s \in leases \ ids : a \notin keys[s]
<1> DEFINE mine == UNION {keys[s] : s \in ids}
           others == UNION {keys[s] : s \in leases \ ids}
<1>1. a \in mine <=> \E s \in ids : a \in keys[s]
  BY Zenon
<1>2. a \in others <=> \E s \in leases \ ids : a \in keys[s]
  BY Zenon
<1>3. AdaptersToStop(ids) = mine \ others
  BY Zenon DEF AdaptersToStop
<1> HIDE DEF mine, others
<1> QED  BY <1>1, <1>2, <1>3

(* A stop begins with everything still to be visited.                      *)
LEMMA BeginStopSafe ==
  ASSUME TypeOK, SafeCall, NEW kind \in {"stop", "expire"}, NEW ids \in SUBSET leases,
         call = Idle, BeginStop(kind, ids), UNCHANGED <<scanVars, radio, session, stopping>>
  PROVE  SafeCall'
<1>1. /\ call'.kind = kind /\ call'.ids = ids
      /\ call'.todo = AdaptersToStop(ids) /\ call'.started = {}
  BY StopFields DEF TypeOK
<1>3. \A a \in AdaptersToStop(ids) : \A s \in leases \ ids : a \notin keys[s]
  BY ToStop
<1>4. LiveIsOn' /\ IdleCall' /\ StartCallOK' /\ RollbackOK'
  BY <1>1 DEF SafeCall, LiveIsOn, IdleCall, StartCallOK, RollbackOK
<1>5. AdaptersToStop(call.ids)' = AdaptersToStop(ids)
  BY <1>1 DEF AdaptersToStop, scanVars
<1>6. StopCallOK'
  BY <1>1, <1>3, <1>5 DEF StopCallOK, scanVars
<1>7. LeasedOrStarting'
  BY <1>1, IdleIsCall DEF SafeCall, LeasedOrStarting, scanVars
<1> QED  BY <1>4, <1>6, <1>7 DEF SafeCall

LEMMA DiscoverSafe ==
  ASSUME TypeOK, SafeCall, NEW a \in Adapters, Discover(a)
  PROVE  SafeCall'
<1>1. /\ call.kind = "start" /\ a \in call.todo
      /\ UNCHANGED <<scanVars, radio, stopping>>
  BY DEF Discover
<1>2. /\ call'.kind = call.kind /\ call'.request = call.request
      /\ call'.todo = call.todo \ {a} /\ call'.ids = call.ids
      /\ \/ session' = session /\ call'.started = call.started
            /\ call'.eligible \in {call.eligible, "yes"}
         \/ /\ session' = [session EXCEPT ![a] = "live"] /\ radio[a] = "on"
            /\ call'.started = call.started \cup {a} /\ call'.eligible = "yes"
  BY VisitFields DEF TypeOK
<1>3. LiveIsOn'
  BY <1>1, <1>2 DEF SafeCall, LiveIsOn, TypeOK
<1>4. IdleCall' /\ StartCallOK' /\ RollbackOK' /\ StopCallOK'
  BY <1>1, <1>2 DEF SafeCall, IdleCall, StartCallOK, RollbackOK, StopCallOK
<1>5. LeasedOrStarting'
  BY <1>1, <1>2 DEF SafeCall, LeasedOrStarting, TypeOK, scanVars
<1> QED  BY <1>3, <1>4, <1>5 DEF SafeCall

(* A start that fails has opened nothing, closes or leaves what it opened. *)
LEMMA FailedStartSafe ==
  ASSUME TypeOK, SafeCall,
         (\E a \in Adapters : DiscoverFails(a)) \/ StartFails \/ SnapshotFails
  PROVE  SafeCall'
<1>1. call' = Idle /\ call.kind = "start" /\ UNCHANGED <<scanVars, radio, stopping>>
  BY DEF DiscoverFails, StartFails, SnapshotFails
<1>2. \A b \in Adapters : /\ session'[b] = "live" => session[b] = "live"
                          /\ Discovering(b)' => Discovering(b)
  BY DEF DiscoverFails, StartFails, SnapshotFails, TypeOK
<1>3. \/ \A b \in Adapters : session'[b] = "live" => b \notin call.started
      \/ call.eligible = "no"
  BY DEF DiscoverFails, StartFails, SnapshotFails, TypeOK
<1>4. LiveIsOn'
  BY <1>1, <1>2 DEF SafeCall, LiveIsOn
<1>5. IdleCall' /\ StartCallOK' /\ RollbackOK' /\ StopCallOK'
  BY <1>1, IdleIsCall DEF IdleCall, StartCallOK, RollbackOK, StopCallOK
<1>6. LeasedOrStarting'
  <2>1. SUFFICES ASSUME NEW a \in Adapters, session'[a] = "live"
                 PROVE  \E s \in leases : a \in keys[s]
    BY <1>1 DEF LeasedOrStarting, scanVars
  <2>2. a \notin call.started
    BY <1>1, <1>3, <2>1 DEF SafeCall, StartCallOK
  <2> QED  BY <1>2, <2>1, <2>2 DEF SafeCall, LeasedOrStarting
<1> QED  BY <1>4, <1>5, <1>6 DEF SafeCall

(* The scan that is confirmed leases everything its start opened.          *)
LEMMA StartConfirmedSafe ==
  ASSUME TypeOK, SafeCall, leases \subseteq Issued, NEW s \in Scans, StartConfirmed(s)
  PROVE  SafeCall'
<1>1. call.kind = "start" /\ s \notin Issued /\ UNCHANGED <<radio, session, stopping>>
  BY DEF StartConfirmed
<1>2. LiveIsOn'
  BY <1>1 DEF SafeCall, LiveIsOn
<1>3. CASE PoweredAdapterKeys(call.request) = {}
  <2>1. call' = [call EXCEPT !.kind = "rollback"] /\ UNCHANGED scanVars
    BY <1>3 DEF StartConfirmed
  <2>2. /\ call'.kind = "rollback" /\ call'.request = call.request
        /\ call'.todo = call.todo /\ call'.started = call.started /\ call'.ids = call.ids
        /\ call'.eligible = call.eligible
    BY <2>1, RollbackFields DEF TypeOK
  <2>3. \A a \in Adapters : call.request \in {Global, a} => ~Discovering(a)
    BY <1>3 DEF PoweredAdapterKeys, SafeCall, LiveIsOn
  <2>4. IdleCall' /\ StartCallOK' /\ RollbackOK' /\ StopCallOK'
    BY <1>1, <2>2, <2>3 DEF SafeCall, IdleCall, StartCallOK, RollbackOK, StopCallOK
  <2>5. LeasedOrStarting'
    BY <1>1, <2>1, <2>2 DEF SafeCall, LeasedOrStarting, scanVars
  <2> QED  BY <1>2, <2>4, <2>5 DEF SafeCall
<1>4. CASE PoweredAdapterKeys(call.request) # {}
  <2>1. /\ call' = Idle /\ leases' = leases \cup {s}
        /\ keys' = [keys EXCEPT ![s] = PoweredAdapterKeys(call.request)]
    BY <1>4 DEF StartConfirmed
  <2>2. IdleCall' /\ StartCallOK' /\ RollbackOK' /\ StopCallOK'
    BY <2>1, IdleIsCall DEF IdleCall, StartCallOK, RollbackOK, StopCallOK
  <2>3. ASSUME NEW a \in Adapters, session[a] = "live"
        PROVE  \E t \in leases' : a \in keys'[t]
    <3>1. CASE a \in call.started
      <4>1. a \in PoweredAdapterKeys(call.request)
        BY <1>1, <2>3, <3>1 DEF SafeCall, StartCallOK, LiveIsOn, PoweredAdapterKeys
      <4> QED  BY <2>1, <4>1 DEF TypeOK
    <3>2. CASE \E t \in leases : a \in keys[t]
      <4>1. PICK t \in leases : a \in keys[t]
        BY <3>2
      <4>2. t # s /\ t \in Scans
        BY <1>1 DEF TypeOK
      <4> QED  BY <2>1, <4>1, <4>2 DEF TypeOK
    <3> QED  BY <2>3, <3>1, <3>2 DEF SafeCall, LeasedOrStarting
  <2>4. LeasedOrStarting'
    BY <1>1, <2>3 DEF LeasedOrStarting
  <2> QED  BY <1>2, <2>2, <2>4 DEF SafeCall
<1> QED  BY <1>3, <1>4

(* A rollback closes nothing that discovers.                               *)
LEMMA RollbackIsIdle ==
  ASSUME TypeOK, SafeCall, RollbackStart
  PROVE  \A a \in Adapters : \/ session'[a] = session[a]
                             \/ ~Discovering(a) /\ ~Discovering(a)'
<1>1. \/ /\ call.request = Global
         /\ session' = [a \in Adapters |-> "none"]
      \/ /\ call.request # Global
         /\ \/ session' = [session EXCEPT ![call.request] = "none"]
            \/ session' = session
  BY DEF RollbackStart
<1>2. call.kind = "rollback"
  BY DEF RollbackStart
<1>3. \A a \in Adapters : call.request \in {Global, a} => ~Discovering(a)
  BY <1>2 DEF SafeCall, RollbackOK
<1>4. call.request \in Adapters \cup {Global} /\ session \in [Adapters -> SessionState]
  BY DEF TypeOK, Call
<1> QED  BY <1>1, <1>3, <1>4

LEMMA RollbackSafe ==
  ASSUME TypeOK, SafeCall, RollbackStart
  PROVE  SafeCall'
<1>1. call' = Idle /\ call.kind = "rollback" /\ UNCHANGED <<scanVars, radio, stopping>>
  BY DEF RollbackStart
<1>2. \A a \in Adapters : \/ session'[a] = session[a]
                          \/ ~Discovering(a) /\ ~Discovering(a)'
  BY RollbackIsIdle
<1>3. LiveIsOn' /\ IdleCall' /\ StartCallOK' /\ RollbackOK' /\ StopCallOK'
  BY <1>1, <1>2, IdleIsCall
     DEF SafeCall, LiveIsOn, IdleCall, StartCallOK, RollbackOK, StopCallOK
<1>4. \A a \in Adapters : Discovering(a) => a \notin call.started
  BY <1>1 DEF SafeCall, StartCallOK, RollbackOK
<1>5. LeasedOrStarting'
  BY <1>1, <1>2, <1>4 DEF SafeCall, LeasedOrStarting, scanVars
<1> QED  BY <1>3, <1>5 DEF SafeCall

LEMMA StopAdapterSafe ==
  ASSUME TypeOK, SafeCall, NEW a \in Adapters, StopAdapter(a)
  PROVE  SafeCall'
<1>1. /\ call.kind \in {"stop", "expire"} /\ a \in call.todo
      /\ UNCHANGED <<scanVars, radio, stopping>>
  BY DEF StopAdapter
<1>2. /\ call'.kind = call.kind
      /\ call'.todo = call.todo \ {a} /\ call'.ids = call.ids
      /\ call'.started = call.started
      /\ \/ session' = [session EXCEPT ![a] = "none"] /\ call'.result \in {call.result, "err"}
         \/ session' = session /\ call'.result = "err"
  BY StopStepFields DEF TypeOK
<1>3. LiveIsOn'
  BY <1>1, <1>2 DEF SafeCall, LiveIsOn, TypeOK
<1>4. IdleCall' /\ StartCallOK' /\ RollbackOK'
  BY <1>1, <1>2 DEF IdleCall, StartCallOK, RollbackOK
<1>5. AdaptersToStop(call.ids)' = AdaptersToStop(call.ids)
  BY <1>1, <1>2 DEF AdaptersToStop, scanVars
<1>6. AdaptersToStop(call.ids) \in SUBSET Adapters
  BY <1>1 DEF AdaptersToStop, SafeCall, StopCallOK, TypeOK
<1>7. StopCallOK'
  <2>1. /\ call'.ids \subseteq leases' /\ call'.started = {}
        /\ \A b \in call'.todo : \A s \in leases' \ call'.ids : b \notin keys'[s]
    BY <1>1, <1>2 DEF SafeCall, StopCallOK, scanVars
  <2>2. ASSUME call'.result = "ok", NEW b \in AdaptersToStop(call.ids), b \notin call'.todo
        PROVE  ~Discovering(b)'
    BY <1>1, <1>2, <1>6, <2>2 DEF SafeCall, StopCallOK, TypeOK
  <2> QED  BY <1>5, <2>1, <2>2 DEF StopCallOK
<1>8. LeasedOrStarting'
  BY <1>1, <1>2 DEF SafeCall, LeasedOrStarting, scanVars, TypeOK
<1> QED  BY <1>3, <1>4, <1>7, <1>8 DEF SafeCall

(* A stop that succeeded leaves only adapters discovering that others      *)
(* lease; one that failed keeps the leases.                                *)
LEMMA StopDoneSafe ==
  ASSUME TypeOK, SafeCall, StopDone \/ \E s \in Scans : ExpireDone(s)
  PROVE  SafeCall'
<1>1. /\ call.kind \in {"stop", "expire"} /\ call.todo = {}
      /\ call' = Idle /\ UNCHANGED <<radio, session, stopping>>
  BY DEF StopDone, ExpireDone
<1>2. \/ call.result = "err" /\ leases' = leases /\ \A s \in leases : keys'[s] = keys[s]
      \/ /\ call.result # "err" /\ leases' = leases \ call.ids
         /\ \A s \in leases' : keys'[s] = keys[s]
  BY DEF StopDone, ExpireDone, TypeOK
<1>3. LiveIsOn' /\ IdleCall' /\ StartCallOK' /\ RollbackOK' /\ StopCallOK'
  BY <1>1, IdleIsCall
     DEF SafeCall, LiveIsOn, IdleCall, StartCallOK, RollbackOK, StopCallOK
<1>4. LeasedOrStarting'
  <2>1. SUFFICES ASSUME NEW a \in Adapters, session[a] = "live"
                 PROVE  \E s \in leases' : a \in keys'[s]
    BY <1>1 DEF LeasedOrStarting
  <2>2. PICK s \in leases : a \in keys[s]
    BY <1>1, <2>1 DEF SafeCall, StopCallOK, LeasedOrStarting
  <2>3. CASE call.result = "err"
    BY <1>2, <2>2, <2>3
  <2>4. CASE call.result # "err"
    <3>1. call.result = "ok"
      BY <2>4 DEF TypeOK, Call
    <3>2. a \notin AdaptersToStop(call.ids)
      BY <1>1, <2>1, <3>1 DEF SafeCall, StopCallOK
    <3>3. \E t \in leases \ call.ids : a \in keys[t]
      BY <2>2, <3>2, ToStop
    <3> QED  BY <1>2, <2>4, <3>3
  <2> QED  BY <2>3, <2>4
<1> QED  BY <1>3, <1>4 DEF SafeCall

LEMMA EnvironmentSafe ==
  ASSUME TypeOK, SafeCall, Environment
  PROVE  SafeCall'
<1>1. /\ UNCHANGED <<scanVars, call>>
      /\ \A a \in Adapters : Discovering(a)' => session'[a] = session[a] /\ radio'[a] = "on"
  BY EnvironmentOnlyStops DEF SafeCall
<1>2. LiveIsOn' /\ IdleCall' /\ StartCallOK' /\ RollbackOK'
  BY <1>1 DEF SafeCall, LiveIsOn, IdleCall, StartCallOK, RollbackOK
<1>3. AdaptersToStop(call.ids)' = AdaptersToStop(call.ids)
  BY <1>1 DEF AdaptersToStop, scanVars
<1>4. call.ids \subseteq leases => AdaptersToStop(call.ids) \in SUBSET Adapters
  BY DEF AdaptersToStop, TypeOK
<1>5. StopCallOK'
  BY <1>1, <1>3, <1>4 DEF SafeCall, StopCallOK, scanVars
<1>6. LeasedOrStarting'
  BY <1>1 DEF SafeCall, LeasedOrStarting, scanVars
<1> QED  BY <1>2, <1>5, <1>6 DEF SafeCall

-----------------------------------------------------------------------------
(* Events and leases: a scan is told that it ended when, and only when, it *)
(* loses its lease, or was told before that its cleanup failed.            *)
LEMMA SentGrows ==
  ASSUME TypeOK, NEW s \in Scans, NEW e \in Terminal \cup {"started"}, Send(s, e)
  PROVE  /\ Told(s)' = Told(s) \cup {e}
         /\ \A t \in Scans : t # s => sent'[t] = sent[t] /\ Told(t)' = Told(t)
<1>1. sent'[s] = Append(sent[s], e) /\ \A t \in Scans : t # s => sent'[t] = sent[t]
  BY DEF Send, TypeOK
<1>2. sent[s] \in Seq(Terminal \cup {"started"})
  BY DEF TypeOK
<1> QED  BY <1>1, <1>2, ToldGrows DEF Told

LEMMA EventsStep ==
  ASSUME TypeOK, SafeCall, EventsOK, [Next]_vars
  PROVE  EventsOK'
<1>a. ASSUME NEW t \in Scans, timer'[t] = timer[t], sent'[t] = sent[t],
             t \in leases' <=> t \in leases
      PROVE  EventsOf(t)'
  <2>1. Told(t)' = Told(t)
    BY <1>a DEF Told
  <2> QED  BY <1>a, <2>1 DEF EventsOK, EventsOf
<1>1. CASE UNCHANGED <<leases, timer, sent>>
  BY <1>1, <1>a DEF EventsOK
<1>2. ASSUME NEW s \in Scans, StartConfirmed(s)
      PROVE  EventsOK'
  <2>1. CASE UNCHANGED scanVars
    BY <1>1, <2>1 DEF scanVars
  <2>2. CASE ~UNCHANGED scanVars
    <3>1. /\ timer[s] = "none" /\ leases' = leases \cup {s}
          /\ timer' = [timer EXCEPT ![s] = "sleeping"] /\ Send(s, "started")
      BY <1>2, <2>2 DEF StartConfirmed, Issued
    <3>2. Told(s) = {}
      BY <3>1 DEF EventsOK, EventsOf, Told
    <3>3. /\ Told(s)' = {"started"}
          /\ \A t \in Scans : t # s => sent'[t] = sent[t] /\ Told(t)' = Told(t)
      BY <3>1, <3>2, SentGrows
    <3>4. /\ timer'[s] = "sleeping"
          /\ \A t \in Scans : t # s => timer'[t] = timer[t] /\ (t \in leases' <=> t \in leases)
      BY <3>1 DEF TypeOK
    <3>5. EventsOf(s)'
      BY <3>1, <3>3, <3>4 DEF EventsOf
    <3> QED  BY <1>a, <3>3, <3>4, <3>5 DEF EventsOK
  <2> QED  BY <2>1, <2>2
<1>3. CASE StopDone
  <2>1. CASE call.result = "err"
    BY <1>1, <1>3, <2>1 DEF StopDone
  <2>2. CASE call.result # "err"
    <3>1. /\ leases' = leases \ call.ids /\ call.ids \subseteq leases
          /\ timer' = [s \in Scans |-> IF s \in call.ids THEN "done" ELSE timer[s]]
          /\ sent' = [s \in Scans |->
               IF s \in call.ids THEN Append(sent[s], "cancelled") ELSE sent[s]]
      BY <1>3, <2>2 DEF StopDone, SafeCall, StopCallOK
    <3>2. ASSUME NEW s \in Scans, s \in call.ids
          PROVE  EventsOf(s)'
      <4>1. sent[s] \in Seq(Terminal \cup {"started"}) /\ sent'[s] = Append(sent[s], "cancelled")
        BY <3>1, <3>2 DEF TypeOK
      <4>2. Told(s)' = Told(s) \cup {"cancelled"}
        BY <4>1, ToldGrows DEF Told, Terminal
      <4> QED  BY <3>1, <3>2, <4>2 DEF EventsOf, Terminal
    <3>3. ASSUME NEW s \in Scans, s \notin call.ids
          PROVE  EventsOf(s)'
      BY <1>a, <3>1, <3>3
    <3> QED  BY <3>2, <3>3 DEF EventsOK
  <2> QED  BY <2>1, <2>2
<1>4. ASSUME NEW s \in Scans, ExpireDone(s)
      PROVE  EventsOK'
  <2>1. s \in leases /\ timer[s] \in {"sleeping", "retrying"}
    BY <1>4 DEF ExpireDone, SafeCall, StopCallOK, EventsOK, EventsOf
  <2>2. /\ timer'[s] = (IF call.result = "err" THEN "retrying" ELSE "done")
        /\ s \in leases' <=> call.result = "err"
        /\ \A t \in Scans : t # s => timer'[t] = timer[t] /\ (t \in leases' <=> t \in leases)
    BY <1>4, <2>1 DEF ExpireDone, TypeOK
  <2>3. /\ \A t \in Scans : t # s => sent'[t] = sent[t] /\ Told(t)' = Told(t)
        /\ Told(s)' = Told(s) \cup (IF timer[s] = "retrying" THEN {}
                                   ELSE IF call.result = "err" THEN {"failed"} ELSE {"completed"})
    <3>1. CASE timer[s] = "retrying"
      BY <1>4, <3>1 DEF ExpireDone, Told
    <3>2. CASE timer[s] = "sleeping" /\ call.result = "err"
      <4>1. Send(s, "failed")
        BY <1>4, <3>2 DEF ExpireDone
      <4> QED  BY <3>2, <4>1, SentGrows DEF Terminal
    <3>3. CASE timer[s] = "sleeping" /\ call.result # "err"
      <4>1. Send(s, "completed")
        BY <1>4, <3>3 DEF ExpireDone
      <4> QED  BY <3>3, <4>1, SentGrows DEF Terminal
    <3> QED  BY <2>1, <3>1, <3>2, <3>3
  <2>4. EventsOf(s)
    BY DEF EventsOK
  <2>5. EventsOf(s)'
    BY <2>1, <2>2, <2>3, <2>4 DEF EventsOf, Terminal
  <2> QED  BY <1>a, <2>2, <2>3, <2>5 DEF EventsOK
<1>5. CASE Environment
  BY <1>1, <1>5, EnvironmentOnlyStops DEF SafeCall, scanVars
<1> QED
  BY <1>1, <1>2, <1>3, <1>4, <1>5
     DEF Next, Holder, vars, scanVars, StartCall, StopCall, TimerFires, DiscoverFails, Discover,
         StartFails, SnapshotFails, RollbackStart, StopAdapter

-----------------------------------------------------------------------------
LEMMA InitSafe == Init => IInv
<1> SUFFICES ASSUME Init PROVE IInv
  OBVIOUS
<1>1. TypeOK
  <2>1. Idle.owner \in Owners
    BY IdleIsCall DEF Call
  <2>2. <<>> \in Seq(Terminal \cup {"started"})
    OBVIOUS
  <2> QED  BY <2>1, <2>2, IdleIsCall DEF Init, TypeOK, TimerState, SessionState
<1>2. SafeCall
  BY IdleIsCall DEF Init, SafeCall, LiveIsOn, IdleCall, StartCallOK, RollbackOK, StopCallOK,
                    LeasedOrStarting
<1>3. EventsOK
  BY DEF Init, EventsOK, EventsOf
<1> QED  BY <1>1, <1>2, <1>3 DEF IInv

LEMMA StepSafe == IInv /\ [Next]_vars => IInv'
<1> SUFFICES ASSUME IInv, [Next]_vars PROVE IInv'
  OBVIOUS
<1>1. TypeOK /\ SafeCall /\ EventsOK /\ leases \subseteq Issued
  BY DEF IInv, EventsOK, EventsOf, TypeOK, Issued
<1>2. TypeOK'
  BY <1>1, TypeStep
<1>3. EventsOK'
  BY <1>1, EventsStep
<1>4. SafeCall'
  <2>1. ASSUME NEW o \in Owners, NEW asked \in Adapters \cup {Global}, StartCall(o, asked)
        PROVE  SafeCall'
    BY <1>1, <2>1, StartCallSafe
  <2>2. ASSUME NEW ids \in SUBSET leases, StopCall(ids) PROVE SafeCall'
    BY <1>1, <2>2, BeginStopSafe DEF StopCall
  <2>3. ASSUME NEW s \in Scans, TimerFires(s) PROVE SafeCall'
    BY <1>1, <2>3, BeginStopSafe DEF TimerFires
  <2>4. CASE Holder
    BY <1>1, <2>4, DiscoverSafe, FailedStartSafe, StartConfirmedSafe, RollbackSafe,
       StopAdapterSafe, StopDoneSafe DEF Holder
  <2>5. CASE Environment
    BY <1>1, <2>5, EnvironmentSafe
  <2>6. CASE UNCHANGED vars
    BY <1>1, <2>6 DEF vars, SafeCall, LiveIsOn, IdleCall, StartCallOK, RollbackOK, StopCallOK,
                      LeasedOrStarting, AdaptersToStop
  <2> QED  BY <2>1, <2>2, <2>3, <2>4, <2>5, <2>6 DEF Next
<1> QED  BY <1>2, <1>3, <1>4 DEF IInv

LEMMA Safe == Spec => []IInv
BY InitSafe, StepSafe, PTL DEF Spec

(***************************************************************************)
(* Every lease is accounted for: events, timers and leases agree, and the  *)
(* daemon discovers on no adapter that nobody leases, whatever fails,      *)
(* comes and goes while scans start, stop and expire.  What a start left   *)
(* behind because its snapshot could not be built is the exception.        *)
(***************************************************************************)
THEOREM LeasesAccounted == Spec => []LeaseAccounted
<1>1. IInv => LeaseAccounted
  <2> SUFFICES ASSUME IInv PROVE EventsMatchLeases /\ DiscoveryIsLeased
    BY DEF LeaseAccounted
  <2>1. EventsMatchLeases
    BY DEF IInv, EventsOK, EventsOf, EventsMatchLeases, Issued, Terminal
  <2>2. DiscoveryIsLeased
    BY IdleIsCall DEF IInv, SafeCall, LeasedOrStarting, DiscoveryIsLeased
  <2> QED  BY <2>1, <2>2
<1> QED  BY <1>1, Safe, PTL

(***************************************************************************)
(* A scan that stops, expires or fails to start never interrupts discovery *)
(* on an adapter that another scan leases.                                 *)
(***************************************************************************)
THEOREM SharedAdaptersKept == Spec => SharedAdapterKept
<1> DEFINE Keeps ==
      \A a \in Adapters :
        /\ Discovering(a) /\ ~Discovering(a)'
        /\ UNCHANGED <<radio, stopping>>
        /\ a \notin call.started
        => \A s \in leases \ call.ids : a \notin keys[s]
<1>1. IInv /\ [Next]_vars => [Keeps]_vars
  <2> SUFFICES ASSUME IInv, Next, NEW a \in Adapters,
                      Discovering(a), ~Discovering(a)',
                      UNCHANGED <<radio, stopping>>, a \notin call.started,
                      NEW s \in leases \ call.ids
               PROVE  a \notin keys[s]
    OBVIOUS
  <2>1. ASSUME NEW b \in Adapters, StopAdapter(b) PROVE a \notin keys[s]
    <3>1. a = b
      BY <2>1 DEF StopAdapter, IInv, TypeOK
    <3> QED  BY <2>1, <3>1 DEF StopAdapter, IInv, SafeCall, StopCallOK
  <2>2. ASSUME NEW b \in Adapters, DiscoverFails(b) PROVE FALSE
    BY <2>2 DEF DiscoverFails
  <2>3. ASSUME RollbackStart PROVE FALSE
    BY <2>3, RollbackIsIdle DEF IInv
  <2>4. ASSUME NEW b \in Adapters, Discover(b) PROVE FALSE
    BY <2>4, VisitFields DEF IInv, TypeOK
  <2>5. ASSUME Environment PROVE FALSE
    <3>1. radio[a] = "on" /\ \A b \in Adapters : Unfinished(b) => b \in Adapters
      BY DEF IInv, SafeCall, LiveIsOn
    <3> QED
      BY <2>5, <3>1 DEF Environment, PowerOff, PowerOffStops, PowerLost, PowerOn, Unplug, Plug,
                        LosePower, IInv, TypeOK
  <2>6. ASSUME SnapshotFails PROVE FALSE
    BY <2>6 DEF SnapshotFails
  <2>7. session' # session
    OBVIOUS
  <2> QED
    BY <2>1, <2>2, <2>3, <2>4, <2>5, <2>6, <2>7
       DEF Next, Holder, StartCall, StopCall, TimerFires, StartFails, StartConfirmed, StopDone,
           ExpireDone
<1> QED  BY <1>1, Safe, PTL DEF Spec, SharedAdapterKept

HIDE DEF Discovering

-----------------------------------------------------------------------------
(***************************************************************************)
(* Operations on a device.  For any number of requests, resumes and        *)
(* faults: a removal can be asked for again, only what is removed is       *)
(* forgotten, and PipeWire is changed by one worker at a time.             *)
(***************************************************************************)

(* The stages that a request goes through with the gate in its hands.      *)
Holding ==
  {"power", "calling", "revoking", "disconnecting", "removing", "setting", "forget",
   "provisioning", "routing", "snapshot"}

(* The values of the records.                                              *)
BluezStates == [known : BOOLEAN, bonded : BOOLEAN, connected : BOOLEAN, powered : BOOLEAN]
Requests == [op : Kinds, stage : Stages, route : BOOLEAN, attempt : 0..2]

RuntimeStates == [powered : BOOLEAN, connected : BOOLEAN]

(* The types of what BlueZ and the runtime hold.                           *)
RadioTypes ==
  /\ bluez \in BluezStates
  /\ late \in SUBSET {"pair", "connect", "remove"}
  /\ runtime \in RuntimeStates

(* The types of what the requests and their workers hold.                  *)
ActorTypes ==
  /\ request \in [Actors -> Requests]
  /\ worker \in [Actors -> Workers]
  /\ gate \in Actors \cup {None}

(* A worker at work belongs to the stage its request is in, unless that    *)
(* request is gone; what it returned is read in that stage.                *)
WorkerOK(a) ==
  /\ worker[a] \in Busy /\ Active(a) => request[a].stage = worker[a]
  /\ worker[a] \in {"ok", "failed", "again"} => request[a].stage \in Busy
  /\ request[a].stage = "idle" => worker[a] = "none"

(* One request at a time is past the gate, and the worker of an audio      *)
(* change has it after its request is gone.                                *)
GateOK(a) ==
  /\ request[a].stage \in Holding => gate = a
  /\ worker[a] = "applying" => gate = a

(* The stages of a removal.                                                *)
Removing == {"revoking", "disconnecting", "removing", "forget"}

(* Which operations come to the stages where that makes a difference.      *)
StageOK(a) ==
  /\ request[a].stage \in {"power", "calling"} => request[a].op \in {"pair", "connect"}
  /\ request[a].stage = "setting" => request[a].op \in {"disconnect", "property"}
  /\ request[a].stage \in Removing => request[a].op = "remove"

(* The three, for every request.                                           *)
ActorsOK == \A a \in Actors : WorkerOK(a) /\ GateOK(a) /\ StageOK(a)

(* From the revocation on a removal finds no credential, and after the     *)
(* removal no bond either, nor a pairing that could bring one back.  Nor   *)
(* does a removal find one whose request is gone.                          *)
RemovalAt(a) ==
  /\ request[a].stage \in {"disconnecting", "removing", "forget"} => ~credential
  /\ request[a].stage = "revoking" /\ worker[a] = "ok" => ~credential
  /\ request[a].stage = "forget" => ~bluez.bonded /\ "pair" \notin late

(* A bond is known and a credential bonded; and the above for every        *)
(* request.                                                                *)
RemovalOK ==
  /\ bluez.bonded => bluez.known
  /\ credential => bluez.bonded
  /\ "remove" \in late => ~credential
  /\ \A a \in Actors : RemovalAt(a)

(* The inductive invariant of the workflow.                                *)
DeviceIInv == RadioTypes /\ ActorTypes /\ ActorsOK /\ RemovalOK

-----------------------------------------------------------------------------
(* The request of a changes, and no other one does.                        *)
Moves(a, stages) ==
  /\ request' \in [Actors -> Requests]
  /\ request'[a].stage \in stages
  /\ \A b \in Actors : b # a => request'[b] = request[b]

(* None is no request.                                                     *)
LEMMA NoneIsNobody == \A a \in Actors : a # None
BY ActorsAssumption DEF Actors

(* What going to a stage assigns.                                          *)
LEMMA GotoMoves ==
  ASSUME ActorTypes, NEW a \in Actors, NEW s \in Stages, Goto(a, s)
  PROVE  Moves(a, {s}) /\ request'[a].op = request[a].op
<1>1. request' = [request EXCEPT ![a] = [request[a] EXCEPT !.stage = s]]
  BY DEF Goto
<1>2. [request[a] EXCEPT !.stage = s] \in Requests
  BY DEF ActorTypes, Requests
<1>3. [request[a] EXCEPT !.stage = s].stage = s /\ [request[a] EXCEPT !.stage = s].op = request[a].op
  BY DEF ActorTypes, Requests
<1> QED  BY <1>1, <1>2, <1>3 DEF ActorTypes, Moves

(* A request that is begun or over.                                        *)
LEMMA FreshRequest ==
  ASSUME NEW s \in Stages
  PROVE  /\ [IdleRequest EXCEPT !.stage = s] \in Requests
         /\ [IdleRequest EXCEPT !.stage = s].stage = s
         /\ \A op \in Kinds : /\ [IdleRequest EXCEPT !.op = op, !.stage = s] \in Requests
                              /\ [IdleRequest EXCEPT !.op = op, !.stage = s].stage = s
<1>1. IdleRequest \in Requests
  BY DEF IdleRequest, Requests, Kinds, Stages
<1> QED  BY <1>1 DEF Requests

(* What a request that is begun or over becomes.                           *)
LEMMA ResetMoves ==
  ASSUME ActorTypes, NEW a \in Actors, NEW s \in Stages,
         request' = [request EXCEPT ![a] = [IdleRequest EXCEPT !.stage = s]]
  PROVE  Moves(a, {s})
<1> DEFINE r == [IdleRequest EXCEPT !.stage = s]
<1>1. r \in Requests /\ r.stage = s
  BY FreshRequest
<1> HIDE DEF r
<1>2. request' = [request EXCEPT ![a] = r]
  BY DEF r
<1> QED  BY <1>1, <1>2 DEF ActorTypes, Moves

(* The end or failure of a request frees the gate it holds.                *)
LEMMA EndsMoves ==
  ASSUME ActorTypes, NEW a \in Actors, Ends(a)
  PROVE  Moves(a, {"ended"}) /\ gate' = IF gate = a THEN None ELSE gate
BY ResetMoves DEF Ends, Stages

(* A failure also may go to the backoff of a reconnection.                 *)
LEMMA FailsMoves ==
  ASSUME ActorTypes, NEW a \in Actors, gate \in {a, None}, Fails(a)
  PROVE  Moves(a, {"ended", "backoff"}) /\ gate' = None
<1>1. CASE Ends(a)
  BY <1>1, EndsMoves DEF Moves
<1>2. CASE /\ request[a].attempt < 2
           /\ request' = [request EXCEPT ![a].stage = "backoff", ![a].attempt = @ + 1,
                                         ![a].route = FALSE]
           /\ gate' = None
  <2> DEFINE n == request[a].attempt + 1
             r == [request[a] EXCEPT !.stage = "backoff", !.attempt = n, !.route = FALSE]
  <2>1. n \in 0..2
    BY <1>2 DEF ActorTypes, Requests
  <2>2. request' = [request EXCEPT ![a] = r]
    BY <1>2
  <2> HIDE DEF n
  <2>3. r \in Requests /\ r.stage = "backoff"
    BY <2>1 DEF ActorTypes, Requests, Stages
  <2> HIDE DEF r
  <2> QED  BY <1>2, <2>2, <2>3 DEF ActorTypes, Moves
<1> QED  BY <1>1, <1>2 DEF Fails

(* What one actor does leaves the others as they should be, if it takes    *)
(* the gate from nobody.                                                   *)
LEMMA OneActorMoves ==
  ASSUME ActorTypes, ActorsOK, NEW a \in Actors, NEW stages, Moves(a, stages),
         worker' \in [Actors -> Workers], \A b \in Actors : b # a => worker'[b] = worker[b],
         gate' \in Actors \cup {None},
         gate \in {a, None} \/ gate' = gate,
         WorkerOK(a)', GateOK(a)', StageOK(a)'
  PROVE  ActorTypes' /\ ActorsOK'
<1>1. ActorTypes'
  BY DEF ActorTypes, Moves
<1>2. ASSUME NEW b \in Actors, b # a PROVE WorkerOK(b)' /\ GateOK(b)' /\ StageOK(b)'
  <2>1. request'[b] = request[b] /\ worker'[b] = worker[b]
    BY <1>2 DEF Moves
  <2>2. gate = b => gate' = b
    BY <1>2, NoneIsNobody
  <2>3. WorkerOK(b) /\ GateOK(b) /\ StageOK(b)
    BY <1>2 DEF ActorsOK
  <2> QED  BY <2>1, <2>2, <2>3 DEF WorkerOK, GateOK, StageOK, Active
<1> QED  BY <1>1, <1>2 DEF ActorsOK

(* A request whose stage needs no worker has none.                         *)
LEMMA NoWorker ==
  ASSUME ActorTypes, ActorsOK, NEW a \in Actors, Active(a), request[a].stage \notin Busy
  PROVE  worker[a] = "none"
BY DEF ActorsOK, WorkerOK, ActorTypes, Workers, Busy

(* No other worker is touched.                                             *)
OwnWorker(a) ==
  worker' \in [Actors -> Workers] /\ \A b \in Actors : b # a => worker'[b] = worker[b]

(* A worker that starts or returns touches no other one.                   *)
LEMMA WorkerDone ==
  ASSUME ActorTypes, NEW a \in Actors, NEW w \in Workers, worker' = [worker EXCEPT ![a] = w]
  PROVE  OwnWorker(a) /\ worker'[a] = w
BY DEF ActorTypes, OwnWorker

(* Nor does a step that leaves it alone.                                   *)
LEMMA WorkerSame == ASSUME ActorTypes, NEW a \in Actors, UNCHANGED worker PROVE OwnWorker(a)
BY DEF ActorTypes, OwnWorker

(* A request leaves the gate, or comes to where it does not need it.       *)
LEMMA OneActorEnds ==
  ASSUME ActorTypes, ActorsOK, NEW a \in Actors,
         Moves(a, {"ended", "backoff", "queued", "gave_up"}),
         OwnWorker(a), worker'[a] = "none",
         gate' \in Actors \cup {None},
         gate \in {a, None} \/ gate' = gate
  PROVE  ActorTypes' /\ ActorsOK'
BY OneActorMoves DEF Moves, WorkerOK, GateOK, StageOK, Removing, Busy, Holding, OwnWorker

(* A request goes on with the gate in its hands.                           *)
LEMMA OneActorAdvances ==
  ASSUME ActorTypes, ActorsOK, NEW a \in Actors, request[a].stage \in Holding,
         NEW s \in Holding \ {"power", "setting"}, s = "calling" => request[a].stage = "power",
         s \in Removing => request[a].op = "remove",
         Goto(a, s), OwnWorker(a), worker'[a] = "none", UNCHANGED gate
  PROVE  ActorTypes' /\ ActorsOK'
<1>1. s \in Stages
  BY DEF Holding, Stages
<1>2. Moves(a, {s}) /\ request'[a].op = request[a].op
  BY <1>1, GotoMoves
<1>3. request'[a].stage = s /\ gate' = a /\ gate' \in Actors \cup {None}
  BY <1>2 DEF Moves, ActorsOK, GateOK
<1>4. StageOK(a)'
  BY <1>2, <1>3 DEF StageOK, ActorsOK, Holding
<1>5. WorkerOK(a)' /\ GateOK(a)'
  BY <1>3 DEF WorkerOK, GateOK, Holding, Busy
<1> QED  BY <1>2, <1>3, <1>4, <1>5, OneActorMoves DEF OwnWorker

(* A request fails that holds the gate, or finds it free.                  *)
LEMMA OneActorFails ==
  ASSUME ActorTypes, ActorsOK, NEW a \in Actors, gate = None \/ request[a].stage \in Holding,
         Fails(a), OwnWorker(a), worker'[a] = "none"
  PROVE  ActorTypes' /\ ActorsOK'
<1>1. gate \in {a, None}
  BY DEF ActorsOK, GateOK
<1>2. Moves(a, {"ended", "backoff"}) /\ gate' = None
  BY <1>1, FailsMoves
<1> QED  BY <1>1, <1>2, OneActorEnds DEF Moves

(* A request is over, whoever holds the gate.                              *)
LEMMA OneActorEnded ==
  ASSUME ActorTypes, ActorsOK, NEW a \in Actors, Ends(a), OwnWorker(a), worker'[a] = "none"
  PROVE  ActorTypes' /\ ActorsOK'
<1>1. Moves(a, {"ended"}) /\ gate' = IF gate = a THEN None ELSE gate
  BY EndsMoves
<1> QED  BY <1>1, OneActorEnds DEF Moves, ActorTypes

-----------------------------------------------------------------------------
(* Every step of a request keeps the requests, workers and the gate in     *)
(* order.                                                                  *)
LEMMA StepKeepsActors ==
  ASSUME ActorTypes, ActorsOK, NEW a \in Actors, Step(a)
  PROVE  ActorTypes' /\ ActorsOK'
<1>0. ASSUME request[a].stage \notin {"idle", "ended", "gave_up", "revoking", "routing", "applying"},
             UNCHANGED worker
      PROVE  OwnWorker(a) /\ worker'[a] = "none"
  BY <1>0, NoWorker, WorkerSame DEF Active, Busy
<1>1. CASE BacksOff(a)
  <2>1. OwnWorker(a) /\ worker'[a] = "none"
    BY <1>1, <1>0 DEF BacksOff
  <2>2. CASE Goto(a, "queued") /\ UNCHANGED gate
    BY <2>1, <2>2, GotoMoves, OneActorEnds DEF Stages, Moves, ActorTypes
  <2>3. CASE request' = [request EXCEPT ![a] = [IdleRequest EXCEPT !.stage = "gave_up"]] /\ UNCHANGED gate
    BY <2>1, <2>3, ResetMoves, OneActorEnds DEF Stages, Moves, ActorTypes
  <2> QED  BY <1>1, <2>1, <2>2, <2>3, OneActorEnded DEF BacksOff
<1>2. CASE Starts(a)
  <2>1. OwnWorker(a) /\ worker'[a] = "none"
    BY <1>2, <1>0 DEF Starts
  <2> DEFINE s == FirstStage(request[a].op)
             v == RouteRequired(request[a].op)
             r == [request[a] EXCEPT !.stage = s, !.route = v]
  <2>2. /\ s \in {"power", "revoking", "provisioning", "setting"}
        /\ s = "power" => request[a].op \in {"pair", "connect"}
        /\ s = "setting" => request[a].op \in {"disconnect", "property"}
        /\ s \in Removing => request[a].op = "remove"
    BY <1>2 DEF Starts, FirstStage, ActorTypes, Requests, Kinds, Removing
  <2>3. v \in BOOLEAN
    BY DEF RouteRequired
  <2>4. request' = [request EXCEPT ![a] = r]
    BY <1>2 DEF Starts
  <2>5. gate = None /\ gate' = a
    BY <1>2 DEF Starts
  <2> HIDE DEF s, v
  <2>6. r \in Requests /\ r.stage = s /\ r.op = request[a].op
    BY <2>2, <2>3 DEF ActorTypes, Requests, Stages
  <2> HIDE DEF r
  <2>7. Moves(a, {s}) /\ request'[a] = r
    BY <2>4, <2>6 DEF Moves, ActorTypes
  <2>8. WorkerOK(a)' /\ GateOK(a)' /\ StageOK(a)'
    BY <2>1, <2>2, <2>5, <2>6, <2>7 DEF WorkerOK, GateOK, StageOK, Busy
  <2> QED  BY <2>1, <2>5, <2>7, <2>8, OneActorMoves DEF OwnWorker
<1>3. CASE FindsNothing(a)
  BY <1>3, <1>0, OneActorFails DEF FindsNothing
<1>4. CASE Power(a)
  BY <1>4, <1>0, OneActorFails, OneActorAdvances DEF Power, Holding, Removing
<1>5. CASE Spawns(a)
  <2>1. request[a].stage \in {"revoking", "routing"} /\ UNCHANGED <<request, gate>>
    BY <1>5 DEF Spawns
  <2>2. OwnWorker(a) /\ worker'[a] = request[a].stage
    BY <1>5, <2>1, WorkerDone DEF Spawns, Workers, Busy
  <2>3. Moves(a, {request[a].stage})
    BY <2>1 DEF Moves, ActorTypes
  <2>4. WorkerOK(a)' /\ GateOK(a)' /\ StageOK(a)'
    BY <2>1, <2>2 DEF WorkerOK, GateOK, StageOK, ActorsOK, Busy
  <2> QED  BY <2>1, <2>2, <2>3, <2>4, OneActorMoves DEF OwnWorker, ActorTypes
<1>6. CASE Revoked(a)
  <2>1. OwnWorker(a) /\ worker'[a] = "none"
    BY <1>6, WorkerDone DEF Revoked, Workers
  <2>2. request[a].op = "remove"
    BY <1>6 DEF Revoked, ActorsOK, StageOK, Removing
  <2> QED  BY <1>6, <2>1, <2>2, OneActorFails, OneActorAdvances DEF Revoked, Holding
<1>7. CASE Answered(a)
  <2>1. AfterCall(a) \in {"provisioning", "routing", "snapshot"}
    BY DEF AfterCall
  <2> QED  BY <1>7, <1>0, <2>1, OneActorFails, OneActorAdvances DEF Answered, Holding, Removing
<1>8. CASE Disconnects(a)
  BY <1>8, <1>0, OneActorFails, OneActorAdvances DEF Disconnects, Holding, Removing
<1>9. CASE Removes(a)
  <2>1. request[a].op = "remove"
    BY <1>9 DEF Removes, ActorsOK, StageOK, Removing
  <2> QED  BY <1>9, <1>0, <2>1, OneActorFails, OneActorAdvances DEF Removes, Holding
<1>10. CASE Provisions(a)
  BY <1>10, <1>0, OneActorFails, OneActorAdvances DEF Provisions, Holding, Removing
<1>11. CASE Routed(a)
  <2>1. OwnWorker(a) /\ worker'[a] = "none"
    BY <1>11, WorkerDone DEF Routed, Workers
  <2>2. CASE UNCHANGED <<request, gate>>
    <3>1. Moves(a, {request[a].stage})
      BY <2>2 DEF Moves, ActorTypes
    <3>2. WorkerOK(a)' /\ GateOK(a)' /\ StageOK(a)'
      BY <2>1, <2>2, <1>11 DEF WorkerOK, GateOK, StageOK, ActorsOK, Busy, Routed
    <3> QED  BY <2>1, <2>2, <3>1, <3>2, OneActorMoves DEF OwnWorker, ActorTypes
  <2> QED  BY <1>11, <2>1, <2>2, OneActorFails, OneActorAdvances DEF Routed, Holding, Removing
<1>12. CASE Forgets(a)
  BY <1>12, <1>0, OneActorAdvances DEF Forgets, Holding, Removing
<1>13. CASE Snapshots(a)
  BY <1>13, <1>0, OneActorFails, OneActorEnded DEF Snapshots, Holding
<1>14. CASE SetsPolicy(a)
  BY <1>14, <1>0, OneActorEnded DEF SetsPolicy
<1>15. CASE Probes(a)
  <2>1. CASE Fails(a) /\ UNCHANGED worker
    BY <1>15, <2>1, <1>0, OneActorFails DEF Probes
  <2>2. CASE Goto(a, "applying") /\ worker' = [worker EXCEPT ![a] = "applying"] /\ gate' = a
    <3>1. OwnWorker(a) /\ worker'[a] = "applying"
      BY <2>2, WorkerDone DEF Workers, Busy
    <3>2. Moves(a, {"applying"})
      BY <2>2, GotoMoves DEF Stages
    <3>3. WorkerOK(a)' /\ GateOK(a)' /\ StageOK(a)'
      BY <2>2, <3>1, <3>2 DEF WorkerOK, GateOK, StageOK, Removing, Busy, Moves
    <3> QED  BY <1>15, <2>2, <3>1, <3>2, <3>3, OneActorMoves DEF OwnWorker, Probes
  <2> QED  BY <1>15, <2>1, <2>2 DEF Probes
<1>16. CASE Applied(a)
  <2>1. OwnWorker(a) /\ worker'[a] = "none"
    BY <1>16, WorkerDone DEF Applied, Workers
  <2> QED  BY <1>16, <2>1, OneActorEnded DEF Applied
<1> QED  BY <1>1, <1>2, <1>3, <1>4, <1>5, <1>6, <1>7, <1>8, <1>9, <1>10, <1>11, <1>12, <1>13,
            <1>14, <1>15, <1>16 DEF Step

(* So does everything else that happens.                                   *)
LEMMA NextKeepsActors ==
  ASSUME ActorTypes, ActorsOK, [DeviceNext]_deviceVars
  PROVE  ActorTypes' /\ ActorsOK'
<1>1. CASE UNCHANGED <<request, worker, gate>>
  BY <1>1 DEF ActorTypes, ActorsOK, WorkerOK, GateOK, StageOK, Active
<1>2. ASSUME NEW u \in Users, NEW op \in Operations[u], Begin(u, op)
      PROVE  ActorTypes' /\ ActorsOK'
  <2>1. u \in Actors /\ op \in Kinds
    BY ActorsAssumption DEF Actors
  <2> DEFINE r == [IdleRequest EXCEPT !.op = op, !.stage = "queued"]
  <2>2. r \in Requests /\ r.stage = "queued"
    BY <2>1, FreshRequest DEF Stages
  <2> HIDE DEF r
  <2>3. request' = [request EXCEPT ![u] = r] /\ UNCHANGED <<worker, gate>>
    BY <1>2 DEF Begin, r
  <2>4. Moves(u, {"queued"})
    BY <2>1, <2>2, <2>3 DEF Moves, ActorTypes
  <2>5. worker'[u] = "none"
    BY <1>2, <2>1, <2>3 DEF Begin, ActorsOK, WorkerOK
  <2> QED  BY <2>1, <2>3, <2>4, <2>5, WorkerSame, OneActorEnds DEF Moves, ActorTypes
<1>3. ASSUME NEW a \in Actors, WorkerEnds(a) PROVE ActorTypes' /\ ActorsOK'
  <2>1. PICK result \in {"ok", "failed", "again"} :
               worker' = [worker EXCEPT ![a] = IF Active(a) THEN result ELSE "none"]
    BY <1>3 DEF WorkerEnds
  <2>2. OwnWorker(a) /\ worker'[a] = IF Active(a) THEN result ELSE "none"
    BY <2>1, WorkerDone DEF Workers
  <2>3. Moves(a, {request[a].stage}) /\ UNCHANGED request
    BY <1>3 DEF Moves, ActorTypes, WorkerEnds
  <2>4. gate' = (IF worker[a] = "applying" THEN None ELSE gate) /\ worker[a] \in Busy
    BY <1>3 DEF WorkerEnds
  <2>5. gate' \in Actors \cup {None} /\ (gate \in {a, None} \/ gate' = gate)
    BY <2>4 DEF ActorTypes, ActorsOK, GateOK
  <2>6. WorkerOK(a)'
    BY <2>2, <2>3, <2>4 DEF WorkerOK, ActorsOK, Active, Busy
  <2>7. GateOK(a)' /\ StageOK(a)'
    BY <2>2, <2>3, <2>4 DEF GateOK, StageOK, WorkerOK, ActorsOK, Active, Holding, Busy
  <2> QED  BY <2>2, <2>3, <2>5, <2>6, <2>7, OneActorMoves DEF OwnWorker
<1>4. ASSUME NEW a \in Actors, Active(a), Drop(a) PROVE ActorTypes' /\ ActorsOK'
  <2>1. Moves(a, {"ended"})
    BY <1>4, ResetMoves DEF Drop, Stages
  <2>2. OwnWorker(a) /\ worker'[a] = IF worker[a] \in Busy THEN worker[a] ELSE "none"
    BY <1>4 DEF Drop, OwnWorker, ActorTypes, Workers
  <2>3. gate' = IF gate = a /\ worker[a] # "applying" THEN None ELSE gate
    BY <1>4 DEF Drop
  <2>4. WorkerOK(a)' /\ GateOK(a)' /\ StageOK(a)'
    BY <2>1, <2>2, <2>3 DEF Moves, WorkerOK, GateOK, StageOK, Removing, ActorsOK, Active, Busy, Holding
  <2>5. gate' \in Actors \cup {None} /\ (gate \in {a, None} \/ gate' = gate)
    BY <2>3 DEF ActorTypes
  <2> QED  BY <2>1, <2>2, <2>4, <2>5, OneActorMoves DEF OwnWorker
<1>5. ASSUME NEW w \in Resumes, worker[w] = "none", UNCHANGED <<worker, gate>>,
             request' = [request EXCEPT ![w] = [IdleRequest EXCEPT !.stage = "backoff"]]
      PROVE  ActorTypes' /\ ActorsOK'
  <2>1. w \in Actors
    BY DEF Actors
  <2>2. Moves(w, {"backoff"})
    BY <1>5, <2>1, ResetMoves DEF Stages
  <2> QED  BY <1>5, <2>1, <2>2, WorkerSame, OneActorEnds DEF Moves, ActorTypes
<1>6. CASE Monitor
  BY <1>6, <1>1, <1>5 DEF Monitor, MonitorReads, MonitorRemembers, MonitorRestores
<1>7. CASE LogindSignals \/ LateEnds \/ LateRemoval \/ LinkLost \/ PowersOff \/ Discovered \/ Expires \/ UNCHANGED deviceVars
  BY <1>7, <1>1 DEF LogindSignals, LateEnds, LateRemoval, LinkLost, PowersOff, Discovered, Expires, deviceVars
<1>8. Users \subseteq Actors /\ Resumes \subseteq Actors
  BY DEF Actors
<1> QED  BY <1>2, <1>3, <1>4, <1>6, <1>7, <1>8, StepKeepsActors DEF DeviceNext, Cancel, SleepDrops
-----------------------------------------------------------------------------
(* What the actions assign to the device in BlueZ.                         *)
LEMMA BluezValues ==
  ASSUME bluez \in BluezStates
  PROVE  /\ \A p, c \in BOOLEAN : [bluez EXCEPT !.powered = p, !.connected = c] \in BluezStates
         /\ \A p \in BOOLEAN : [bluez EXCEPT !.powered = p] \in BluezStates
         /\ \A c \in BOOLEAN : [bluez EXCEPT !.connected = c] \in BluezStates
         /\ \A k \in BOOLEAN : [bluez EXCEPT !.known = k] \in BluezStates
         /\ [bluez EXCEPT !.bonded = TRUE] \in BluezStates
         /\ [bluez EXCEPT !.bonded = TRUE, !.connected = TRUE] \in BluezStates
         /\ Removed \in BluezStates
         /\ \A op : Effect(op) \in BluezStates
         /\ Seen \in RuntimeStates
BY DEF BluezStates, RuntimeStates, Effect, Removed, Seen

(* No step leaves the types of BlueZ and of the runtime.                   *)
LEMMA NextKeepsRadioTypes ==
  ASSUME RadioTypes, ActorTypes, ActorsOK, [DeviceNext]_deviceVars
  PROVE  RadioTypes'
<1> USE BluezValues
<1>1. CASE UNCHANGED <<bluez, late, runtime>>
  BY <1>1 DEF RadioTypes
<1>2. ASSUME NEW a \in Actors, Power(a) PROVE RadioTypes'
  BY <1>2 DEF RadioTypes, Power, stores
<1>3. ASSUME NEW a \in Actors, Answered(a) PROVE RadioTypes'
  <2>1. request[a].op \in {"pair", "connect"}
    BY <1>3 DEF Answered, ActorsOK, StageOK
  <2>2. bluez' \in {bluez, Effect(request[a].op), [bluez EXCEPT !.bonded = TRUE]}
    BY <1>3 DEF Answered
  <2>3. late' \in {late, late \cup {request[a].op}} /\ UNCHANGED runtime
    BY <1>3 DEF Answered, stores
  <2> QED  BY <2>1, <2>2, <2>3 DEF RadioTypes
<1>4. ASSUME NEW a \in Actors, Disconnects(a) PROVE RadioTypes'
  <2> DEFINE c == bluez.connected /\ request[a].op = "property"
  <2>1. bluez' \in {bluez, [bluez EXCEPT !.connected = c]} /\ UNCHANGED <<late, runtime>>
    BY <1>4 DEF Disconnects, stores
  <2>2. c \in BOOLEAN
    OBVIOUS
  <2> HIDE DEF c
  <2> QED  BY <2>1, <2>2 DEF RadioTypes
<1>5. ASSUME NEW a \in Actors, Removes(a) PROVE RadioTypes'
  <2>1. bluez' \in {bluez, Removed} /\ late' \in {late, {}} /\ UNCHANGED runtime
    BY <1>5 DEF Removes, world, stores
  <2> QED  BY <2>1 DEF RadioTypes
<1>6. ASSUME NEW a \in Actors, Snapshots(a) PROVE RadioTypes'
  <2>1. UNCHANGED <<bluez, late>> /\ runtime' \in {runtime, Seen}
    BY <1>6 DEF Snapshots, Saved, world
  <2> QED  BY <2>1 DEF RadioTypes
<1>7. ASSUME NEW a \in Actors, Drop(a), UNCHANGED <<bluez, runtime>> PROVE RadioTypes'
  <2>1. request[a].stage \in {"calling", "removing"} => request[a].op \in {"pair", "connect", "remove"}
    BY DEF ActorsOK, StageOK, Removing
  <2> QED  BY <1>7, <2>1 DEF RadioTypes, Drop
<1>8. CASE Monitor
  <2>1. CASE MonitorReads
    BY <2>1, <1>1 DEF MonitorReads, world, stores
  <2>2. CASE MonitorRemembers
    BY <2>2 DEF RadioTypes, MonitorRemembers, world
  <2>3. CASE MonitorRestores
    <3> DEFINE p == runtime.powered
               c == bluez.connected /\ runtime.powered
    <3>1. bluez' \in {bluez, [bluez EXCEPT !.powered = p, !.connected = c]} /\ UNCHANGED <<late, runtime>>
      BY <2>3 DEF MonitorRestores, stores
    <3>2. p \in BOOLEAN /\ c \in BOOLEAN
      BY DEF RadioTypes, RuntimeStates
    <3> HIDE DEF p, c
    <3> QED  BY <3>1, <3>2 DEF RadioTypes
  <2> QED  BY <1>8, <2>1, <2>2, <2>3 DEF Monitor
<1>9. CASE LateEnds
  <2>1. PICK op \in late : late' = late \ {op} /\ bluez' \in {bluez, Effect(op)} /\ UNCHANGED runtime
    BY <1>9 DEF LateEnds, stores
  <2> QED  BY <2>1 DEF RadioTypes
<1>10. CASE LinkLost \/ PowersOff \/ Discovered \/ Expires
  BY <1>10 DEF RadioTypes, LinkLost, PowersOff, Discovered, Expires, stores
<1>14. CASE LateRemoval
  <2>1. bluez' \in {bluez, Removed} /\ late' \in SUBSET late /\ UNCHANGED runtime
    BY <1>14 DEF LateRemoval, stores
  <2> QED  BY <2>1 DEF RadioTypes
<1>11. ASSUME NEW a \in Actors,
              \/ BacksOff(a) \/ Starts(a) \/ FindsNothing(a) \/ Spawns(a) \/ Revoked(a)
              \/ Provisions(a) \/ Routed(a) \/ Forgets(a) \/ SetsPolicy(a) \/ Probes(a) \/ Applied(a)
              \/ WorkerEnds(a)
       PROVE  RadioTypes'
  BY <1>11, <1>1 DEF BacksOff, Starts, FindsNothing, Spawns, Revoked, Provisions, Routed, Forgets,
       SetsPolicy, Probes, Applied, WorkerEnds, world, stores
<1>12. CASE LogindSignals \/ UNCHANGED deviceVars \/ \E u \in Users : \E op \in Operations[u] : Begin(u, op)
  BY <1>12, <1>1 DEF LogindSignals, Begin, deviceVars, world, stores
<1>13. CASE (\E u \in Users : Cancel(u)) \/ (\E w \in Resumes : SleepDrops(w))
  BY <1>13, <1>7 DEF Cancel, SleepDrops, stores, Actors
<1> HIDE BluezValues
<1> QED  BY <1>2, <1>3, <1>4, <1>5, <1>6, <1>8, <1>9, <1>10, <1>11, <1>12, <1>13, <1>14 DEF DeviceNext, Step

-----------------------------------------------------------------------------
(* Nothing of the removal of another request is spoiled: only the holder   *)
(* of the gate brings a credential, a bond or a pairing.                   *)
LEMMA OthersRemoval ==
  ASSUME ActorsOK, RemovalOK, NEW a \in Actors, NEW stages, Moves(a, stages), OwnWorker(a),
         \/ gate = a
         \/ /\ credential' => credential
            /\ bluez'.bonded => bluez.bonded
            /\ "pair" \in late' => "pair" \in late,
         bluez'.bonded => bluez'.known,
         credential' => bluez'.bonded,
         "remove" \in late' => ~credential',
         RemovalAt(a)'
  PROVE  RemovalOK'
<1>1. ASSUME NEW b \in Actors, b # a PROVE RemovalAt(b)'
  <2>1. request'[b] = request[b] /\ worker'[b] = worker[b]
    BY <1>1 DEF Moves, OwnWorker
  <2>2. RemovalAt(b) /\ GateOK(b)
    BY <1>1 DEF RemovalOK, ActorsOK
  <2>3. CASE gate = a
    BY <1>1, <2>1, <2>2, <2>3 DEF RemovalAt, GateOK, Holding
  <2>4. CASE gate # a
    BY <2>1, <2>2, <2>4 DEF RemovalAt
  <2> QED  BY <2>3, <2>4
<1> QED  BY <1>1 DEF RemovalOK
(* The stages in which a request makes no promise about the credential.    *)
Unpromising == Stages \ {"revoking", "disconnecting", "removing", "forget"}

(* A request that goes to such a stage keeps RemovalOK.                    *)
LEMMA UnpromisingMove ==
  ASSUME ActorsOK, RemovalOK, NEW a \in Actors, Moves(a, Unpromising), OwnWorker(a),
         UNCHANGED <<bluez, late, credential>>
  PROVE  RemovalOK'
<1>1. RemovalAt(a)'
  BY DEF Moves, RemovalAt, Unpromising
<1>2. /\ bluez'.bonded => bluez'.known
      /\ credential' => bluez'.bonded
      /\ credential' => credential
      /\ bluez'.bonded => bluez.bonded
      /\ "remove" \in late' => ~credential'
  BY Zenon DEF RemovalOK
<1> QED  BY <1>1, <1>2, OthersRemoval

(* A failure is such a move.                                               *)
LEMMA FailsUnpromising ==
  ASSUME ActorTypes, ActorsOK, NEW a \in Actors, gate = None \/ request[a].stage \in Holding, Fails(a)
  PROVE  Moves(a, Unpromising)
<1>1. gate \in {a, None}
  BY DEF ActorsOK, GateOK
<1> QED  BY <1>1, FailsMoves DEF Moves, Unpromising, Stages

(* So is going to such a stage.                                            *)
LEMMA GotoUnpromising ==
  ASSUME ActorTypes, NEW a \in Actors, NEW s \in Unpromising, Goto(a, s)
  PROVE  Moves(a, Unpromising)
BY GotoMoves DEF Moves, Unpromising

(* So is the end of a request.                                             *)
LEMMA EndsUnpromising ==
  ASSUME ActorTypes, NEW a \in Actors, Ends(a)
  PROVE  Moves(a, Unpromising)
BY EndsMoves DEF Moves, Unpromising, Stages

(* Every step of a request keeps RemovalOK.                                *)
LEMMA StepKeepsRemoval ==
  ASSUME RadioTypes, ActorTypes, ActorsOK, RemovalOK, NEW a \in Actors, Step(a)
  PROVE  RemovalOK'
<1>h. ASSUME request[a].stage \in Holding PROVE gate = a
  BY <1>h DEF ActorsOK, GateOK
<1>u. {"queued", "gave_up", "calling", "snapshot", "routing", "provisioning", "applying", "ended"}
        \subseteq Unpromising
  BY DEF Unpromising, Stages
<1>1. CASE BacksOff(a)
  <2>1. Moves(a, Unpromising)
    BY <1>1, <1>u, GotoUnpromising, EndsUnpromising, ResetMoves DEF BacksOff, Unpromising, Stages, Moves
  <2> QED  BY <1>1, <2>1, UnpromisingMove, WorkerSame DEF BacksOff, world, stores
<1>2. CASE Starts(a)
  <2> DEFINE s == FirstStage(request[a].op)
             v == RouteRequired(request[a].op)
             r == [request[a] EXCEPT !.stage = s, !.route = v]
  <2>1. s \in {"power", "revoking", "provisioning", "setting"} /\ v \in BOOLEAN
    BY <1>2 DEF Starts, FirstStage, RouteRequired, ActorTypes, Requests, Kinds
  <2>2. request' = [request EXCEPT ![a] = r]
    BY <1>2 DEF Starts
  <2> HIDE DEF s, v
  <2>3. r \in Requests /\ r.stage = s
    BY <2>1 DEF ActorTypes, Requests, Stages
  <2> HIDE DEF r
  <2>4. Moves(a, {s})
    BY <2>2, <2>3 DEF Moves, ActorTypes
  <2>5. worker'[a] = "none" /\ OwnWorker(a)
    BY <1>2, NoWorker, WorkerSame DEF Starts, Active, Busy
  <2>6. RemovalAt(a)'
    BY <2>1, <2>4, <2>5 DEF RemovalAt, Moves
  <2>7. UNCHANGED <<bluez, late, credential>>
    BY <1>2 DEF Starts, world, stores
  <2>8. /\ bluez'.bonded => bluez'.known
        /\ credential' => bluez'.bonded
        /\ credential' => credential
        /\ bluez'.bonded => bluez.bonded
        /\ "remove" \in late' => ~credential'
    BY <2>7, Zenon DEF RemovalOK
  <2> QED  BY <2>4, <2>5, <2>6, <2>7, <2>8, OthersRemoval
<1>3. CASE FindsNothing(a)
  BY <1>3, UnpromisingMove, WorkerSame, FailsUnpromising DEF FindsNothing, world, stores
<1>4. CASE Power(a)
  <2>1. Moves(a, Unpromising) /\ OwnWorker(a)
    BY <1>4, <1>u, FailsUnpromising, GotoUnpromising, WorkerSame DEF Power, Holding
  <2>2. /\ bluez'.bonded = bluez.bonded
        /\ bluez'.known = bluez.known
        /\ UNCHANGED <<late, credential>>
    BY <1>4 DEF Power, RadioTypes, BluezStates, stores
  <2>3. RemovalAt(a)'
    BY <2>1 DEF Moves, RemovalAt, Unpromising
  <2> QED  BY <2>1, <2>2, <2>3, OthersRemoval DEF RemovalOK
<1>5. CASE Spawns(a)
  <2>1. UNCHANGED <<bluez, late, credential, request>>
    BY <1>5 DEF Spawns, world, stores
  <2>2. Moves(a, Stages) /\ OwnWorker(a) /\ worker'[a] # "ok"
    BY <1>5, <2>1, WorkerDone DEF Spawns, Moves, ActorTypes, Requests, Workers, Busy
  <2>3. RemovalAt(a)'
    BY <1>5, <2>1, <2>2 DEF Spawns, RemovalAt
  <2> QED  BY <2>1, <2>2, <2>3, OthersRemoval DEF RemovalOK
<1>6. CASE Revoked(a)
  <2>1. UNCHANGED <<bluez, late, credential>> /\ OwnWorker(a)
    BY <1>6, WorkerDone DEF Revoked, world, stores, Workers
  <2>2. CASE Fails(a)
    BY <1>6, <2>1, <2>2, FailsUnpromising, UnpromisingMove DEF Revoked, Holding
  <2>3. CASE worker[a] = "ok" /\ \E s \in {"disconnecting", "removing"} : Goto(a, s)
    <3>1. ~credential
      BY <1>6, <2>3 DEF Revoked, RemovalOK, RemovalAt
    <3>2. Moves(a, {"disconnecting", "removing"})
      BY <2>3, GotoMoves DEF Moves, Stages
    <3>3. RemovalAt(a)'
      BY <2>1, <3>1, <3>2 DEF RemovalAt, Moves
    <3> QED  BY <2>1, <3>2, <3>3, OthersRemoval DEF RemovalOK
  <2> QED  BY <1>6, <2>2, <2>3 DEF Revoked
<1>7. CASE Answered(a)
  <2>1. AfterCall(a) \in {"provisioning", "routing", "snapshot"}
    BY DEF AfterCall
  <2>2. Moves(a, Unpromising) /\ OwnWorker(a)
    BY <1>7, <1>u, <2>1, FailsUnpromising, GotoUnpromising, WorkerSame DEF Answered, Holding
  <2>3. gate = a
    BY <1>7, <1>h DEF Answered, Holding
  <2>4. /\ bluez'.bonded => bluez'.known
        /\ bluez.bonded => bluez'.bonded
        /\ UNCHANGED credential
    BY <1>7 DEF Answered, Accepts, Effect, RadioTypes, BluezStates, RemovalOK, stores
  <2>5. RemovalAt(a)'
    BY <2>2 DEF Moves, RemovalAt, Unpromising
  <2>6. "remove" \in late' => "remove" \in late
    BY <1>7 DEF Answered, ActorsOK, StageOK
  <2> QED  BY <2>2, <2>3, <2>4, <2>5, <2>6, OthersRemoval DEF RemovalOK
<1>8. CASE Disconnects(a)
  <2>1. /\ bluez'.bonded = bluez.bonded
        /\ bluez'.known = bluez.known
        /\ UNCHANGED <<late, credential>>
    BY <1>8 DEF Disconnects, RadioTypes, BluezStates, stores
  <2>2. OwnWorker(a)
    BY <1>8, WorkerSame DEF Disconnects
  <2>3. CASE Moves(a, Unpromising)
    <3>1. RemovalAt(a)'
      BY <2>3 DEF Moves, RemovalAt, Unpromising
    <3> QED  BY <2>1, <2>2, <2>3, <3>1, OthersRemoval DEF RemovalOK
  <2>4. CASE request[a].op = "remove" /\ Goto(a, "removing")
    <3>1. request[a].stage = "disconnecting" /\ ~credential
      BY <1>8, <2>4 DEF Disconnects, ActorsOK, StageOK, RemovalOK, RemovalAt
    <3>2. Moves(a, {"removing"})
      BY <2>4, GotoMoves DEF Stages
    <3>3. RemovalAt(a)'
      BY <2>1, <3>1, <3>2 DEF RemovalAt, Moves
    <3> QED  BY <2>1, <2>2, <3>2, <3>3, OthersRemoval DEF RemovalOK
  <2> QED  BY <1>8, <1>u, <2>3, <2>4, FailsUnpromising, GotoUnpromising DEF Disconnects, Holding
<1>9. CASE Removes(a)
  <2>1. OwnWorker(a) /\ UNCHANGED credential /\ gate = a /\ ~credential
    BY <1>9, <1>h, WorkerSame DEF Removes, stores, Holding, RemovalOK, RemovalAt
  <2>2. CASE Fails(a) /\ UNCHANGED world
    BY <1>9, <2>1, <2>2, FailsUnpromising, UnpromisingMove DEF Removes, Holding, world
  <2>3. CASE /\ bluez' = Removed
             /\ late' = {}
             /\ Goto(a, "forget")
    <3>1. Moves(a, {"forget"})
      BY <2>3, GotoMoves DEF Stages
    <3>2. ~bluez'.bonded /\ late' = {}
      BY <2>3 DEF RadioTypes, BluezStates, Removed
    <3>3. RemovalAt(a)'
      BY <2>1, <3>1, <3>2 DEF RemovalAt, Moves
    <3> QED  BY <2>1, <3>1, <3>2, <3>3, OthersRemoval
  <2> QED  BY <1>9, <2>2, <2>3 DEF Removes
<1>10. CASE Provisions(a)
  <2>1. OwnWorker(a) /\ UNCHANGED world /\ gate = a
    BY <1>10, <1>h, WorkerSame DEF Provisions, Holding
  <2>2. Moves(a, Unpromising)
    BY <1>10, <1>u, FailsUnpromising, GotoUnpromising DEF Provisions, Holding
  <2>3. credential' => bluez'.bonded
    BY <1>10, <2>1, Zenon DEF Provisions, RemovalOK, world
  <2>4. RemovalAt(a)'
    BY <2>2 DEF Moves, RemovalAt, Unpromising
  <2>5. bluez'.bonded => bluez'.known
    BY <2>1 DEF world, RemovalOK
  <2>6. "remove" \in late' => ~credential'
    BY <1>10, <2>1, Zenon DEF Provisions, RemovalOK, world
  <2> QED  BY <2>1, <2>2, <2>3, <2>4, <2>5, <2>6, OthersRemoval
<1>11. CASE Routed(a)
  <2>1. OwnWorker(a) /\ UNCHANGED <<bluez, late, credential>>
    BY <1>11, WorkerDone DEF Routed, Workers, world, stores
  <2>2. Moves(a, Unpromising)
    <3>1. CASE UNCHANGED request
      BY <1>11, <3>1 DEF Moves, ActorTypes, Routed, Unpromising, Stages
    <3> QED  BY <1>11, <1>u, <3>1, FailsUnpromising, GotoUnpromising DEF Routed, Holding
  <2> QED  BY <2>1, <2>2, UnpromisingMove
<1>12. CASE Forgets(a)
  BY <1>12, <1>u, UnpromisingMove, WorkerSame, GotoUnpromising DEF Forgets, world
<1>13. CASE Snapshots(a)
  BY <1>13, UnpromisingMove, WorkerSame, FailsUnpromising, EndsUnpromising DEF Snapshots, world, Holding
<1>14. CASE SetsPolicy(a)
  BY <1>14, UnpromisingMove, WorkerSame, EndsUnpromising DEF SetsPolicy, world
<1>15. CASE Probes(a)
  <2>1. OwnWorker(a)
    BY <1>15, WorkerDone, WorkerSame DEF Probes, Workers, Busy
  <2> QED  BY <1>15, <1>u, <2>1, UnpromisingMove, FailsUnpromising, GotoUnpromising DEF Probes, world, stores
<1>16. CASE Applied(a)
  BY <1>16, UnpromisingMove, WorkerDone, EndsUnpromising DEF Applied, world, stores, Workers
<1> QED  BY <1>1, <1>2, <1>3, <1>4, <1>5, <1>6, <1>7, <1>8, <1>9, <1>10, <1>11, <1>12, <1>13,
            <1>14, <1>15, <1>16 DEF Step

(* And so does every step of anybody.                                      *)
LEMMA NextKeepsRemoval ==
  ASSUME RadioTypes, ActorTypes, ActorsOK, RemovalOK, [DeviceNext]_deviceVars
  PROVE  RemovalOK'
<1>1. CASE UNCHANGED <<bluez, late, credential, request, worker>>
  BY <1>1 DEF RemovalOK, RemovalAt
<1>2. ASSUME NEW u \in Users, NEW op \in Operations[u], Begin(u, op)
      PROVE  RemovalOK'
  <2>1. u \in Actors /\ op \in Kinds
    BY ActorsAssumption DEF Actors
  <2> DEFINE r == [IdleRequest EXCEPT !.op = op, !.stage = "queued"]
  <2>2. r \in Requests /\ r.stage = "queued"
    BY <2>1, FreshRequest DEF Stages
  <2> HIDE DEF r
  <2>3. request' = [request EXCEPT ![u] = r] /\ UNCHANGED <<bluez, late, credential, worker>>
    BY <1>2 DEF Begin, r, world, stores
  <2>4. Moves(u, Unpromising)
    BY <2>1, <2>2, <2>3 DEF Moves, ActorTypes, Unpromising, Stages
  <2> QED  BY <2>1, <2>3, <2>4, WorkerSame, UnpromisingMove
<1>3. ASSUME NEW a \in Actors, WorkerEnds(a) PROVE RemovalOK'
  <2>1. PICK result \in {"ok", "failed", "again"} :
               /\ worker' = [worker EXCEPT ![a] = IF Active(a) THEN result ELSE "none"]
               /\ credential' = (credential /\ ~(worker[a] = "revoking" /\ result = "ok"))
    BY <1>3 DEF WorkerEnds
  <2>2. OwnWorker(a) /\ worker'[a] = IF Active(a) THEN result ELSE "none"
    BY <2>1, WorkerDone DEF Workers
  <2>3. UNCHANGED <<bluez, late, request>> /\ worker[a] \in Busy
    BY <1>3 DEF WorkerEnds, world
  <2>4. credential' => credential
    BY <2>1, Zenon
  <2>5. Moves(a, Stages)
    BY <2>3 DEF Moves, ActorTypes, Requests
  <2>6. worker'[a] = "ok" /\ request[a].stage = "revoking" => ~credential'
    BY <2>1, <2>2, <2>3 DEF ActorsOK, WorkerOK, Active, Busy
  <2>7. RemovalAt(a)'
    BY <2>3, <2>4, <2>6 DEF RemovalAt, RemovalOK
  <2> QED  BY <2>2, <2>3, <2>4, <2>5, <2>7, OthersRemoval DEF RemovalOK
<1>4. ASSUME NEW a \in Actors, Drop(a), UNCHANGED <<bluez, credential>> PROVE RemovalOK'
  <2>1. Moves(a, Unpromising)
    BY <1>4, ResetMoves DEF Drop, Moves, Unpromising, Stages
  <2>2. OwnWorker(a)
    BY <1>4 DEF Drop, OwnWorker, ActorTypes, Workers
  <2>3. CASE request[a].stage \notin {"calling", "removing"}
    <3>1. UNCHANGED late
      BY <1>4, <2>3 DEF Drop
    <3> QED  BY <1>4, <2>1, <2>2, <3>1, UnpromisingMove
  <2>4. CASE request[a].stage \in {"calling", "removing"}
    <3>1. gate = a
      BY <2>4 DEF ActorsOK, GateOK, Holding
    <3>2. "remove" \in late' => ~credential'
      <4>1. CASE request[a].stage = "calling"
        <5>1. late' = late \cup {request[a].op} /\ request[a].op \in {"pair", "connect"}
          BY <1>4, <4>1 DEF Drop, ActorsOK, StageOK
        <5>2. "remove" \in late' => "remove" \in late
          BY <5>1
        <5> QED  BY <1>4, <5>2, Zenon DEF RemovalOK
      <4>2. CASE request[a].stage = "removing"
        BY <1>4, <4>2, Zenon DEF RemovalOK, RemovalAt
      <4> QED  BY <2>4, <4>1, <4>2
    <3>3. RemovalAt(a)'
      BY <2>1 DEF Moves, RemovalAt, Unpromising
    <3>4. (bluez'.bonded => bluez'.known) /\ (credential' => bluez'.bonded)
      BY <1>4, Zenon DEF RemovalOK
    <3> QED  BY <2>1, <2>2, <3>1, <3>2, <3>3, <3>4, OthersRemoval
  <2> QED  BY <2>3, <2>4
<1>5. ASSUME NEW w \in Resumes, UNCHANGED <<worker, credential, late>>,
             bluez'.bonded = bluez.bonded, bluez'.known = bluez.known,
             request' = [request EXCEPT ![w] = [IdleRequest EXCEPT !.stage = "backoff"]]
      PROVE  RemovalOK'
  <2>1. w \in Actors /\ OwnWorker(w)
    BY <1>5, WorkerSame DEF Actors
  <2>2. Moves(w, {"backoff"})
    BY <1>5, <2>1, ResetMoves DEF Stages
  <2>3. RemovalAt(w)'
    BY <2>2 DEF RemovalAt, Moves
  <2> QED  BY <1>5, <2>1, <2>2, <2>3, OthersRemoval DEF RemovalOK
<1>6. ASSUME bluez'.bonded = bluez.bonded, bluez'.bonded => bluez'.known,
             UNCHANGED <<late, credential, request, worker>>
      PROVE  RemovalOK'
  BY <1>6 DEF RemovalOK, RemovalAt
<1>7. CASE Monitor
  <2>1. CASE MonitorReads \/ MonitorRemembers
    BY <2>1, <1>1 DEF MonitorReads, MonitorRemembers, world, stores
  <2>2. CASE MonitorRestores
    <3>1. bluez'.bonded = bluez.bonded /\ bluez'.known = bluez.known
      BY <2>2 DEF MonitorRestores, RadioTypes, BluezStates
    <3> QED  BY <2>2, <3>1, <1>5, <1>6 DEF MonitorRestores, stores, RemovalOK
  <2> QED  BY <1>7, <2>1, <2>2 DEF Monitor
<1>8. CASE LateEnds
  <2>1. PICK op \in late : bluez' \in {bluez, IF Accepts(op) THEN Effect(op) ELSE bluez}
                           /\ late' = late \ {op}
    BY <1>8 DEF LateEnds
  <2>2. UNCHANGED <<credential, request, worker>>
    BY <1>8 DEF LateEnds, stores
  <2>3. bluez'.bonded = bluez.bonded \/ ("pair" \in late /\ bluez'.bonded = TRUE)
    BY <2>1 DEF Effect, RadioTypes, BluezStates
  <2>4. bluez'.bonded => bluez'.known
    BY <2>1 DEF Effect, Accepts, RadioTypes, BluezStates, RemovalOK
  <2> QED  BY <2>1, <2>2, <2>3, <2>4 DEF RemovalOK, RemovalAt
<1>9. CASE LinkLost \/ PowersOff \/ Discovered \/ Expires
  <2>1. bluez'.bonded = bluez.bonded /\ (bluez'.bonded => bluez'.known)
    BY <1>9 DEF LinkLost, PowersOff, Discovered, Expires, RadioTypes, BluezStates, RemovalOK
  <2> QED  BY <1>9, <2>1, <1>6 DEF LinkLost, PowersOff, Discovered, Expires, stores
<1>10. CASE LogindSignals \/ UNCHANGED deviceVars
  BY <1>10, <1>1 DEF LogindSignals, deviceVars, world, stores
<1>11. Users \subseteq Actors /\ Resumes \subseteq Actors
  BY DEF Actors
<1>12. CASE (\E u \in Users : Cancel(u)) \/ (\E w \in Resumes : SleepDrops(w))
  BY <1>12, <1>4, <1>11 DEF Cancel, SleepDrops, stores
<1>13. CASE LateRemoval
  <2>1. UNCHANGED <<credential, request, worker>> /\ ~credential /\ late' \subseteq late
    BY <1>13 DEF LateRemoval, stores, RemovalOK
  <2>2. bluez' = bluez \/ ~bluez'.bonded
    BY <1>13 DEF LateRemoval, Removed, RadioTypes, BluezStates
  <2> QED  BY <2>1, <2>2 DEF RemovalOK, RemovalAt
<1> QED  BY <1>2, <1>3, <1>7, <1>8, <1>9, <1>10, <1>12, <1>13, StepKeepsRemoval DEF DeviceNext

-----------------------------------------------------------------------------
(* The invariant holds when the daemon starts.                             *)
LEMMA InitDeviceIInv == DeviceInit => DeviceIInv
<1> SUFFICES ASSUME DeviceInit PROVE DeviceIInv
  OBVIOUS
<1>1. PICK bonded \in BOOLEAN :
        /\ bluez = [known |-> TRUE, bonded |-> bonded, connected |-> bonded, powered |-> TRUE]
        /\ credential = bonded
        /\ runtime = [powered |-> TRUE, connected |-> bonded]
  BY DEF DeviceInit
<1>2. RadioTypes
  BY <1>1 DEF DeviceInit, RadioTypes, BluezStates, RuntimeStates
<1>3. IdleRequest \in Requests
  BY DEF IdleRequest, Requests, Kinds, Stages
<1>4. ActorTypes
  BY <1>3 DEF DeviceInit, ActorTypes, Workers
<1>5. \A a \in Actors : request[a].stage = "idle" /\ worker[a] = "none"
  BY DEF DeviceInit, IdleRequest
<1>6. ActorsOK
  BY <1>5 DEF ActorsOK, WorkerOK, GateOK, StageOK, Removing, Holding, Busy
<1>7. RemovalOK
  <2>1. "remove" \notin late
    BY DEF DeviceInit
  <2>2. \A a \in Actors : RemovalAt(a)
    BY <1>5 DEF RemovalAt
  <2>3. (bluez.bonded => bluez.known) /\ (credential => bluez.bonded)
    BY <1>1
  <2> QED  BY <2>1, <2>2, <2>3, Zenon DEF RemovalOK
<1> QED  BY <1>2, <1>4, <1>6, <1>7 DEF DeviceIInv

(***************************************************************************)
(* For any number of requests, resumes and faults, DeviceIInv always       *)
(* holds: a worker belongs to the stage its request is in, one request at  *)
(* a time is past the device's gate, and each step of a removal finds what *)
(* the one before it has done.                                             *)
(***************************************************************************)
THEOREM DeviceInvariant == DeviceSpec => []DeviceIInv
<1>1. DeviceIInv /\ [DeviceNext]_deviceVars => DeviceIInv'
  BY NextKeepsRadioTypes, NextKeepsActors, NextKeepsRemoval DEF DeviceIInv
<1> QED  BY <1>1, InitDeviceIInv, PTL DEF DeviceSpec

(***************************************************************************)
(* For any number of requests and faults, RemoveIsRetryable always holds:  *)
(* a stored account key belongs to a device that BlueZ still has bonded,   *)
(* so Forget can be asked for again, whatever failed, was cancelled or     *)
(* arrived late before (revoke_credentials).                               *)
(***************************************************************************)
THEOREM RemovalRetryable == DeviceSpec => []RemoveIsRetryable
<1>1. DeviceIInv => RemoveIsRetryable
  BY Zenon DEF DeviceIInv, RemovalOK, RemoveIsRetryable
<1> QED  BY <1>1, DeviceInvariant, PTL

(***************************************************************************)
(* For any number of requests, AudioSerialized always holds: PipeWire is   *)
(* changed for the device by one worker at a time, except while the worker *)
(* of a cancelled connect or pair is still at it (route_audio).            *)
(***************************************************************************)
THEOREM AudioChangesSerialized == DeviceSpec => []AudioSerialized
<1>1. DeviceIInv => AudioSerialized
  <2> SUFFICES ASSUME DeviceIInv, NEW a \in Actors, NEW b \in Actors, a # b,
                      worker[a] \in {"routing", "applying"}, worker[b] \in {"routing", "applying"},
                      \A c \in {a, b} : ~(worker[c] = "routing" /\ ~Active(c))
               PROVE  FALSE
    BY DEF AudioSerialized
  <2>1. ASSUME NEW c \in {a, b} PROVE gate = c
    BY <2>1 DEF DeviceIInv, ActorsOK, WorkerOK, GateOK, Busy, Holding
  <2> QED  BY <2>1
<1> QED  BY <1>1, DeviceInvariant, PTL

(***************************************************************************)
(* ForgetsOnlyRemoved, for any number of requests and faults: local state  *)
(* is dropped only for a device whose bond and credentials are gone        *)
(* (execute).                                                              *)
(***************************************************************************)
THEOREM ForgettingFollowsRemoval == DeviceSpec => ForgetsOnlyRemoved
<1>1. DeviceIInv /\ [DeviceNext]_deviceVars => [local /\ ~local' => ~bluez.bonded /\ ~credential]_deviceVars
  <2> SUFFICES ASSUME DeviceIInv, DeviceNext, local, ~local'
               PROVE  ~bluez.bonded /\ ~credential
    OBVIOUS
  <2>1. CASE \E a \in Actors : Forgets(a)
    BY <2>1 DEF Forgets, DeviceIInv, RemovalOK, RemovalAt
  <2>2. CASE \E a \in Actors : Snapshots(a)
    BY <2>2, Zenon DEF Snapshots
  <2>3. ASSUME NEW a \in Actors,
              \/ BacksOff(a) \/ Starts(a) \/ FindsNothing(a) \/ Power(a) \/ Spawns(a) \/ Revoked(a)
              \/ Answered(a) \/ Disconnects(a) \/ Removes(a)
              \/ Provisions(a) \/ Routed(a) \/ SetsPolicy(a) \/ Probes(a) \/ Applied(a)
              \/ WorkerEnds(a)
       PROVE  UNCHANGED local
    BY <2>3, Zenon DEF BacksOff, Starts, FindsNothing, Power, Spawns, Revoked, Answered, Disconnects,
       Removes, Provisions, Routed, SetsPolicy, Probes, Applied, WorkerEnds, stores
  <2>4. ASSUME \/ \E u \in Users : Cancel(u) \/ \E op \in Operations[u] : Begin(u, op)
               \/ \E w \in Resumes : SleepDrops(w)
               \/ LogindSignals \/ Monitor \/ LateEnds \/ LateRemoval \/ LinkLost \/ PowersOff \/ Discovered \/ Expires
        PROVE  UNCHANGED local
    BY <2>4, Zenon DEF Cancel, Begin, SleepDrops, LogindSignals, Monitor, MonitorReads, MonitorRemembers,
       MonitorRestores, LateEnds, LateRemoval, LinkLost, PowersOff, Discovered, Expires, stores
  <2> QED  BY <2>1, <2>2, <2>3, <2>4 DEF DeviceNext, Step
<1> QED  BY <1>1, DeviceInvariant, PTL DEF DeviceSpec, ForgetsOnlyRemoved

-----------------------------------------------------------------------------
(* The types of what is stored about the device.                           *)
StoreTypes == credential \in BOOLEAN /\ local \in BOOLEAN /\ policy \in SUBSET Overrides

(* The types of what suspends and resumes go through, and of the bound.    *)
LifecycleTypes ==
  /\ sleeping \in BOOLEAN
  /\ signals \in Seq(BOOLEAN)
  /\ monitor \in {"idle", "remember", "restore"}

FaultTypes == faults \in 0 .. MaxFaults

(* One more disturbance, if there may be one.                              *)
LEMMA FaultCounts ==
  ASSUME FaultTypes,
         Fault \/ NoFault \/ (faults' = faults + 1 /\ faults < MaxFaults)
  PROVE  FaultTypes'
BY BoundsAssumption DEF FaultTypes, Fault, NoFault

(* Steps of requests, workers, logind and BlueZ stay within the bound; a   *)
(* save that is lost is one of them.                                       *)
LEMMA NextKeepsFaults ==
  ASSUME FaultTypes, [DeviceNext]_deviceVars
  PROVE  FaultTypes'
<1>1. ASSUME UNCHANGED faults PROVE FaultTypes'
  BY <1>1 DEF FaultTypes
<1>2. ASSUME NEW a \in Actors, Forgets(a) PROVE FaultTypes'
  <2>1. CASE policy' = {}
    BY <1>1, <1>2, <2>1 DEF Forgets
  <2>2. CASE policy' # {}
    <3>1. faults < MaxFaults /\ faults' = faults + 1
      BY <1>2, <2>2 DEF Forgets, Saved
    <3> QED  BY <3>1, FaultCounts
  <2> QED  BY <2>1, <2>2
<1>3. ASSUME NEW a \in Actors, Snapshots(a) PROVE FaultTypes'
  <2>1. CASE Fault
    BY <2>1, FaultCounts
  <2>2. CASE /\ runtime' \in Saved(runtime, Seen)
             /\ faults' = IF runtime' # Seen THEN faults + 1 ELSE faults
    <3>1. CASE runtime' = Seen
      BY <1>1, <2>2, <3>1
    <3>2. CASE runtime' # Seen
      <4>1. faults < MaxFaults /\ faults' = faults + 1
        BY <2>2, <3>2 DEF Saved
      <4> QED  BY <4>1, FaultCounts
    <3> QED  BY <3>1, <3>2
  <2> QED  BY <1>3, <2>1, <2>2 DEF Snapshots
<1>4. ASSUME NEW a \in Actors,
             \/ BacksOff(a) \/ Answered(a) \/ Disconnects(a) \/ Removes(a) \/ WorkerEnds(a)
             \/ LogindSignals \/ MonitorRemembers \/ MonitorRestores
      PROVE  FaultTypes'
  <2>1. Fault \/ NoFault
    BY <1>4, Zenon DEF BacksOff, Answered, Disconnects, Removes, WorkerEnds, LogindSignals,
       MonitorRemembers, MonitorRestores
  <2> QED  BY <2>1, FaultCounts
<1>5. ASSUME NEW a \in Actors,
             \/ Starts(a) \/ FindsNothing(a) \/ Power(a) \/ Spawns(a) \/ Revoked(a) \/ Provisions(a)
             \/ Routed(a) \/ SetsPolicy(a) \/ Probes(a) \/ Applied(a)
      PROVE  UNCHANGED faults
  BY <1>5, Zenon DEF Starts, FindsNothing, Power, Spawns, Revoked, Provisions, Routed, SetsPolicy,
     Probes, Applied
<1>6. ASSUME \/ \E u \in Users : Cancel(u) \/ \E op \in Operations[u] : Begin(u, op)
             \/ \E w \in Resumes : SleepDrops(w)
             \/ MonitorReads \/ LateEnds \/ LateRemoval \/ LinkLost \/ PowersOff \/ Discovered \/ Expires
             \/ UNCHANGED deviceVars
      PROVE  UNCHANGED faults
  BY <1>6, Zenon DEF Cancel, Begin, SleepDrops, MonitorReads, LateEnds, LateRemoval, LinkLost, PowersOff,
     Discovered, Expires, deviceVars
<1>7. CASE LogindSignals \/ MonitorRemembers \/ MonitorRestores
  <2>1. Fault \/ NoFault
    BY <1>7, Zenon DEF LogindSignals, MonitorRemembers, MonitorRestores
  <2> QED  BY <2>1, FaultCounts
<1> QED  BY <1>1, <1>2, <1>3, <1>4, <1>5, <1>6, <1>7 DEF DeviceNext, Step, Monitor

(* What is stored stays of its type.                                       *)
LEMMA NextKeepsStores ==
  ASSUME RadioTypes, StoreTypes, [DeviceNext]_deviceVars
  PROVE  StoreTypes'
<1>1. ASSUME UNCHANGED <<credential, local, policy>> PROVE StoreTypes'
  BY <1>1 DEF StoreTypes
<1>2. ASSUME NEW a \in Actors, Provisions(a) PROVE StoreTypes'
  BY <1>2, Zenon DEF Provisions, StoreTypes
<1>3. ASSUME NEW a \in Actors, Forgets(a) PROVE StoreTypes'
  <2>1. policy' \in SUBSET Overrides
    BY <1>3 DEF Forgets, Saved, StoreTypes
  <2> QED  BY <1>3, <2>1, Zenon DEF Forgets, StoreTypes
<1>4. ASSUME NEW a \in Actors, Snapshots(a) PROVE StoreTypes'
  BY <1>4, Zenon DEF Snapshots, StoreTypes
<1>5. ASSUME NEW a \in Actors, SetsPolicy(a) PROVE StoreTypes'
  BY <1>5, Zenon DEF SetsPolicy, StoreTypes
<1>6. ASSUME NEW a \in Actors, WorkerEnds(a) PROVE StoreTypes'
  <2>1. policy' = policy \/ policy' = policy \cup {"profile"}
    BY <1>6 DEF WorkerEnds
  <2>2. policy' \in SUBSET Overrides
    BY <2>1 DEF StoreTypes, Overrides
  <2>3. credential' \in BOOLEAN /\ UNCHANGED local
    BY <1>6, Zenon DEF WorkerEnds
  <2> QED  BY <2>2, <2>3, Zenon DEF StoreTypes
<1>7. ASSUME NEW a \in Actors,
             \/ BacksOff(a) \/ Starts(a) \/ FindsNothing(a) \/ Power(a) \/ Spawns(a) \/ Revoked(a)
             \/ Answered(a) \/ Disconnects(a) \/ Removes(a) \/ Routed(a) \/ Probes(a) \/ Applied(a)
      PROVE  UNCHANGED <<credential, local, policy>>
  BY <1>7, Zenon DEF BacksOff, Starts, FindsNothing, Power, Spawns, Revoked, Answered, Disconnects,
     Removes, Routed, Probes, Applied, stores
<1>8. ASSUME \/ \E u \in Users : Cancel(u) \/ \E op \in Operations[u] : Begin(u, op)
             \/ \E w \in Resumes : SleepDrops(w)
             \/ LogindSignals \/ MonitorReads \/ MonitorRemembers \/ MonitorRestores
             \/ LateEnds \/ LateRemoval \/ LinkLost \/ PowersOff \/ Discovered \/ Expires
             \/ UNCHANGED deviceVars
      PROVE  UNCHANGED <<credential, local, policy>>
  BY <1>8, Zenon DEF Cancel, Begin, SleepDrops, LogindSignals, MonitorReads, MonitorRemembers,
     MonitorRestores, LateEnds, LateRemoval, LinkLost, PowersOff, Discovered, Expires, deviceVars, stores
<1> QED  BY <1>1, <1>2, <1>3, <1>4, <1>5, <1>6, <1>7, <1>8 DEF DeviceNext, Step, Monitor

(* What suspends and resumes go through stays of its type.                 *)
LEMMA NextKeepsLifecycle ==
  ASSUME LifecycleTypes, [DeviceNext]_deviceVars
  PROVE  LifecycleTypes'
<1>1. ASSUME UNCHANGED lifecycle PROVE LifecycleTypes'
  BY <1>1 DEF LifecycleTypes, lifecycle
<1>2. CASE LogindSignals
  <2> DEFINE asleep == IF signals = <<>> THEN sleeping ELSE signals[Len(signals)]
  <2>1. (~asleep) \in BOOLEAN
    OBVIOUS
  <2> HIDE DEF asleep
  <2>2. signals' = Append(signals, ~asleep) /\ UNCHANGED <<sleeping, monitor>>
    BY <1>2, Zenon DEF LogindSignals, asleep
  <2>3. signals' \in Seq(BOOLEAN)
    BY <2>1, <2>2 DEF LifecycleTypes
  <2> QED  BY <2>2, <2>3, Zenon DEF LifecycleTypes
<1>3. CASE MonitorReads
  <2>1. ASSUME NEW S, NEW q \in Seq(S), q # <<>> PROVE Head(q) \in S /\ Tail(q) \in Seq(S)
    BY <2>1
  <2>2. Head(signals) \in BOOLEAN /\ Tail(signals) \in Seq(BOOLEAN)
    BY <1>3, <2>1, Zenon DEF MonitorReads, LifecycleTypes
  <2>3. monitor' \in {"idle", "remember", "restore"}
    BY <1>3, Zenon DEF MonitorReads
  <2> QED  BY <1>3, <2>2, <2>3, Zenon DEF MonitorReads, LifecycleTypes
<1>4. CASE MonitorRemembers \/ MonitorRestores
  BY <1>4, Zenon DEF MonitorRemembers, MonitorRestores, LifecycleTypes
<1>5. ASSUME NEW a \in Actors, Step(a) \/ WorkerEnds(a) PROVE UNCHANGED lifecycle
  BY <1>5, Zenon DEF Step, BacksOff, Starts, FindsNothing, Power, Spawns, Revoked, Answered,
     Disconnects, Removes, Provisions, Routed, Forgets, Snapshots, SetsPolicy, Probes, Applied,
     WorkerEnds
<1>6. ASSUME \/ \E u \in Users : Cancel(u) \/ \E op \in Operations[u] : Begin(u, op)
             \/ \E w \in Resumes : SleepDrops(w)
             \/ LateEnds \/ LateRemoval \/ LinkLost \/ PowersOff \/ Discovered \/ Expires
             \/ UNCHANGED deviceVars
      PROVE  UNCHANGED lifecycle
  BY <1>6, Zenon DEF Cancel, Begin, SleepDrops, LateEnds, LateRemoval, LinkLost, PowersOff, Discovered, Expires,
     deviceVars, lifecycle
<1> QED  BY <1>1, <1>2, <1>3, <1>4, <1>5, <1>6 DEF DeviceNext, Monitor

(***************************************************************************)
(* DeviceTypeOK always holds, for any number of requests, resumes and      *)
(* faults: no save, removal or resume leaves a policy, a remembered state  *)
(* or a retry counter out of its range.                                    *)
(***************************************************************************)
THEOREM DeviceTypeCorrect == DeviceSpec => []DeviceTypeOK
<1> DEFINE Rest == StoreTypes /\ LifecycleTypes /\ FaultTypes
<1>1. DeviceInit => Rest
  <2> SUFFICES ASSUME DeviceInit PROVE Rest
    OBVIOUS
  <2>1. StoreTypes
    <3>1. policy \in SUBSET Overrides
      BY DEF DeviceInit, Overrides
    <3> QED  BY <3>1, Zenon DEF DeviceInit, StoreTypes
  <2>2. LifecycleTypes
    <3>1. <<>> \in Seq(BOOLEAN)
      OBVIOUS
    <3> QED  BY <3>1, Zenon DEF DeviceInit, LifecycleTypes
  <2>3. FaultTypes
    BY BoundsAssumption DEF DeviceInit, FaultTypes
  <2> QED  BY <2>1, <2>2, <2>3
<1>2. DeviceIInv /\ Rest /\ [DeviceNext]_deviceVars => Rest'
  BY NextKeepsStores, NextKeepsLifecycle, NextKeepsFaults DEF DeviceIInv
<1>3. DeviceIInv /\ Rest => DeviceTypeOK
  BY Zenon DEF DeviceIInv, RadioTypes, ActorTypes, StoreTypes, LifecycleTypes, FaultTypes,
     DeviceTypeOK, BluezStates, RuntimeStates, Requests
<1> HIDE DEF Rest
<1> QED  BY <1>1, <1>2, <1>3, DeviceInvariant, PTL DEF DeviceSpec
=============================================================================
