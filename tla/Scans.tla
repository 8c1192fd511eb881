-------------------------------- MODULE Scans --------------------------------
(***************************************************************************)
(* Discovery leases: the scan coordinator (src/src/daemon/scan.rs) over    *)
(* the discovery sessions of the BlueZ backend (src/src/bluez.rs).         *)
(*                                                                         *)
(* A scan leases the adapters that were seen discovering when it started.  *)
(* Starting, stopping and timing out hold the `transition' mutex across    *)
(* several backend calls; `call' is the holder and how far it has got.     *)
(* Power changes and hotplug do not take that mutex and may happen between *)
(* any two backend calls.                                                  *)
(*                                                                         *)
(* Abstracted: timeout lengths (a timer may fire at any time), snapshots   *)
(* other than their adapters' powered and discovering flags, error texts.  *)
(* Discovery by other BlueZ clients is not modelled.                       *)
(***************************************************************************)
EXTENDS Naturals, Sequences, FiniteSets

CONSTANTS
  Scans,     \* scan-<n> identifiers, never reused
  Owners,    \* callers
  Adapters,  \* opaque adapter keys
  Global     \* the adapter_key of a request that names no adapter

ASSUME GlobalAssumption == Global \notin Adapters

ASSUME OwnersAssumption == Owners # {}

VARIABLES
  leases,    \* ids in ScanCoordinator::tasks
  keys,      \* keys[s]: the adapter_keys of s while it holds its lease
  owner,     \* owner[s]
  timer,     \* timer[s]: the scan-timeout task of s
  sent,      \* sent[s]: what the broadcast channel was given about s
  call,      \* the holder of ScanCoordinator::transition
  radio,     \* radio[a]: what BlueZ says about adapter a
  session,   \* session[a]: the entry of a in BluezBackend::discovery_tasks
  stopping   \* adapters whose power-off has still to call stop_discovery

vars == <<leases, keys, owner, timer, sent, call, radio, session, stopping>>
scanVars == <<leases, keys, owner, timer, sent>>

(***************************************************************************)
(* A timer still has the right to publish its terminal event while it is   *)
(* "sleeping" and has used it up when it is "retrying".                    *)
(***************************************************************************)
TimerState == {"none", "sleeping", "retrying", "done"}

(***************************************************************************)
(* A session's task runs in "live" and "left" (BlueZ discovers and says    *)
(* so) and in "stale" (power was lost: BlueZ forgot the session, the       *)
(* stream is open); it has finished in "ended".  "left" is "live", except  *)
(* for history no action reads: the start that opened the session was      *)
(* reported as failed without a rollback (SnapshotFails).                  *)
(***************************************************************************)
SessionState == {"none", "live", "left", "stale", "ended"}
Discovering(a) == session[a] \in {"live", "left"}
Unfinished(a) == session[a] \in {"live", "left", "stale"}

Terminal == {"completed", "failed", "cancelled"}

Call == [kind     : {"idle", "start", "rollback", "stop", "expire"},
         request  : Adapters \cup {Global},
         owner    : Owners,
         todo     : SUBSET Adapters,  \* adapters still to be visited
         started  : SUBSET Adapters,  \* sessions this start has opened
         eligible : {"no", "yes"},    \* whether a powered adapter was seen
         ids      : SUBSET Scans,     \* the scans a stop has selected
         result   : {"ok", "err"}]    \* what a stop will return

Idle == [kind |-> "idle", request |-> Global, owner |-> CHOOSE o \in Owners : TRUE,
         todo |-> {}, started |-> {}, eligible |-> "no",
         ids |-> {}, result |-> "ok"]

-----------------------------------------------------------------------------
Send(s, event) == sent' = [sent EXCEPT ![s] = Append(@, event)]

Issued == {s \in Scans : timer[s] # "none"}

(* Mutant: the stop list is not reduced by what other scans lease.         *)
SelectAllAdapters(ids) == UNION {keys[s] : s \in ids}

(* select_scans: the adapters of the selected scans that no other leases.  *)
AdaptersToStop(ids) ==
  (UNION {keys[s] : s \in ids}) \ (UNION {keys[s] : s \in leases \ ids})

(* powered_adapter_keys of a snapshot taken now.                           *)
PoweredAdapterKeys(request) ==
  {a \in Adapters : /\ radio[a] = "on"
                    /\ Discovering(a)
                    /\ request \in {Global, a}}

Init ==
  /\ leases = {}
  /\ keys = [s \in Scans |-> {}]
  /\ owner = [s \in Scans |-> Idle.owner]
  /\ timer = [s \in Scans |-> "none"]
  /\ sent = [s \in Scans |-> <<>>]
  /\ call = Idle
  /\ radio \in [Adapters -> {"absent", "off", "on"}]
  /\ session = [a \in Adapters |-> "none"]
  /\ stopping = {}

-----------------------------------------------------------------------------
(* adapters and find_adapter: the adapters BlueZ lists, or the one named.  *)
Found(request) == {a \in Adapters : radio[a] # "absent" /\ request \in {Global, a}}

(* start: take the mutex; set_scanning looks up the adapters to visit.     *)
StartCall(o, request) ==
  /\ call = Idle
  /\ Issued # Scans
  /\ Found(request) # {}
  /\ call' = [Idle EXCEPT !.kind = "start", !.request = request, !.owner = o,
                          !.todo = Found(request)]
  /\ UNCHANGED <<scanVars, radio, session, stopping>>

(* Mutant: a failed start leaves the sessions it opened running.           *)
DiscoverNoRollback(a) ==
  /\ call.kind = "start"
  /\ a \in call.todo
  /\ call' = Idle
  /\ UNCHANGED <<scanVars, radio, session, stopping>>

(* A failed read or StartDiscovery rolls back what this start opened.      *)
DiscoverFails(a) ==
  /\ call.kind = "start"
  /\ a \in call.todo
  /\ session' = [b \in Adapters |-> IF b \in call.started THEN "none" ELSE session[b]]
  /\ call' = Idle
  /\ UNCHANGED <<scanVars, radio, stopping>>

(* discover_powered_adapters, one adapter; start_discovery if it is on.    *)
Discover(a) ==
  /\ call.kind = "start"
  /\ a \in call.todo
  /\ radio[a] # "absent"
  /\ \/ /\ radio[a] = "off"
        /\ call' = [call EXCEPT !.todo = @ \ {a}]
        /\ UNCHANGED session
     \/ /\ radio[a] = "on"
        /\ Unfinished(a)
        /\ call' = [call EXCEPT !.todo = @ \ {a}, !.eligible = "yes"]
        /\ UNCHANGED session
     \/ /\ radio[a] = "on"
        /\ ~Unfinished(a)
        /\ call' = [call EXCEPT !.todo = @ \ {a}, !.eligible = "yes",
                                !.started = @ \cup {a}]
        /\ session' = [session EXCEPT ![a] = "live"]
  /\ UNCHANGED <<scanVars, radio, stopping>>

(* No powered adapter was found.                                           *)
StartFails ==
  /\ call.kind = "start"
  /\ call.todo = {}
  /\ call.eligible = "no"
  /\ call' = Idle
  /\ UNCHANGED <<scanVars, radio, session, stopping>>

(***************************************************************************)
(* Discovery was started, and set_scanning cannot build its snapshot: a    *)
(* D-Bus read fails, or an adapter goes away during the reads.  The error  *)
(* is reported and nothing is rolled back.                                 *)
(***************************************************************************)
SnapshotFails ==
  /\ call.kind = "start"
  /\ call.todo = {}
  /\ call.eligible = "yes"
  /\ call' = Idle
  /\ session' = [a \in Adapters |->
       IF a \in call.started /\ session[a] = "live" THEN "left" ELSE session[a]]
  /\ UNCHANGED <<scanVars, radio, stopping>>

(* The snapshot shows which adapters discover: lease those, if there are.  *)
StartConfirmed(s) ==
  /\ call.kind = "start"
  /\ call.todo = {}
  /\ call.eligible = "yes"
  /\ s \notin Issued
  /\ LET confirmed == PoweredAdapterKeys(call.request)
     IN  IF confirmed = {}
           THEN /\ call' = [call EXCEPT !.kind = "rollback"]
                /\ UNCHANGED scanVars
           ELSE /\ leases' = leases \cup {s}
                /\ keys' = [keys EXCEPT ![s] = confirmed]
                /\ owner' = [owner EXCEPT ![s] = call.owner]
                /\ timer' = [timer EXCEPT ![s] = "sleeping"]
                /\ Send(s, "started")
                /\ call' = Idle
  /\ UNCHANGED <<radio, session, stopping>>

(***************************************************************************)
(* set_scanning(adapter_key, false) after an unconfirmed start.  Stopping  *)
(* one adapter first looks it up, which may fail; only a warning is logged.*)
(***************************************************************************)
RollbackStart ==
  /\ call.kind = "rollback"
  /\ call' = Idle
  /\ session' \in
       IF call.request = Global
         THEN {[a \in Adapters |-> "none"]}
         ELSE {session} \cup (IF radio[call.request] # "absent"
                 THEN {[session EXCEPT ![call.request] = "none"]} ELSE {})
  /\ UNCHANGED <<scanVars, radio, stopping>>

-----------------------------------------------------------------------------
(* With no adapter to stop, stop_adapters still asks for a snapshot, which *)
(* may fail.                                                               *)
BeginStop(kind, ids) ==
  LET todo == AdaptersToStop(ids)
  IN  \E result \in {"ok"} \cup (IF todo = {} THEN {"err"} ELSE {}) :
        call' = [Idle EXCEPT !.kind = kind, !.ids = ids, !.todo = todo, !.result = result]

(***************************************************************************)
(* stop_selected: by request id (stop, stop_owner), by owner, or both.  An *)
(* empty selection is an error and changes nothing.                        *)
(***************************************************************************)
StopCall(ids) ==
  /\ call = Idle
  /\ ids # {}
  /\ \/ \E s \in leases : ids = {s}
     \/ \E o \in Owners : ids = {s \in leases : owner[s] = o}
  /\ BeginStop("stop", ids)
  /\ UNCHANGED <<scanVars, radio, session, stopping>>

(* scan-timeout: sleep over or retry due, mutex taken, the scan selected.  *)
TimerFires(s) ==
  /\ call = Idle
  /\ timer[s] \in {"sleeping", "retrying"}
  /\ s \in leases
  /\ BeginStop("expire", {s})
  /\ UNCHANGED <<scanVars, radio, session, stopping>>

(***************************************************************************)
(* stop_adapters, one adapter: every one is attempted, failures remembered.*)
(* Looking the adapter up may fail, and so may the snapshot that           *)
(* set_scanning builds after it has stopped the session.                   *)
(***************************************************************************)
StopAdapter(a) ==
  /\ call.kind \in {"stop", "expire"}
  /\ a \in call.todo
  /\ \/ /\ radio[a] # "absent"
        /\ session' = [session EXCEPT ![a] = "none"]
        /\ \E result \in {call.result, "err"} :
             call' = [call EXCEPT !.todo = @ \ {a}, !.result = result]
     \/ /\ call' = [call EXCEPT !.todo = @ \ {a}, !.result = "err"]
        /\ UNCHANGED session
  /\ UNCHANGED <<scanVars, radio, stopping>>

(* stop_selected: on success release, abort the timers and publish.        *)
StopDone ==
  /\ call.kind = "stop"
  /\ call.todo = {}
  /\ call' = Idle
  /\ IF call.result = "err"
       THEN UNCHANGED <<leases, timer, sent>>
       ELSE /\ leases' = leases \ call.ids
            /\ timer' = [s \in Scans |-> IF s \in call.ids THEN "done" ELSE timer[s]]
            /\ sent' = [s \in Scans |->
                 IF s \in call.ids THEN Append(sent[s], "cancelled") ELSE sent[s]]
  /\ keys' = [s \in Scans |-> IF s \in leases' THEN keys[s] ELSE {}]
  /\ UNCHANGED <<owner, radio, session, stopping>>

(* Mutant: a cleanup that failed is not retried.                           *)
ExpireDoneGivesUp(s) ==
  /\ call.kind = "expire"
  /\ call.ids = {s}
  /\ call.todo = {}
  /\ call' = Idle
  /\ leases' = IF call.result = "err" THEN leases ELSE leases \ {s}
  /\ keys' = IF call.result = "err" THEN keys ELSE [keys EXCEPT ![s] = {}]
  /\ timer' = [timer EXCEPT ![s] = "done"]
  /\ Send(s, IF call.result = "err" THEN "failed" ELSE "completed")
  /\ UNCHANGED <<owner, radio, session, stopping>>

(* scan-timeout after stop_adapters: the first round publishes a terminal  *)
(* event whatever the result; a failed round keeps the lease and retries.  *)
ExpireDone(s) ==
  /\ call.kind = "expire"
  /\ call.ids = {s}
  /\ call.todo = {}
  /\ call' = Idle
  /\ leases' = IF call.result = "err" THEN leases ELSE leases \ {s}
  /\ keys' = IF call.result = "err" THEN keys ELSE [keys EXCEPT ![s] = {}]
  /\ timer' = [timer EXCEPT ![s] = IF call.result = "err" THEN "retrying" ELSE "done"]
  /\ IF timer[s] = "sleeping"
       THEN Send(s, IF call.result = "err" THEN "failed" ELSE "completed")
       ELSE UNCHANGED sent
  /\ UNCHANGED <<owner, radio, session, stopping>>

-----------------------------------------------------------------------------
(* BlueZ clears the discovery of an adapter that loses power.              *)
LosePower(a) ==
  /\ radio' = [radio EXCEPT ![a] = "off"]
  /\ session' = [session EXCEPT ![a] = IF Unfinished(a) THEN "stale" ELSE @]

(* set_powered(false): set_powered on the adapter, then stop_discovery.    *)
PowerOff(a) ==
  /\ radio[a] # "absent"
  /\ LosePower(a)
  /\ stopping' = stopping \cup {a}
  /\ UNCHANGED <<scanVars, call>>

PowerOffStops(a) ==
  /\ a \in stopping
  /\ stopping' = stopping \ {a}
  /\ session' = [session EXCEPT ![a] = "none"]
  /\ UNCHANGED <<scanVars, call, radio>>

(* Another program turns the adapter off behind the daemon's back.         *)
PowerLost(a) ==
  /\ radio[a] = "on"
  /\ LosePower(a)
  /\ UNCHANGED <<scanVars, call, stopping>>

PowerOn(a) ==
  /\ radio[a] = "off"
  /\ radio' = [radio EXCEPT ![a] = "on"]
  /\ UNCHANGED <<scanVars, call, session, stopping>>

Unplug(a) ==
  /\ radio[a] # "absent"
  /\ radio' = [radio EXCEPT ![a] = "absent"]
  /\ session' = [session EXCEPT ![a] = IF Unfinished(a) THEN "ended" ELSE @]
  /\ UNCHANGED <<scanVars, call, stopping>>

Plug(a) ==
  /\ radio[a] = "absent"
  /\ radio' = [radio EXCEPT ![a] = "off"]
  /\ UNCHANGED <<scanVars, call, session, stopping>>

Environment ==
  \E a \in Adapters :
    \/ PowerOff(a) \/ PowerOffStops(a) \/ PowerLost(a) \/ PowerOn(a)
    \/ Unplug(a) \/ Plug(a)

Holder ==
  \/ \E a \in Adapters : DiscoverFails(a)
  \/ \E a \in Adapters : Discover(a)
  \/ StartFails
  \/ SnapshotFails
  \/ \E s \in Scans : StartConfirmed(s)
  \/ RollbackStart
  \/ \E a \in Adapters : StopAdapter(a)
  \/ StopDone
  \/ \E s \in Scans : ExpireDone(s)

Next ==
  \/ \E o \in Owners, request \in Adapters \cup {Global} : StartCall(o, request)
  \/ \E ids \in SUBSET leases : StopCall(ids)
  \/ \E s \in Scans : TimerFires(s)
  \/ Holder
  \/ Environment

(***************************************************************************)
(* Backend calls return (each is bounded by a D-Bus reply), and a timer    *)
(* waiting for the mutex gets it however often other calls take it: tokio  *)
(* mutexes are first come, first served.                                   *)
(***************************************************************************)
Fairness ==
  /\ WF_vars(Holder)
  /\ \A s \in Scans : SF_vars(TimerFires(s))

Spec == Init /\ [][Next]_vars

FairSpec == Spec /\ Fairness

-----------------------------------------------------------------------------
TypeOK ==
  /\ leases \in SUBSET Scans
  /\ keys \in [Scans -> SUBSET Adapters]
  /\ owner \in [Scans -> Owners]
  /\ timer \in [Scans -> TimerState]
  /\ sent \in [Scans -> Seq(Terminal \cup {"started"})]
  /\ call \in Call
  /\ radio \in [Adapters -> {"absent", "off", "on"}]
  /\ session \in [Adapters -> SessionState]
  /\ stopping \in SUBSET Adapters

(***************************************************************************)
(* A scan that ends, times out or fails to start never interrupts          *)
(* discovery on an adapter that another scan still leases.  Only a power   *)
(* change may do that, and a failed start may close what it opened itself. *)
(***************************************************************************)
SharedAdapterKept ==
  [][\A a \in Adapters :
       /\ Discovering(a) /\ ~Discovering(a)'
       /\ UNCHANGED <<radio, stopping>>
       /\ a \notin call.started
       => \A s \in leases \ call.ids : a \notin keys[s]]_vars

(***************************************************************************)
(* Every lease is accounted for.  A scan that holds its lease has not been *)
(* reported completed or cancelled, and has a timer that will try to end   *)
(* it, also after a stop or a cleanup that failed; a scan that has lost    *)
(* its lease has been given a terminal event.  And discovery is            *)
(* caller-owned: whenever no scan call is under way, every adapter the     *)
(* daemon keeps discovering is leased by some scan, also when adapters     *)
(* came and went during a start or a cleanup.  The one exception is what   *)
(* the code leaves behind itself: a start whose snapshot could not be      *)
(* built is reported as failed and leaves the sessions it opened running.  *)
(***************************************************************************)
Told(s) == {sent[s][i] : i \in 1..Len(sent[s])}

EventsMatchLeases ==
  \A s \in Issued :
    IF s \in leases
      THEN /\ Told(s) \cap {"completed", "cancelled"} = {}
           /\ timer[s] \in {"sleeping", "retrying"}
      ELSE Told(s) \cap Terminal # {}

DiscoveryIsLeased ==
  call = Idle =>
    \A a \in Adapters :
      session[a] = "live" => \E s \in leases : a \in keys[s]

LeaseAccounted == EventsMatchLeases /\ DiscoveryIsLeased

(***************************************************************************)
(* Every scan ends, if from some time on no stop fails: a cleanup that     *)
(* failed is retried until it succeeds.  (Stopping an adapter that was     *)
(* pulled out fails for as long as find_adapter does not find it, and the  *)
(* lease of one that never returns is retried for ever.)                   *)
(***************************************************************************)
LeaseEnds ==
  <>[][call.result = "ok" => call'.result = "ok"]_vars
    => \A s \in Scans : s \in leases ~> s \notin leases
=============================================================================
