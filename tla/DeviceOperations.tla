-------------------------- MODULE DeviceOperations --------------------------
(***************************************************************************)
(* What the operations on one device do to BlueZ, to PipeWire and to the   *)
(* stores of the daemon: device_operation and its effects                  *)
(* (src/src/bluez.rs, src/src/bluez/operations.rs), the policy store       *)
(* (src/src/management.rs), the audio changes of a client                  *)
(* (apply_change in src/src/daemon/audio.rs), and the reconnection after a *)
(* resume or a start.  They are serialized by device_gate                  *)
(* (src/src/task.rs), which a future releases when it is dropped; blocking *)
(* workers run on.                                                         *)
(*                                                                         *)
(* Abstracted: one device on one adapter; trust, aliases, wake-up, blocked *)
(* state and service resolution (a property operation only takes its       *)
(* turn); the exchange of provisioning (module Identity); which profile is *)
(* set (one profile); global defaults (reconnect, controls enabled).       *)
(***************************************************************************)
EXTENDS Naturals, Sequences, FiniteSets

CONSTANTS
  Users,        \* requests of clients, numbered as they come
  Resumes,      \* reconnection tasks, bound on those at a time
  Operations,   \* Operations[u]: the kinds that request u may be of
  None,
  MaxFaults     \* bound on failing calls, lost saves, suspends and resumes

Kinds == {"pair", "connect", "disconnect", "remove", "provision", "property", "policy", "audio"}

ASSUME BoundsAssumption == MaxFaults \in Nat

ASSUME ActorsAssumption ==
  /\ Users \subseteq Nat
  /\ Users \cap Resumes = {}
  /\ None \notin Users \cup Resumes
  /\ Operations \in [Users -> SUBSET Kinds]

VARIABLES
  bluez,       \* the device and its adapter in BlueZ
  late,        \* calls that BlueZ is working on for nobody
  credential,  \* an account key is stored
  local,       \* device_cache or a presentation has an entry
  policy,      \* DevicePolicyOverrides that are set; empty: no entry
  runtime,     \* RuntimeState of the last snapshot that was remembered
  request,     \* request[a]
  worker,      \* worker[a]: the blocking worker of a
  gate,        \* who holds the device gate
  sleeping,    \* BluezBackend::sleeping
  signals,     \* PrepareForSleep signals that monitor_sleep_events has yet to read
  monitor,     \* what it does
  faults

deviceVars == <<bluez, late, credential, local, policy, runtime, request, worker, gate,
          sleeping, signals, monitor, faults>>
world == <<bluez, late>>
stores == <<credential, local, policy, runtime>>
lifecycle == <<sleeping, signals, monitor>>

Actors == Users \cup Resumes
Overrides == {"no_reconnect", "profile"}

Stages ==
  {"idle", "backoff", "queued", "power", "calling", "revoking", "disconnecting", "removing", "setting",
   "forget", "provisioning", "routing", "applying", "snapshot", "ended", "gave_up"}

Active(a) == request[a].stage \notin {"idle", "ended", "gave_up"}

(* A worker at work, or what it returned.                                  *)
Busy == {"revoking", "routing", "applying"}
Workers == Busy \cup {"none", "ok", "failed", "again"}

IdleRequest == [op |-> "connect", stage |-> "idle", route |-> FALSE, attempt |-> 0]

(* A daemon that starts: apply_startup_policy restores what was remembered *)
(* and then the signals of logind are monitored.                           *)
DeviceInit ==
  /\ \E bonded \in BOOLEAN :
       /\ bluez = [known |-> TRUE, bonded |-> bonded, connected |-> bonded, powered |-> TRUE]
       /\ credential = bonded
       /\ policy \in {{}, {"profile"}}
       /\ runtime = [powered |-> TRUE, connected |-> bonded]
  /\ late = {}
  /\ local = TRUE
  /\ request = [a \in Actors |-> IdleRequest]
  /\ worker = [a \in Actors |-> "none"]
  /\ gate = None
  /\ sleeping = FALSE
  /\ signals = <<>>
  /\ monitor = "restore"
  /\ faults = 0

-----------------------------------------------------------------------------
Fault == faults < MaxFaults /\ faults' = faults + 1
NoFault == UNCHANGED faults

(* A save that may fail.                                                   *)
Saved(old, new) == IF faults < MaxFaults THEN {old, new} ELSE {new}

Goto(a, stage) == request' = [request EXCEPT ![a].stage = stage]

(* The end of a request.                                                   *)
Ends(a) ==
  /\ request' = [request EXCEPT ![a] = [IdleRequest EXCEPT !.stage = "ended"]]
  /\ gate' = IF gate = a THEN None ELSE gate

(* Mutant: two attempts in all.                                            *)
FailsTwice(a) ==
  IF a \in Resumes /\ request[a].attempt < 1
    THEN /\ request' = [request EXCEPT ![a].stage = "backoff", ![a].attempt = @ + 1,
                                       ![a].route = FALSE]
         /\ gate' = None
    ELSE Ends(a)

(* Its failure.  A reconnection backs off and tries again, three times in  *)
(* all.                                                                    *)
Fails(a) ==
  IF a \in Resumes /\ request[a].attempt < 2
    THEN /\ request' = [request EXCEPT ![a].stage = "backoff", ![a].attempt = @ + 1,
                                       ![a].route = FALSE]
         /\ gate' = None
    ELSE Ends(a)

(* A client's request.                                                     *)
Begin(u, op) ==
  /\ request[u].stage = "idle"
  /\ \A v \in Users : v < u => request[v].stage # "idle"
  /\ request' = [request EXCEPT ![u] = [IdleRequest EXCEPT !.op = op, !.stage = "queued"]]
  /\ UNCHANGED <<world, stores, worker, gate, lifecycle, faults>>

(* reconnect_while_awake: the checks before an attempt are made without    *)
(* the gate, and one that cannot be made ends it.                          *)
BacksOff(w) ==
  /\ request[w].stage = "backoff"
  /\ \/ /\ IF "no_reconnect" \notin policy /\ bluez.known /\ bluez.bonded
             THEN Goto(w, "queued") /\ UNCHANGED gate
             ELSE Ends(w)
        /\ NoFault
     \/ /\ Fault
        /\ request' = [request EXCEPT ![w] = [IdleRequest EXCEPT !.stage = "gave_up"]]
        /\ UNCHANGED gate
  /\ UNCHANGED <<world, stores, worker, lifecycle>>

(* Mutant: nothing is revoked before the removal.                          *)
FirstStageRemoves(op) ==
  CASE op \in {"pair", "connect"} -> "power"
    [] op = "remove" -> "removing"
    [] op = "provision" -> "provisioning"
    [] op \in {"disconnect", "property"} -> "setting"

(* execute: where an operation starts.                                     *)
FirstStage(op) ==
  CASE op \in {"pair", "connect"} -> "power"
    [] op = "remove" -> "revoking"
    [] op = "provision" -> "provisioning"
    [] op \in {"disconnect", "property"} -> "setting"

(* audio_route_required                                                    *)
RouteRequired(op) == op \in {"pair", "connect"} /\ "profile" \in policy

(* The gate, find_device and Plan::new, which keeps the policy as it is    *)
(* now.                                                                    *)
Starts(a) ==
  /\ request[a].stage = "queued"
  /\ request[a].op \notin {"policy", "audio"}
  /\ gate = None
  /\ bluez.known
  /\ gate' = a
  /\ request' = [request EXCEPT ![a].stage = FirstStage(request[a].op),
                                ![a].route = RouteRequired(request[a].op)]
  /\ UNCHANGED <<world, stores, worker, lifecycle, faults>>

FindsNothing(a) ==
  /\ request[a].stage = "queued"
  /\ request[a].op # "audio"
  /\ gate = None
  /\ ~bluez.known
  /\ Fails(a)
  /\ UNCHANGED <<world, stores, worker, lifecycle, faults>>

(* ensure_operation_adapter_powered; then BlueZ is called.  power_on is    *)
(* false in a reconnection.                                                *)
Power(a) ==
  /\ request[a].stage = "power"
  /\ \/ /\ bluez.powered \/ a \in Users
        /\ bluez' = [bluez EXCEPT !.powered = TRUE]
        /\ Goto(a, "calling")
        /\ UNCHANGED gate
     \/ /\ ~bluez.powered
        /\ Fails(a)
        /\ UNCHANGED bluez
  /\ UNCHANGED <<late, stores, worker, lifecycle, faults>>

(* A blocking worker is spawned for the stage the request is in.           *)
Spawns(a) ==
  /\ request[a].stage \in {"revoking", "routing"}
  /\ worker[a] = "none"
  /\ worker' = [worker EXCEPT ![a] = request[a].stage]
  /\ UNCHANGED <<world, stores, request, gate, lifecycle, faults>>

(* revoke_credentials: the removal goes on when the worker has succeeded.  *)
Revoked(a) ==
  /\ request[a].stage = "revoking"
  /\ worker[a] \in {"ok", "failed"}
  /\ worker' = [worker EXCEPT ![a] = "none"]
  /\ IF worker[a] = "ok"
       THEN /\ Goto(a, IF bluez.connected THEN "disconnecting" ELSE "removing")
            /\ UNCHANGED gate
       ELSE Fails(a)
  /\ UNCHANGED <<world, stores, lifecycle, faults>>

-----------------------------------------------------------------------------
(* BlueZ can do what is asked for, and is not about to remove the device.  *)
Accepts(op) ==
  /\ "remove" \notin late
  /\ bluez.known
  /\ bluez.powered
  /\ op = "pair" => ~bluez.bonded

(* What a call does when it succeeds.                                      *)
Effect(op) ==
  IF op = "pair" THEN [bluez EXCEPT !.bonded = TRUE, !.connected = TRUE]
                 ELSE [bluez EXCEPT !.connected = TRUE]

(* What is left of a device that was removed.                              *)
Removed == [bluez EXCEPT !.known = FALSE, !.bonded = FALSE, !.connected = FALSE]

(* The stages after the radio's part of an operation.                      *)
AfterCall(a) ==
  CASE request[a].op = "pair" -> "provisioning"
    [] request[a].op = "connect" /\ request[a].route -> "routing"
    [] OTHER -> "snapshot"

(* pair, connect: BlueZ answers or the call times out; a device that could *)
(* be bonded may fail to be connected.                                     *)
Answered(a) ==
  /\ request[a].stage = "calling"
  /\ \/ /\ Accepts(request[a].op)
        /\ bluez' = Effect(request[a].op)
        /\ Goto(a, AfterCall(a))
        /\ UNCHANGED <<gate, late>>
        /\ NoFault
     \/ /\ Fault
        /\ Fails(a)
        /\ \/ /\ late' \in {late, late \cup {request[a].op}}  \* timed out
              /\ UNCHANGED bluez
           \/ /\ request[a].op = "pair"
              /\ Accepts("pair")
              /\ bluez' = [bluez EXCEPT !.bonded = TRUE]
              /\ UNCHANGED late
     \/ /\ ~Accepts(request[a].op)
        /\ Fails(a)
        /\ NoFault
        /\ UNCHANGED <<bluez, late>>
  /\ UNCHANGED <<stores, worker, lifecycle>>

(* disconnect, alone or before a removal, and property operations.         *)
Disconnects(a) ==
  /\ request[a].stage \in {"disconnecting", "setting"}
  /\ \/ /\ bluez' = [bluez EXCEPT !.connected = @ /\ request[a].op = "property"]
        /\ Goto(a, IF request[a].op = "remove" THEN "removing" ELSE "snapshot")
        /\ UNCHANGED gate
        /\ NoFault
     \/ /\ Fault
        /\ Fails(a)
        /\ UNCHANGED bluez
  /\ UNCHANGED <<late, stores, worker, lifecycle>>

(* Mutant: the removal forgets what it can also when BlueZ refused it.     *)
RemovesAnyway(a) ==
  /\ request[a].stage = "removing"
  /\ \/ /\ bluez' = Removed
        /\ late' = {}
        /\ NoFault
     \/ /\ Fault
        /\ UNCHANGED world
  /\ Goto(a, "forget")
  /\ UNCHANGED <<stores, worker, gate, lifecycle>>

(* adapter.remove_device; the answer is read in a later step.              *)
Removes(a) ==
  /\ request[a].stage = "removing"
  /\ \/ /\ bluez' = Removed
        /\ late' = {}
        /\ Goto(a, "forget")
        /\ UNCHANGED gate
        /\ NoFault
     \/ /\ Fault
        /\ Fails(a)
        /\ UNCHANGED world
  /\ UNCHANGED <<stores, worker, lifecycle>>

(* provision_account_key, which ends by storing the key.  A failure spoils *)
(* a pairing only when its client has sent the key of the model.           *)
Provisions(a) ==
  /\ request[a].stage = "provisioning"
  /\ \/ /\ bluez.bonded
        /\ "remove" \notin late
        /\ ~credential
        /\ credential' = TRUE
        /\ Goto(a, IF request[a].route THEN "routing" ELSE "snapshot")
        /\ UNCHANGED gate
     \/ /\ request[a].op = "pair"
        /\ Goto(a, IF request[a].route THEN "routing" ELSE "snapshot")
        /\ UNCHANGED <<credential, gate>>
     \/ /\ Fails(a)
        /\ UNCHANGED credential
  /\ UNCHANGED <<world, local, policy, runtime, worker, lifecycle, faults>>

-----------------------------------------------------------------------------
(* route_audio: attempts of ten seconds in all, each on a blocking worker  *)
(* that does not hold the gate.                                            *)
Routed(a) ==
  /\ request[a].stage = "routing"
  /\ worker[a] \in {"ok", "failed", "again"}
  /\ worker' = [worker EXCEPT ![a] = "none"]
  /\ \/ worker[a] = "ok" /\ Goto(a, "snapshot") /\ UNCHANGED gate
     \/ worker[a] = "again" /\ UNCHANGED <<request, gate>>
     \/ worker[a] = "failed" /\ Fails(a)
  /\ UNCHANGED <<world, stores, lifecycle, faults>>

(* The forgetting that a removal ends with.                                *)
Forgets(a) ==
  /\ request[a].stage = "forget"
  /\ local' = FALSE
  /\ policy' \in Saved(policy, {})
  /\ faults' = IF policy' # {} THEN faults + 1 ELSE faults
  /\ Goto(a, "snapshot")
  /\ UNCHANGED <<world, credential, runtime, worker, gate, lifecycle>>

Seen == [powered |-> bluez.powered, connected |-> bluez.connected]

(* snapshot, which enters a known device in the cache, and                 *)
(* remember_snapshot.  A failing snapshot spoils the operation.            *)
Snapshots(a) ==
  /\ request[a].stage = "snapshot"
  /\ \/ /\ local' = (local \/ bluez.known)
        /\ runtime' \in Saved(runtime, Seen)
        /\ faults' = IF runtime' # Seen THEN faults + 1 ELSE faults
        /\ Ends(a)
     \/ /\ Fault
        /\ Fails(a)
        /\ UNCHANGED <<local, runtime>>
  /\ UNCHANGED <<world, credential, policy, worker, lifecycle>>

(* update_device_policy                                                    *)
SetsPolicy(u) ==
  /\ request[u].stage = "queued"
  /\ request[u].op = "policy"
  /\ gate = None
  /\ bluez.known
  /\ policy' \in SUBSET Overrides
  /\ Ends(u)
  /\ UNCHANGED <<world, credential, local, runtime, worker, lifecycle, faults>>

-----------------------------------------------------------------------------
(* apply_change: PipeWire lists the device, or has not noticed yet that it *)
(* went away; the worker takes the gate along.                             *)
Probes(u) ==
  /\ request[u].stage = "queued"
  /\ request[u].op = "audio"
  /\ gate = None
  /\ \/ /\ Goto(u, "applying")
        /\ worker' = [worker EXCEPT ![u] = "applying"]
        /\ gate' = u
     \/ /\ Fails(u)
        /\ UNCHANGED worker
  /\ UNCHANGED <<world, stores, lifecycle, faults>>

Applied(u) ==
  /\ request[u].stage = "applying"
  /\ worker[u] \in {"ok", "failed"}
  /\ worker' = [worker EXCEPT ![u] = "none"]
  /\ Ends(u)
  /\ UNCHANGED <<world, stores, lifecycle, faults>>

(* Mutant: the worker of an audio change whose client went away keeps the  *)
(* gate.                                                                   *)
WorkerEndsKeeps(a) ==
  /\ worker[a] \in Busy
  /\ \E result \in {"ok", "failed", "again"} :
       /\ worker' = [worker EXCEPT ![a] = IF Active(a) THEN result ELSE "none"]
       /\ result = "again" => worker[a] = "routing"
       /\ IF result = "ok" THEN NoFault ELSE Fault
  /\ gate' = IF worker[a] = "applying" /\ Active(a) THEN None ELSE gate
  /\ UNCHANGED <<world, stores, request, lifecycle>>

(* A worker comes to its end, whether somebody waits for it or not.  The   *)
(* worker of an audio change remembers what it applied and lets go of the  *)
(* gate.                                                                   *)
WorkerEnds(a) ==
  /\ worker[a] \in Busy
  /\ \E result \in {"ok", "failed", "again"} :
       /\ worker' = [worker EXCEPT ![a] = IF Active(a) THEN result ELSE "none"]
       /\ result = "again" => worker[a] = "routing"
       /\ IF result = "ok" THEN NoFault ELSE Fault
       /\ credential' = (credential /\ ~(worker[a] = "revoking" /\ result = "ok"))
       /\ policy' \in IF worker[a] = "applying" /\ result = "ok"
                        THEN {policy, policy \cup {"profile"}} ELSE {policy}
  /\ gate' = IF worker[a] = "applying" THEN None ELSE gate
  /\ UNCHANGED <<world, local, runtime, request, lifecycle>>

(* Mutant: the worker of an audio change leaves the gate to its caller.    *)
DropReleases(a) ==
  /\ request' = [request EXCEPT ![a] = [IdleRequest EXCEPT !.stage = "ended"]]
  /\ gate' = IF gate = a THEN None ELSE gate
  /\ late' = IF request[a].stage \in {"calling", "removing"}
               THEN late \cup {request[a].op} ELSE late
  /\ worker' = [worker EXCEPT ![a] = IF @ \in Busy THEN @ ELSE "none"]

(* The future of a request is dropped: the gate is free, unless a worker   *)
(* has taken it along; calls and workers in progress run on.               *)
Drop(a) ==
  /\ request' = [request EXCEPT ![a] = [IdleRequest EXCEPT !.stage = "ended"]]
  /\ gate' = IF gate = a /\ worker[a] # "applying" THEN None ELSE gate
  /\ late' = IF request[a].stage \in {"calling", "removing"}
               THEN late \cup {request[a].op} ELSE late
  /\ worker' = [worker EXCEPT ![a] = IF @ \in Busy THEN @ ELSE "none"]

(* The operation is cancelled, or the client of a plain request goes away. *)
Cancel(u) ==
  /\ Active(u)
  /\ Drop(u)
  /\ UNCHANGED <<bluez, stores, lifecycle, faults>>

(* reconnect_device: the select ends with the next suspend.                *)
SleepDrops(w) ==
  /\ sleeping
  /\ Active(w)
  /\ Drop(w)
  /\ UNCHANGED <<bluez, stores, lifecycle, faults>>

-----------------------------------------------------------------------------
(* logind announces a suspend, or the return from it.                      *)
LogindSignals ==
  LET asleep == IF signals = <<>> THEN sleeping ELSE signals[Len(signals)]
  IN  /\ Fault
      /\ signals' = Append(signals, ~asleep)
      /\ UNCHANGED <<world, stores, request, worker, gate, sleeping, monitor>>

(* monitor_sleep_events reads the next signal.                             *)
MonitorReads ==
  /\ monitor = "idle"
  /\ signals # <<>>
  /\ sleeping' = Head(signals)
  /\ signals' = Tail(signals)
  /\ monitor' = IF Head(signals) THEN "remember" ELSE "restore"
  /\ UNCHANGED <<world, stores, request, worker, gate, faults>>

(* remember_runtime_state                                                  *)
MonitorRemembers ==
  /\ monitor = "remember"
  /\ monitor' = "idle"
  /\ \/ /\ runtime' = Seen
        /\ NoFault
     \/ /\ Fault
        /\ UNCHANGED runtime
  /\ UNCHANGED <<world, credential, local, policy, request, worker, gate, sleeping,
                 signals>>

(* restore_runtime_state: power first; a task for each device that was     *)
(* connected and may be reconnected.                                       *)
MonitorRestores ==
  /\ monitor = "restore"
  /\ monitor' = "idle"
  /\ \/ /\ bluez' = [bluez EXCEPT !.powered = runtime.powered,
                                  !.connected = @ /\ runtime.powered]
        /\ IF runtime.connected /\ "no_reconnect" \notin policy
             THEN \E w \in Resumes :
                    /\ ~Active(w) /\ worker[w] = "none"
                    /\ request' = [request EXCEPT ![w] = [IdleRequest EXCEPT !.stage = "backoff"]]
             ELSE UNCHANGED request
        /\ NoFault
     \/ /\ Fault
        /\ UNCHANGED <<bluez, request>>
  /\ UNCHANGED <<late, stores, worker, gate, sleeping, signals>>

-----------------------------------------------------------------------------
(* BlueZ, outside the daemon's calls: a call that was given up comes to an *)
(* end, the link goes, the adapter is switched off, the device comes near  *)
(* or expires.                                                             *)
LateEnds ==
  /\ \E op \in late \ {"remove"} :
       /\ late' = late \ {op}
       /\ bluez' \in {bluez, IF Accepts(op) THEN Effect(op) ELSE bluez}
  /\ UNCHANGED <<stores, request, worker, gate, lifecycle, faults>>

(* RemoveDevice, whose caller is gone, succeeds or fails.                  *)
LateRemoval ==
  /\ "remove" \in late
  /\ \/ bluez' = Removed /\ late' = {}
     \/ late' = late \ {"remove"} /\ UNCHANGED bluez
  /\ UNCHANGED <<stores, request, worker, gate, lifecycle, faults>>

LinkLost ==
  /\ bluez.connected
  /\ bluez' = [bluez EXCEPT !.connected = FALSE]
  /\ UNCHANGED <<late, stores, request, worker, gate, lifecycle, faults>>

PowersOff ==
  /\ bluez.powered
  /\ bluez' = [bluez EXCEPT !.powered = FALSE, !.connected = FALSE]
  /\ UNCHANGED <<late, stores, request, worker, gate, lifecycle, faults>>

Discovered ==
  /\ ~bluez.known
  /\ bluez' = [bluez EXCEPT !.known = TRUE]
  /\ UNCHANGED <<late, stores, request, worker, gate, lifecycle, faults>>

Expires ==
  /\ bluez.known
  /\ ~bluez.bonded
  /\ ~bluez.connected
  /\ bluez' = [bluez EXCEPT !.known = FALSE]
  /\ UNCHANGED <<late, stores, request, worker, gate, lifecycle, faults>>

Step(a) ==
  \/ BacksOff(a) \/ Starts(a) \/ FindsNothing(a) \/ Power(a) \/ Spawns(a) \/ Revoked(a)
  \/ Answered(a) \/ Disconnects(a) \/ Removes(a) \/ Provisions(a) \/ Routed(a)
  \/ Forgets(a) \/ Snapshots(a) \/ SetsPolicy(a) \/ Probes(a) \/ Applied(a)

Monitor == MonitorReads \/ MonitorRemembers \/ MonitorRestores

DeviceNext ==
  \/ \E u \in Users : \E op \in Operations[u] : Begin(u, op)
  \/ \E a \in Actors : Step(a)
  \/ \E a \in Actors : WorkerEnds(a)
  \/ \E u \in Users : Cancel(u)
  \/ \E w \in Resumes : SleepDrops(w)
  \/ LogindSignals
  \/ Monitor
  \/ LateEnds \/ LateRemoval \/ LinkLost \/ PowersOff \/ Discovered \/ Expires

(* The daemon does not stand still: while any of its tasks or workers can  *)
(* go on, one does.                                                        *)
DeviceFairness == WF_deviceVars(Monitor \/ \E a \in Actors : Step(a) \/ WorkerEnds(a))

DeviceSpec == DeviceInit /\ [][DeviceNext]_deviceVars

DeviceFairSpec == DeviceSpec /\ DeviceFairness

-----------------------------------------------------------------------------
DeviceTypeOK ==
  /\ bluez \in [known : BOOLEAN, bonded : BOOLEAN, connected : BOOLEAN, powered : BOOLEAN]
  /\ late \in SUBSET {"pair", "connect", "remove"}
  /\ credential \in BOOLEAN /\ local \in BOOLEAN
  /\ policy \in SUBSET Overrides
  /\ runtime \in [powered : BOOLEAN, connected : BOOLEAN]
  /\ request \in [Actors -> [op : Kinds, stage : Stages, route : BOOLEAN, attempt : 0..2]]
  /\ worker \in [Actors -> Workers]
  /\ gate \in Actors \cup {None}
  /\ sleeping \in BOOLEAN /\ signals \in Seq(BOOLEAN)
  /\ monitor \in {"idle", "remember", "restore"}
  /\ faults \in 0..MaxFaults

(***************************************************************************)
(* A stored account key belongs to a device that BlueZ still has bonded,   *)
(* so that Forget can be asked for again whatever failed before            *)
(* (revoke_credentials).                                                   *)
(***************************************************************************)
RemoveIsRetryable == credential => bluez.known /\ bluez.bonded

(***************************************************************************)
(* Local state is forgotten only for a device that BlueZ has given up and  *)
(* whose credentials are gone, never after a failure or a cancellation     *)
(* (execute).                                                              *)
(***************************************************************************)
ForgetsOnlyRemoved ==
  [][local /\ ~local' => ~bluez.bonded /\ ~credential]_deviceVars

(***************************************************************************)
(* PipeWire is changed for this device by one worker at a time, clients    *)
(* that go away included, except while the worker of a cancelled connect   *)
(* or pair is still at it (route_audio does not give its worker the gate). *)
(***************************************************************************)
AudioSerialized ==
  \A a, b \in Actors :
    /\ a # b
    /\ worker[a] \in {"routing", "applying"}
    /\ worker[b] \in {"routing", "applying"}
    => \E c \in {a, b} : worker[c] = "routing" /\ ~Active(c)

(***************************************************************************)
(* When clients stop asking, every request has come to an end and the      *)
(* device is free: no failure, cancellation or suspend leaves the gate     *)
(* locked or a reconnection trying for ever.                               *)
(***************************************************************************)
RequestsEnd ==
  <>[](gate = None /\ \A a \in Actors : ~Active(a))

(***************************************************************************)
(* Fewer than three failing attempts do not keep a device from being       *)
(* reconnected, if nobody interferes and the checks between them can be    *)
(* made.                                                                   *)
(***************************************************************************)
Undisturbed ==
  /\ \A u \in Users : ~Active(u)
  /\ ~sleeping /\ signals = <<>> /\ monitor = "idle"
  /\ bluez.powered /\ bluez.bonded /\ "remove" \notin late
  /\ "no_reconnect" \notin policy

ResumeReconnects ==
  \A w \in Resumes :
    (request[w].stage = "backoff" /\ request[w].attempt = 0)
      ~> (bluez.connected \/ ~Undisturbed \/ request[w].stage = "gave_up")
=============================================================================
