----------------------------- MODULE Operations -----------------------------
(***************************************************************************)
(* The device-operation coordinator (src/src/daemon/operation.rs).         *)
(*                                                                         *)
(* A request to operate on a device is admitted under one mutex, runs in a *)
(* spawned worker, and ends in exactly one terminal event that is retained *)
(* for a while so that a caller who missed it can still ask.  Cancelling   *)
(* aborts the worker, but leaves the entry in place until an independent   *)
(* reaper has seen the worker stop.  Every action below that touches       *)
(* `active' is one critical section of OperationCoordinator::state.        *)
(*                                                                         *)
(* Abstracted: the operation's name, its stage names, snapshot and error.  *)
(***************************************************************************)
EXTENDS Naturals, Sequences, FiniteSets

CONSTANTS
  Requests,       \* operation-<uuid> identifiers, never reused
  Owners,         \* transport identities of callers
  Devices,        \* opaque device keys
  MaxActive,      \* OperationLimits::total      (256 in the code)
  MaxPerOwner,    \* OperationLimits::per_owner  (64 in the code)
  TerminalLimit,  \* capacity of RecentResults   (64 in the code)
  MaxRevision,    \* largest exact revision      (2^53 - 1 in the code)
  None            \* the owner and device of a request not yet admitted

ASSUME OperationLimits ==
  /\ MaxActive \in Nat
  /\ MaxPerOwner \in Nat
  /\ TerminalLimit \in Nat \ {0}

(***************************************************************************)
(* Queued, started and one terminal revision must fit.                     *)
(***************************************************************************)
ASSUME RevisionSpace == MaxRevision \in Nat /\ MaxRevision >= 3

ASSUME NoneIsNobody == None \notin Owners /\ None \notin Devices

VARIABLES
  owner,    \* owner[r], device[r]: immutable fields of r's OperationEvent
  device,
  active,   \* ids held by OwnedOperations
  handle,   \* active ids whose OperationTask still holds its JoinHandle
  event,    \* event[r]: the current OperationEvent of r
  worker,   \* worker[r]: where the spawned run() of r is
  reaper,   \* reaper[r]: the device-operation-cancel task of r
  recent,   \* ids held by RecentResults, oldest first
  sent      \* sent[r]: what the broadcast channel was given about r, in order

vars == <<owner, device, active, handle, event, worker, reaper, recent, sent>>

Terminal == {"completed", "failed", "cancelled"}
EventName == {"none", "queued", "started", "progress"} \cup Terminal
Event == [name : EventName, revision : 0..MaxRevision]

(***************************************************************************)
(* run() is at an await in "waiting" (the start signal and the lock of     *)
(* publish_started) and in "backend" (the backend future and the lock that *)
(* follows it); "stopped" is an aborted future that has been dropped.      *)
(***************************************************************************)
WorkerState == {"none", "waiting", "backend", "done", "stopped"}
Running(r) == worker[r] \in {"waiting", "backend"}

-----------------------------------------------------------------------------
(* OperationEvent::set_state: every transition takes the next revision.    *)
SetState(r, name) ==
  event' = [event EXCEPT ![r] = [name |-> name, revision |-> @.revision + 1]]

(* events.send(event.clone()) with the event just written.                 *)
Send(r) == sent' = [sent EXCEPT ![r] = Append(@, event'[r])]

(* RecentResults::record: bounded, the oldest result makes room.           *)
Record(r) ==
  LET all == Append(recent, r)
  IN  recent' = IF Len(all) > TerminalLimit THEN Tail(all) ELSE all

(* Mutant: a terminal claim that forgets to retain the event.              *)
ClaimOnly(r, name) ==
  /\ active' = active \ {r}
  /\ handle' = handle \ {r}
  /\ SetState(r, name)
  /\ Send(r)
  /\ UNCHANGED recent

(* OwnedOperations::claim followed by retain_terminal.                     *)
ClaimAndRetain(r, name) ==
  /\ active' = active \ {r}
  /\ handle' = handle \ {r}
  /\ SetState(r, name)
  /\ Record(r)
  /\ Send(r)

(* OwnedOperations::admit: the total and the per-owner limit.              *)
Admits(o) ==
  /\ Cardinality(active) < MaxActive
  /\ Cardinality({r \in active : owner[r] = o}) < MaxPerOwner

Busy(d) == \E r \in active : device[r] = d

(***************************************************************************)
(* What the reads snapshot and status answer about r to caller o: the      *)
(* entry, else the retained result, else request-not-found ("none").       *)
(***************************************************************************)
Retained == {recent[i] : i \in 1..Len(recent)}

Status(r, o) ==
  IF owner[r] = o /\ r \in active \cup Retained THEN event[r].name ELSE "none"

-----------------------------------------------------------------------------
Init ==
  /\ owner = [r \in Requests |-> None]
  /\ device = [r \in Requests |-> None]
  /\ active = {}
  /\ handle = {}
  /\ event = [r \in Requests |-> [name |-> "none", revision |-> 0]]
  /\ worker = [r \in Requests |-> "none"]
  /\ reaper = [r \in Requests |-> "none"]
  /\ recent = <<>>
  /\ sent = [r \in Requests |-> <<>>]

(* Mutant: admission without the device-busy check.                        *)
StartOnBusyDevice(r, o, d) ==
  /\ worker[r] = "none"
  /\ Admits(o)
  /\ owner' = [owner EXCEPT ![r] = o]
  /\ device' = [device EXCEPT ![r] = d]
  /\ active' = active \cup {r}
  /\ handle' = handle \cup {r}
  /\ event' = [event EXCEPT ![r] = [name |-> "queued", revision |-> 1]]
  /\ worker' = [worker EXCEPT ![r] = "waiting"]
  /\ UNCHANGED <<reaper, recent, sent>>

(* start_owned: a refused call (limits, device-busy) changes nothing.      *)
StartOwned(r, o, d) ==
  /\ worker[r] = "none"
  /\ Admits(o)
  /\ ~Busy(d)
  /\ owner' = [owner EXCEPT ![r] = o]
  /\ device' = [device EXCEPT ![r] = d]
  /\ active' = active \cup {r}
  /\ handle' = handle \cup {r}
  /\ event' = [event EXCEPT ![r] = [name |-> "queued", revision |-> 1]]
  /\ worker' = [worker EXCEPT ![r] = "waiting"]
  /\ UNCHANGED <<reaper, recent, sent>>

(* Mutant: the worker updates and sends its own copy of the queued event.  *)
PublishStartedFromCopy(r) ==
  /\ worker[r] = "waiting"
  /\ r \in active
  /\ sent' = [sent EXCEPT ![r] = Append(@, [name |-> "started", revision |-> 2])]
  /\ worker' = [worker EXCEPT ![r] = "backend"]
  /\ UNCHANGED <<owner, device, active, handle, event, reaper, recent>>

(* run up to publish_started; a worker whose entry is gone gives up.       *)
PublishStarted(r) ==
  /\ worker[r] = "waiting"
  /\ IF r \in active
       THEN /\ SetState(r, "started")
            /\ Send(r)
            /\ worker' = [worker EXCEPT ![r] = "backend"]
       ELSE /\ worker' = [worker EXCEPT ![r] = "done"]
            /\ UNCHANGED <<event, sent>>
  /\ UNCHANGED <<owner, device, active, handle, reaper, recent>>

(***************************************************************************)
(* The progress callback.  It may be called by the backend, and late, by   *)
(* whatever still holds a clone of it.  try_lock may fail: then nothing    *)
(* happens, which is a stuttering step.                                    *)
(***************************************************************************)
Progress(r) ==
  /\ worker[r] \in {"backend", "done", "stopped"}
  /\ r \in active
  /\ r \in handle
  /\ event[r].revision < MaxRevision - 1
  /\ SetState(r, "progress")
  /\ Send(r)
  /\ UNCHANGED <<owner, device, active, handle, worker, reaper, recent>>

(* run after the backend future: claim, retain and publish the outcome.    *)
Finish(r) ==
  /\ worker[r] = "backend"
  /\ worker' = [worker EXCEPT ![r] = "done"]
  /\ IF r \in active
       THEN \E name \in {"completed", "failed"} : ClaimAndRetain(r, name)
       ELSE UNCHANGED <<active, handle, event, recent, sent>>
  /\ UNCHANGED <<owner, device, reaper>>

(* Mutant: Cancel claims the entry at once instead of leaving it to the    *)
(* reaper, so the device is free while the aborted worker still runs.      *)
CancelAtOnce(r, o) ==
  /\ r \in active
  /\ owner[r] = o
  /\ r \in handle
  /\ ClaimAndRetain(r, "cancelled")
  /\ reaper' = [reaper EXCEPT ![r] = "waiting"]
  /\ UNCHANGED <<owner, device, worker>>

(***************************************************************************)
(* cancel_owned by the owner of r.  The first call takes and aborts the    *)
(* worker's handle and spawns the reaper; a repeated one finds the handle  *)
(* gone and only acknowledges, and a foreign one finds nothing.            *)
(***************************************************************************)
CancelOwned(r, o) ==
  /\ r \in active
  /\ owner[r] = o
  /\ r \in handle
  /\ handle' = handle \ {r}
  /\ reaper' = [reaper EXCEPT ![r] = "waiting"]
  /\ UNCHANGED <<owner, device, active, event, worker, recent, sent>>

(***************************************************************************)
(* An aborted worker is dropped when it next yields.  Until then the poll  *)
(* that was running when abort() was called may still take the worker's    *)
(* ordinary steps.                                                         *)
(***************************************************************************)
WorkerStops(r) ==
  /\ reaper[r] # "none"
  /\ Running(r)
  /\ worker' = [worker EXCEPT ![r] = "stopped"]
  /\ UNCHANGED <<owner, device, active, handle, event, reaper, recent, sent>>

(* Mutant: the reaper publishes without checking that the claim succeeded. *)
ReapUnclaimed(r) ==
  /\ reaper[r] = "waiting"
  /\ ~Running(r)
  /\ reaper' = [reaper EXCEPT ![r] = "done"]
  /\ ClaimAndRetain(r, "cancelled")
  /\ UNCHANGED <<owner, device, worker>>

(* Mutant: the reaper leaves alone an operation that never started.        *)
ReapStartedOnly(r) ==
  /\ reaper[r] = "waiting"
  /\ ~Running(r)
  /\ reaper' = [reaper EXCEPT ![r] = "done"]
  /\ IF r \in active /\ event[r].name # "queued"
       THEN ClaimAndRetain(r, "cancelled")
       ELSE UNCHANGED <<active, handle, event, recent, sent>>
  /\ UNCHANGED <<owner, device, worker>>

(* The reaper: handle.await, then the terminal claim if nobody made it.    *)
Reap(r) ==
  /\ reaper[r] = "waiting"
  /\ ~Running(r)
  /\ reaper' = [reaper EXCEPT ![r] = "done"]
  /\ IF r \in active
       THEN ClaimAndRetain(r, "cancelled")
       ELSE UNCHANGED <<active, handle, event, recent, sent>>
  /\ UNCHANGED <<owner, device, worker>>

(* RecentResults drops results older than TERMINAL_RETENTION.              *)
Expire ==
  /\ recent # <<>>
  /\ recent' = Tail(recent)
  /\ UNCHANGED <<owner, device, active, handle, event, worker, reaper, sent>>

Next ==
  \/ \E r \in Requests, o \in Owners, d \in Devices : StartOwned(r, o, d)
  \/ \E r \in Requests : PublishStarted(r)
  \/ \E r \in Requests : Progress(r)
  \/ \E r \in Requests : Finish(r)
  \/ \E r \in Requests, o \in Owners : CancelOwned(r, o)
  \/ \E r \in Requests : WorkerStops(r)
  \/ \E r \in Requests : Reap(r)
  \/ Expire

(***************************************************************************)
(* The runtime drops an aborted future at its next yield and polls the     *)
(* reaper once that has happened.  Nothing is assumed of the backend, of   *)
(* callers, or of how soon results expire.                                 *)
(***************************************************************************)
Fairness ==
  \A r \in Requests : WF_vars(WorkerStops(r)) /\ WF_vars(Reap(r))

Spec == Init /\ [][Next]_vars

FairSpec == Spec /\ Fairness

-----------------------------------------------------------------------------
TypeOK ==
  /\ owner \in [Requests -> Owners \cup {None}]
  /\ device \in [Requests -> Devices \cup {None}]
  /\ active \in SUBSET Requests
  /\ handle \in SUBSET Requests
  /\ event \in [Requests -> Event]
  /\ worker \in [Requests -> WorkerState]
  /\ reaper \in [Requests -> {"none", "waiting", "done"}]
  /\ recent \in Seq(Requests)
  /\ sent \in [Requests -> Seq(Event)]

(***************************************************************************)
(* Two workers never run against the same device.  A cancelled worker may  *)
(* still be inside its backend call, so this needs the entry to outlive    *)
(* the cancellation, not just the device-busy check.                       *)
(***************************************************************************)
OneWorkerPerDevice ==
  \A r1, r2 \in Requests :
    Running(r1) /\ Running(r2) /\ device[r1] = device[r2] => r1 = r2

(***************************************************************************)
(* The stream of one operation is an exact history: its i-th record has    *)
(* revision i + 1 (the receipt took revision 1), nothing follows a         *)
(* terminal record, and every revision stays within the exact range.       *)
(***************************************************************************)
ExactRevisions ==
  \A r \in Requests : \A i \in 1..Len(sent[r]) :
    /\ sent[r][i].revision = i + 1
    /\ sent[r][i].revision <= MaxRevision
    /\ sent[r][i].name \in Terminal => i = Len(sent[r])

(***************************************************************************)
(* What status and snapshot report of an operation is the last record its  *)
(* stream carried, and an id that is no longer active has a terminal one.  *)
(***************************************************************************)
StatusMatchesStream ==
  \A r \in Requests :
    /\ sent[r] # <<>> => event[r] = sent[r][Len(sent[r])]
    /\ worker[r] # "none" =>
         (r \in active <=> event[r].name \notin Terminal)

(***************************************************************************)
(* A status read racing completion never falls into a hole: the step that  *)
(* removes an entry is the step after which its owner reads the outcome.   *)
(***************************************************************************)
NoRetentionHole ==
  [][\A r \in active \ active' :
       Status(r, owner[r])' \in Terminal]_vars

(***************************************************************************)
(* Once cancellation has taken the worker's handle, only the terminal      *)
(* record is still published about that operation, and before it at most   *)
(* the first one, started, by a worker that was already on its way to it.  *)
(***************************************************************************)
CancelledStreamEnds ==
  [][\A r \in Requests :
       reaper[r] # "none" /\ sent'[r] # sent[r] =>
         \/ event'[r].name \in Terminal
         \/ event'[r].name = "started" /\ sent[r] = <<>>]_vars

(***************************************************************************)
(* An accepted cancellation ends the operation, whether or not the caller  *)
(* of Cancel is still waiting for the reply.                               *)
(***************************************************************************)
CancellationTerminates ==
  \A r \in Requests : reaper[r] = "waiting" ~> r \notin active

(***************************************************************************)
(* The refinement: the phase is read off the current event, and the device *)
(* is held exactly as long as that event is not terminal.                  *)
(***************************************************************************)
LifecyclePhase ==
  [r \in Requests |->
     IF event[r].name = "none" THEN "absent"
     ELSE IF event[r].name \in Terminal THEN event[r].name
     ELSE "holding"]

Lifecycle == INSTANCE OperationLifecycle WITH
  Nowhere <- None,
  phase <- LifecyclePhase,
  revision <- [r \in Requests |-> event[r].revision],
  target <- device

(***************************************************************************)
(* The coordinator, with its workers, cancellations and late callbacks,    *)
(* implements the lifecycle a client is promised.                          *)
(***************************************************************************)
ImplementsLifecycle == Lifecycle!Spec
=============================================================================
