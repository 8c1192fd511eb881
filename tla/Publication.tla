---------------------------- MODULE Publication ----------------------------
(***************************************************************************)
(* How a change in BlueZ becomes the state a client holds: the BlueZ       *)
(* monitor (src/src/bluez/monitor.rs, bluez.rs), the debounced refresh     *)
(* task (src/src/daemon.rs), the watermarked publication                   *)
(* (src/src/daemon/published.rs), the coalescing stream forwarder          *)
(* (src/src/daemon/subscription.rs) and cached reads, whose replies may    *)
(* reach the client long after they were captured.                         *)
(*                                                                         *)
(* The world is a few independent properties that BlueZ reports; building  *)
(* a snapshot reads them one after the other while they go on changing.    *)
(* The same pipeline, without the monitor, publishes the audio state.      *)
(***************************************************************************)
EXTENDS Naturals, FiniteSets

CONSTANTS
  Parts,            \* properties a snapshot is assembled from
  MaxRevision,      \* last revision of an epoch (2^53 - 1 in the code)
  MaxChanges,       \* bound: how often the world changes
  MaxReads,         \* bound: how many cached reads a client makes
  MaxReadFailures,  \* bound: snapshots that fail
  MaxRestarts       \* bound: failures of the BlueZ monitor

ASSUME RevisionAssumption == MaxRevision \in Nat \ {0}

ASSUME BoundsAssumption ==
  /\ MaxChanges \in Nat
  /\ MaxReads \in Nat
  /\ MaxReadFailures \in Nat
  /\ MaxRestarts \in Nat

VARIABLES
  world,     \* world[p]: what BlueZ would answer now
  monitor,   \* the bluez-monitor task
  notice,    \* a message waits in the refresh task's `changes' receiver
  refresher, \* the bluetooth-snapshots task
  draft,     \* draft[p]: the properties read so far, a set of at most one
  pub,       \* the value and watermark in the watch channel
  unsent,    \* the forwarder has not taken the current value yet
  inflight,  \* records on their way to the client
  held,      \* the record the client holds, a set of at most one
  budget     \* what is left of the four bounds

vars == <<world, monitor, notice, refresher, draft, pub, unsent, inflight, held, budget>>

World == [Parts -> BOOLEAN]

(* SharedSnapshot: an error carries no properties (all FALSE).             *)
Value == [status : {"loading", "available", "unavailable"}, parts : World]
Available(w) == [status |-> "available", parts |-> w]
Without(status) == [status |-> status, parts |-> [p \in Parts |-> FALSE]]

(***************************************************************************)
(* Epochs are random identifiers in the code; here they are numbered in    *)
(* order of creation.  previous_epoch is a set of at most one epoch.       *)
(***************************************************************************)
Record == [value : Value, epoch : Nat, revision : 1..MaxRevision, previous : SUBSET Nat]

Budget == [changes : 0..MaxChanges, reads : 0..MaxReads,
           failures : 0..MaxReadFailures, restarts : 0..MaxRestarts]

Unread == [p \in Parts |-> {}]

Init ==
  /\ world \in World
  /\ monitor = "up"
  /\ notice = FALSE
  /\ refresher = "reading"
  /\ draft = Unread
  /\ pub = [value |-> Without("loading"), epoch |-> 0, revision |-> 1, previous |-> {}]
  /\ unsent = TRUE
  /\ inflight = {}
  /\ held = {}
  /\ budget = [changes |-> MaxChanges, reads |-> MaxReads,
               failures |-> MaxReadFailures, restarts |-> MaxRestarts]

-----------------------------------------------------------------------------
(* A property changes; a subscribed monitor sends () on `changes'.         *)
WorldChanges(p) ==
  /\ budget.changes > 0
  /\ world' = [world EXCEPT ![p] = ~@]
  /\ notice' = (notice \/ monitor = "up")
  /\ budget' = [budget EXCEPT !.changes = @ - 1]
  /\ UNCHANGED <<monitor, refresher, draft, pub, unsent, inflight, held>>

(* monitor::run returns an error: its subscriptions are gone.              *)
MonitorFails ==
  /\ monitor = "up"
  /\ budget.restarts > 0
  /\ monitor' = "failed"
  /\ budget' = [budget EXCEPT !.restarts = @ - 1]
  /\ UNCHANGED <<world, notice, refresher, draft, pub, unsent, inflight, held>>

(* A second later the loop of start_monitoring sends () ...                *)
MonitorNotifies ==
  /\ monitor = "failed"
  /\ monitor' = "subscribing"
  /\ notice' = TRUE
  /\ UNCHANGED <<world, refresher, draft, pub, unsent, inflight, held, budget>>

(* ... and then runs the monitor again, which subscribes anew.             *)
MonitorSubscribes ==
  /\ monitor = "subscribing"
  /\ monitor' = "up"
  /\ UNCHANGED <<world, notice, refresher, draft, pub, unsent, inflight, held, budget>>

-----------------------------------------------------------------------------
(* receive_refresh: recv returns, also for a lagged receiver; then sleep.  *)
Receive ==
  /\ refresher = "receiving"
  /\ notice
  /\ refresher' = "sleeping"
  /\ notice' = FALSE
  /\ UNCHANGED <<world, monitor, draft, pub, unsent, inflight, held, budget>>

(* receive_refresh: drain what came during the sleep, then start to read.  *)
(* A receiver that lagged meanwhile ends the drain before it is empty.     *)
Drain ==
  /\ refresher = "sleeping"
  /\ refresher' = "reading"
  /\ notice' \in {FALSE, notice}
  /\ draft' = Unread
  /\ UNCHANGED <<world, monitor, pub, unsent, inflight, held, budget>>

(* backend.snapshot() asks BlueZ for one more property.                    *)
ReadPart(p) ==
  /\ refresher = "reading"
  /\ draft[p] = {}
  /\ draft' = [draft EXCEPT ![p] = {world[p]}]
  /\ UNCHANGED <<world, monitor, notice, refresher, pub, unsent, inflight, held, budget>>

(* Mutant: exhaustion restarts the revisions without a fresh epoch.        *)
AdvanceSameEpoch(next) ==
  IF pub.revision = MaxRevision
    THEN [value |-> next, epoch |-> pub.epoch, revision |-> 1, previous |-> {pub.epoch}]
    ELSE [pub EXCEPT !.value = next, !.revision = @ + 1]

(* Published::update: the next revision, or the first of a fresh epoch.    *)
Advance(next) ==
  IF pub.revision = MaxRevision
    THEN [value |-> next, epoch |-> pub.epoch + 1, revision |-> 1, previous |-> {pub.epoch}]
    ELSE [pub EXCEPT !.value = next, !.revision = @ + 1]

(***************************************************************************)
(* An epoch outlasts deliveries: when it is exhausted, after 2^53 - 1      *)
(* publications, the client has long seen one of its records.  A small     *)
(* MaxRevision needs this said.                                            *)
(***************************************************************************)
Timely == pub.revision = MaxRevision => \E x \in held : x.epoch = pub.epoch

(* Published::update: an equal value is not published again.               *)
Publish(next) ==
  IF next = pub.value
    THEN UNCHANGED <<pub, unsent>>
    ELSE Timely /\ pub' = Advance(next) /\ unsent' = TRUE

(* Mutant: the receiver is drained after the snapshot instead of before.   *)
UpdateThenDrain ==
  /\ refresher = "reading"
  /\ \E next \in World : (\A p \in Parts : draft[p] = {next[p]}) /\ Publish(Available(next))
  /\ refresher' = "receiving"
  /\ notice' = FALSE
  /\ UNCHANGED <<world, monitor, draft, inflight, held, budget>>

(* The snapshot is complete: publish it and wait for the next notice.      *)
Update ==
  /\ refresher = "reading"
  /\ \E next \in World : (\A p \in Parts : draft[p] = {next[p]}) /\ Publish(Available(next))
  /\ refresher' = "receiving"
  /\ UNCHANGED <<world, monitor, notice, draft, inflight, held, budget>>

(* backend.snapshot() fails: that, too, is a published value.              *)
UpdateFailed ==
  /\ refresher = "reading"
  /\ budget.failures > 0
  /\ budget' = [budget EXCEPT !.failures = @ - 1]
  /\ Publish(Without("unavailable"))
  /\ refresher' = "receiving"
  /\ UNCHANGED <<world, monitor, notice, draft, inflight, held>>

-----------------------------------------------------------------------------
(* forward_watch: take the latest value, whatever was skipped, and emit it.*)
Forward ==
  /\ unsent
  /\ unsent' = FALSE
  /\ inflight' = inflight \cup {pub}
  /\ UNCHANGED <<world, monitor, notice, refresher, draft, pub, held, budget>>

(* bluetooth.snapshot captures value and watermark in one borrow.          *)
CachedRead ==
  /\ budget.reads > 0
  /\ budget' = [budget EXCEPT !.reads = @ - 1]
  /\ inflight' = inflight \cup {pub}
  /\ UNCHANGED <<world, monitor, notice, refresher, draft, pub, unsent, held>>

(* The client's rule for a record, as the README states it.                *)
Accepts(x) ==
  \A old \in held :
    \/ x.epoch = old.epoch /\ x.revision > old.revision
    \/ old.epoch \in x.previous

(* Events and replies arrive in any order.                                 *)
Deliver(x) ==
  /\ inflight' = inflight \ {x}
  /\ held' = IF Accepts(x) THEN {x} ELSE held
  /\ UNCHANGED <<world, monitor, notice, refresher, draft, pub, unsent, budget>>

Monitor == MonitorNotifies \/ MonitorSubscribes

Refresher == Receive \/ Drain \/ (\E p \in Parts : ReadPart(p)) \/ Update

Next ==
  \/ \E p \in Parts : WorldChanges(p)
  \/ MonitorFails
  \/ Monitor
  \/ Refresher
  \/ UpdateFailed
  \/ Forward
  \/ CachedRead
  \/ \E x \in inflight : Deliver(x)

(***************************************************************************)
(* The daemon's tasks are polled when they can run and what was sent       *)
(* arrives.  Nothing forces changes, failures or reads.                    *)
(***************************************************************************)
Fairness ==
  /\ WF_vars(Monitor)
  /\ WF_vars(Refresher)
  /\ WF_vars(Forward)
  /\ WF_vars(\E x \in inflight : Deliver(x))

Spec == Init /\ [][Next]_vars

FairSpec == Spec /\ Fairness

-----------------------------------------------------------------------------
TypeOK ==
  /\ world \in World
  /\ monitor \in {"up", "failed", "subscribing"}
  /\ notice \in BOOLEAN
  /\ refresher \in {"receiving", "sleeping", "reading"}
  /\ draft \in [Parts -> SUBSET BOOLEAN]
  /\ pub \in Record
  /\ unsent \in BOOLEAN
  /\ inflight \in SUBSET Record
  /\ held \in SUBSET Record
  /\ budget \in Budget

Records == inflight \cup held \cup {pub}

(***************************************************************************)
(* A watermark names one state: no two records a client can ever compare   *)
(* carry the same epoch and revision with different values.                *)
(***************************************************************************)
WatermarkNamesState ==
  \A x, y \in Records :
    x.epoch = y.epoch /\ x.revision = y.revision => x.value = y.value

Older(x, y) ==
  x.epoch < y.epoch \/ (x.epoch = y.epoch /\ x.revision < y.revision)

(***************************************************************************)
(* Late replies, coalesced events and exhausted epochs never make a client *)
(* go back: what replaces a record was published after it.                 *)
(***************************************************************************)
ClientNeverRegresses ==
  [][\A x \in held, y \in held' : x # y => Older(x, y)]_vars

(***************************************************************************)
(* No change is lost between BlueZ and the client: once the world is quiet *)
(* the client ends up holding it, whatever was coalesced or torn, as long  *)
(* as no snapshot fails and the monitor keeps its subscriptions (neither   *)
(* is made good before the next change is noticed).                        *)
(***************************************************************************)
Undisturbed ==
  budget.failures = MaxReadFailures /\ budget.restarts = MaxRestarts

ClientConverges ==
  <>[](Undisturbed => \E x \in held : x.value = Available(world))
=============================================================================
