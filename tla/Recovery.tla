------------------------------ MODULE Recovery ------------------------------
(***************************************************************************)
(* BlueZ session recovery (src/src/bluez/recovery.rs and recovery/owner.rs *)
(* over the construction and shutdown of src/src/bluez.rs).                *)
(*                                                                         *)
(* One task watches who owns org.bluez and runs at most one replacement    *)
(* future: stop the current backend generation, then build, register and   *)
(* install the next.  The future is dropped at whatever await it is in     *)
(* when another owner change arrives.  `step' is that await.               *)
(*                                                                         *)
(* Abstracted: bus names (an owner change says only whether there is a new *)
(* owner), the number of workers of a kind, the one-second sleeps.  An     *)
(* aborted worker is gone at once.  At least one vendor provider starts.   *)
(***************************************************************************)
EXTENDS Naturals, Sequences

CONSTANTS
  MaxGenerations,  \* bound: backends constructed
  MaxChanges,      \* bound: changes of the owner of org.bluez
  MaxFailures      \* bound: bus calls and streams that fail with BlueZ up

ASSUME BoundsAssumption ==
  MaxGenerations \in Nat /\ MaxChanges \in Nat /\ MaxFailures \in Nat

Generations == 1..MaxGenerations
None == 0

VARIABLES
  up,         \* org.bluez has an owner
  life,       \* how often the owner has changed: names the BlueZ process
  failures,   \* failures so far
  monitor,    \* how far monitor_owner has got
  queue,      \* NameOwnerChanged signals not yet taken: is there a new owner
  step,       \* the await in which the replacement, or the cleanup after a
              \* failed monitor, is suspended
  target,     \* the owner change being served has a new owner
  created,    \* backends constructed so far
  built,      \* those that with_state has returned (history)
  half,       \* the backend inside BluezBackend::with_state
  candidate,  \* the backend owned by a Candidate that is not installed
  current,    \* RecoveringBackend::current
  agent,      \* the generation of RecoveringBackend::agent
  available,  \* RecoveringBackend::available
  workers,    \* workers[g]: the kinds of tasks generation g has running
  bound       \* bound[g]: the life of BlueZ that g has registered with

bluezVars == <<up, life>>
refs == <<half, candidate, current, agent>>
vars == <<up, life, failures, monitor, queue, step, target, created, built,
          half, candidate, current, agent, available, workers, bound>>

Kinds == {"core", "providers"}
Stopping == {"stop core", "stop providers", "stop clear", "stop agent"}
Owning == {"register", "policy", "install"}
Steps == {"none", "build", "half", "retry"} \cup Stopping \cup Owning

(* Mutant: the owner is queried first and then the signal subscribed to.   *)
ListeningAfterQuery == monitor = "driving"

(* NameOwnerChanged is subscribed to before NameHasOwner is called.        *)
Listening == monitor \in {"subscribed", "answered", "driving"}

MayFail == failures < MaxFailures

Init ==
  /\ up \in BOOLEAN
  /\ life = 0
  /\ failures = 0
  /\ monitor = "connecting"
  /\ queue = <<>>
  /\ step = "none"
  /\ target = FALSE
  /\ created = 0
  /\ built = {}
  /\ half = None /\ candidate = None /\ current = None /\ agent = None
  /\ available = FALSE
  /\ workers = [g \in Generations |-> {}]
  /\ bound = [g \in Generations |-> 0]

-----------------------------------------------------------------------------
(* The owner of org.bluez appears, goes, or is replaced.                   *)
BluezChanges ==
  /\ life < MaxChanges
  /\ \E new \in BOOLEAN :
       /\ up \/ new
       /\ up' = new
       /\ queue' = IF Listening THEN Append(queue, new) ELSE queue
  /\ life' = life + 1
  /\ UNCHANGED <<failures, monitor, step, target, created, built, refs, available,
                 workers, bound>>

(***************************************************************************)
(* drop(replacement): Candidate::drop aborts the workers of a backend that *)
(* with_state has returned.  For one inside with_state there is no         *)
(* Candidate yet; the tasks of the providers that have started own the     *)
(* provider and run on.                                                    *)
(***************************************************************************)
DropReplacement ==
  /\ half' = None /\ candidate' = None
  /\ workers' = [g \in Generations |-> IF g = candidate THEN {} ELSE workers[g]]

(* Mutant: the API stays available until the old backend is shut down.     *)
InvalidateLater ==
  /\ DropReplacement
  /\ step' = "stop core"
  /\ UNCHANGED available

(* invalidate, then stop_generation as the first thing of what follows.    *)
InvalidateAndStop ==
  /\ DropReplacement
  /\ available' = FALSE
  /\ step' = "stop core"

Subscribe ==
  /\ monitor = "connecting"
  /\ monitor' = "subscribed"
  /\ UNCHANGED <<bluezVars, failures, queue, step, target, created, built, refs,
                 available, workers, bound>>

(* NameHasOwner answers; BlueZ may change again before the answer is used. *)
Query ==
  /\ monitor = "subscribed"
  /\ monitor' = "answered"
  /\ target' = up
  /\ UNCHANGED <<bluezVars, failures, queue, step, created, built, refs,
                 available, workers, bound>>

(* drive starts with the owner that the query has found.                   *)
Drive ==
  /\ monitor = "answered"
  /\ monitor' = "driving"
  /\ InvalidateAndStop
  /\ UNCHANGED <<bluezVars, failures, queue, target, created, built, current, agent,
                 bound>>

(* Mutant: a change is ignored while a replacement is in progress.         *)
OwnerEventIfIdle ==
  /\ monitor = "driving"
  /\ queue # <<>>
  /\ queue' = Tail(queue)
  /\ \/ step = "none" /\ target' = Head(queue) /\ InvalidateAndStop
     \/ step # "none" /\ UNCHANGED <<target, step, half, candidate, available, workers>>
  /\ UNCHANGED <<bluezVars, failures, monitor, created, built, current, agent, bound>>

(* drive: a new owner change replaces the replacement.                     *)
OwnerEvent ==
  /\ monitor = "driving"
  /\ queue # <<>>
  /\ queue' = Tail(queue)
  /\ target' = Head(queue)
  /\ InvalidateAndStop
  /\ UNCHANGED <<bluezVars, failures, monitor, created, built, current, agent, bound>>

(* monitor_owner returns an error: setup failed or the stream ended.       *)
MonitorFails ==
  /\ monitor # "failed"
  /\ MayFail
  /\ failures' = failures + 1
  /\ monitor' = "failed"
  /\ queue' = <<>>
  /\ InvalidateAndStop
  /\ UNCHANGED <<bluezVars, target, created, built, current, agent, bound>>

-----------------------------------------------------------------------------
(* The replacement, one await at a time.                                   *)
Moves(from, to) == step = from /\ step' = to

(* Mutant: the retiring generation is taken out before it is shut down.    *)
StopCoreTaken ==
  /\ Moves("stop core", "stop providers")
  /\ workers' = [g \in Generations |->
                   IF g = current THEN workers[g] \ {"core"} ELSE workers[g]]
  /\ current' = None
  /\ UNCHANGED <<bluezVars, failures, monitor, queue, target, created, built, half,
                 candidate, agent, available, bound>>

(* shutdown: self.tasks.shutdown().                                        *)
StopCore ==
  /\ Moves("stop core", "stop providers")
  /\ workers' = [g \in Generations |->
                   IF g = current THEN workers[g] \ {"core"} ELSE workers[g]]
  /\ UNCHANGED <<bluezVars, failures, monitor, queue, target, created, built, refs,
                 available, bound>>

(* shutdown: stop_discovery and the three providers' shutdown.             *)
StopProviders ==
  /\ Moves("stop providers", "stop clear")
  /\ workers' = [g \in Generations |->
                   IF g = current THEN workers[g] \ {"providers"} ELSE workers[g]]
  /\ UNCHANGED <<bluezVars, failures, monitor, queue, target, created, built, refs,
                 available, bound>>

(* current.take(); the lock of agent may suspend.                          *)
StopClear ==
  /\ Moves("stop clear", "stop agent")
  /\ current' = None
  /\ UNCHANGED <<bluezVars, failures, monitor, queue, target, created, built, half,
                 candidate, agent, available, workers, bound>>

(* agent.take(); then the replacement recovers or is over, or monitor_owner *)
(* is called again.                                                         *)
StopAgent ==
  /\ step = "stop agent"
  /\ agent' = None
  /\ \/ monitor = "driving" /\ target  /\ step' = "build" /\ UNCHANGED monitor
     \/ monitor = "driving" /\ ~target /\ step' = "none"  /\ UNCHANGED monitor
     \/ monitor = "failed"  /\ step' = "none" /\ monitor' = "connecting"
  /\ UNCHANGED <<bluezVars, failures, queue, target, created, built, half, candidate,
                 current, available, workers, bound>>

(* with_state up to the first provider, whose tasks run from here on.      *)
Build ==
  /\ Moves("build", "half")
  /\ up
  /\ created < MaxGenerations
  /\ created' = created + 1
  /\ half' = created'
  /\ workers' = [workers EXCEPT ![created'] = {"providers"}]
  /\ bound' = [bound EXCEPT ![created'] = life]
  /\ UNCHANGED <<bluezVars, failures, monitor, queue, target, built, candidate,
                 current, agent, available>>

(* A call fails: because BlueZ is gone, or for a reason of its own.        *)
CallFails == \/ ~up /\ UNCHANGED failures
             \/ up /\ MayFail /\ failures' = failures + 1

(* with_state fails before a provider has started.                         *)
BuildFails ==
  /\ Moves("build", "retry")
  /\ CallFails
  /\ UNCHANGED <<bluezVars, monitor, queue, target, created, built, refs, available,
                 workers, bound>>

(* The other providers have started, or are done without: a Candidate.     *)
BuildDone ==
  /\ Moves("half", "register")
  /\ candidate' = half
  /\ half' = None
  /\ built' = built \cup {half}
  /\ UNCHANGED <<bluezVars, failures, monitor, queue, target, created, current,
                 agent, available, workers, bound>>

Register ==
  /\ Moves("register", "policy")
  /\ up
  /\ UNCHANGED <<bluezVars, failures, monitor, queue, target, created, built, refs,
                 available, workers, bound>>

(* The error drops the Candidate.                                          *)
RegisterFails ==
  /\ Moves("register", "retry")
  /\ CallFails
  /\ DropReplacement
  /\ UNCHANGED <<bluezVars, monitor, queue, target, created, built, current, agent,
                 available, bound>>

(* apply_startup_policy, whose errors are logged; then the monitors start. *)
StartMonitoring ==
  /\ Moves("policy", "install")
  /\ workers' = [workers EXCEPT ![candidate] = Kinds]
  /\ UNCHANGED <<bluezVars, failures, monitor, queue, target, created, built, refs,
                 available, bound>>

(* recover: the candidate becomes the current generation.                  *)
Install ==
  /\ Moves("install", "none")
  /\ agent' = candidate
  /\ current' = candidate
  /\ candidate' = None
  /\ available' = TRUE
  /\ UNCHANGED <<bluezVars, failures, monitor, queue, target, created, built, half,
                 workers, bound>>

Retry ==
  /\ Moves("retry", "build")
  /\ UNCHANGED <<bluezVars, failures, monitor, queue, target, created, built, refs,
                 available, workers, bound>>

Stop == StopCore \/ StopProviders \/ StopClear \/ StopAgent
Recover == Build \/ BuildFails \/ BuildDone \/ Register \/ RegisterFails
           \/ StartMonitoring \/ Install \/ Retry
Watch == Subscribe \/ Query \/ Drive \/ OwnerEvent

Next == BluezChanges \/ MonitorFails \/ Watch \/ Stop \/ Recover

Spec == Init /\ [][Next]_vars

(***************************************************************************)
(* Bus calls are answered, queued signals are taken and the one-second     *)
(* sleeps end; nothing obliges BlueZ to change or a call to fail.          *)
(***************************************************************************)
FairSpec == Spec /\ WF_vars(Watch) /\ WF_vars(Stop) /\ WF_vars(Recover)

-----------------------------------------------------------------------------
(***************************************************************************)
(* Types, and which await holds which backend: one inside with_state while *)
(* `half', one in a Candidate from register_agent to installation.         *)
(***************************************************************************)
TypeOK ==
  /\ up \in BOOLEAN /\ target \in BOOLEAN /\ available \in BOOLEAN
  /\ life \in 0..MaxChanges
  /\ failures \in 0..MaxFailures
  /\ monitor \in {"connecting", "subscribed", "answered", "driving", "failed"}
  /\ queue \in Seq(BOOLEAN)
  /\ step \in Steps
  /\ created \in 0..MaxGenerations
  /\ built \subseteq 1..created
  /\ {half, candidate, current, agent} \subseteq 0..created
  /\ workers \in [Generations -> SUBSET Kinds]
  /\ bound \in [Generations -> 0..MaxChanges]
  /\ (half # None) <=> (step = "half")
  /\ (candidate # None) <=> (step \in Owning)

(***************************************************************************)
(* While callers are let through, the generation they get has its monitors *)
(* and providers running and its own pairing agent registered: `available' *)
(* is cleared before any part of a generation is stopped.                  *)
(***************************************************************************)
AvailableIsWhole ==
  available => /\ current # None
               /\ workers[current] = Kinds
               /\ agent = current

(***************************************************************************)
(* A generation whose BlueZ process has gone is offered to callers only as *)
(* long as the signal that will retire it is queued, also if it went while *)
(* its replacement was being built: no owner change passes unnoticed.      *)
(***************************************************************************)
NoUnnoticedRestart ==
  available => bound[current] = life \/ queue # <<>>

(***************************************************************************)
(* The workers of a backend that with_state has returned belong to the     *)
(* candidate or the current generation, wherever the replacement was       *)
(* dropped: a cancelled stop_generation is finished by the next pass and a *)
(* cancelled or failed candidate is released.                              *)
(***************************************************************************)
GenerationReleased ==
  \A g \in built : workers[g] # {} => g \in {current, candidate}

(***************************************************************************)
(* Once BlueZ and the bus have settled, the daemon ends up serving the     *)
(* process that is there, or with nothing installed if there is none,      *)
(* whichever replacement the changes have interrupted.                     *)
(***************************************************************************)
ServesLiveBluez ==
  <>[](IF up THEN available /\ bound[current] = life
             ELSE ~available /\ current = None /\ agent = None)
=============================================================================
