--------------------------- MODULE RecoveryProofs ---------------------------
(***************************************************************************)
(* The safety of session recovery, for any number of generations, of owner *)
(* changes and of failures.                                                *)
(***************************************************************************)
EXTENDS Recovery, TLAPS

(***************************************************************************)
(* The inductive invariant.  A replacement is under way only while nothing *)
(* is offered to callers, and it builds only once the generation before it *)
(* has been taken out and only while owner changes are listened to.        *)
(***************************************************************************)
Constructing == {"build", "half", "retry"} \cup Owning

IdleWhenAvailable ==
  available => step = "none" /\ monitor = "driving"

StoppedInOrder ==
  /\ step = "stop providers" /\ current # None => "core" \notin workers[current]
  /\ step = "stop clear" /\ current # None => workers[current] = {}
  /\ step \in {"stop agent"} \cup Constructing => current = None

ConstructingUnderWatch ==
  step \in Constructing => monitor = "driving"

CandidateIsWhole ==
  step = "install" => workers[candidate] = Kinds

(* What is being built was bound to the BlueZ that is there, or the signal *)
(* that will drop it is queued.                                            *)
BindingIsWatched ==
  /\ step = "half" => bound[half] = life \/ queue # <<>>
  /\ step \in Owning => bound[candidate] = life \/ queue # <<>>

IInv ==
  /\ TypeOK
  /\ IdleWhenAvailable
  /\ StoppedInOrder
  /\ ConstructingUnderWatch
  /\ CandidateIsWhole
  /\ BindingIsWatched
  /\ AvailableIsWhole
  /\ NoUnnoticedRestart
  /\ GenerationReleased

-----------------------------------------------------------------------------
(***************************************************************************)
(* A signal that is queued leaves the queue not empty, one that is taken   *)
(* leaves a queue.                                                         *)
(***************************************************************************)
LEMMA QueueFacts ==
  ASSUME NEW S, NEW q \in Seq(S)
  PROVE  /\ \A b \in S : Append(q, b) \in Seq(S) /\ Append(q, b) # <<>>
         /\ q # <<>> => Tail(q) \in Seq(S) /\ Head(q) \in S
         /\ <<>> \in Seq(S)
<1>1. ASSUME NEW b \in S PROVE Append(q, b) \in Seq(S) /\ Append(q, b) # <<>>
  <2>1. Append(q, b) \in Seq(S) /\ Len(Append(q, b)) = Len(q) + 1 /\ Len(q) \in Nat
    OBVIOUS
  <2> QED  BY <2>1
<1>2. ASSUME q # <<>> PROVE Tail(q) \in Seq(S) /\ Head(q) \in S
  BY <1>2
<1> QED  BY <1>1, <1>2

(***************************************************************************)
(* The initial state, in which nothing has been built.                     *)
(***************************************************************************)
LEMMA InitIInv == Init => IInv
<1> SUFFICES ASSUME Init PROVE IInv
  OBVIOUS
<1>1. TypeOK
  <2>1. up \in BOOLEAN /\ target \in BOOLEAN /\ available \in BOOLEAN
    BY Zenon DEF Init
  <2>2. queue \in Seq(BOOLEAN)
    BY DEF Init
  <2>3. /\ workers \in [Generations -> SUBSET Kinds]
        /\ bound \in [Generations -> 0..MaxChanges]
    BY BoundsAssumption DEF Init
  <2>4. /\ life \in 0..MaxChanges /\ failures \in 0..MaxFailures
        /\ created \in 0..MaxGenerations
        /\ built \subseteq 1..created
        /\ {half, candidate, current, agent} \subseteq 0..created
    BY BoundsAssumption DEF Init, None
  <2>5. /\ monitor \in {"connecting", "subscribed", "answered", "driving", "failed"}
        /\ step \in Steps
        /\ (half # None) <=> (step = "half")
        /\ (candidate # None) <=> (step \in Owning)
    BY DEF Init, Steps, Owning
  <2> QED  BY <2>1, <2>2, <2>3, <2>4, <2>5, Zenon DEF TypeOK
<1>2. IdleWhenAvailable /\ StoppedInOrder /\ ConstructingUnderWatch
      /\ CandidateIsWhole /\ BindingIsWatched
  BY DEF Init, IdleWhenAvailable, StoppedInOrder, ConstructingUnderWatch,
         CandidateIsWhole, BindingIsWatched, Constructing, Owning
<1>3. AvailableIsWhole /\ NoUnnoticedRestart /\ GenerationReleased
  BY DEF Init, AvailableIsWhole, NoUnnoticedRestart, GenerationReleased
<1> QED  BY <1>1, <1>2, <1>3 DEF IInv

(***************************************************************************)
(* Dropping the replacement, closing the door and starting to stop: from   *)
(* any await, whatever the replacement had built.                          *)
(***************************************************************************)
LEMMA InvalidatePreserves ==
  ASSUME IInv, InvalidateAndStop,
         UNCHANGED <<up, life, created, built, current, agent, bound>>,
         failures' \in 0..MaxFailures,
         monitor' \in {"connecting", "subscribed", "answered", "driving", "failed"},
         queue' \in Seq(BOOLEAN),
         target' \in BOOLEAN
  PROVE  IInv'
<1>1. TypeOK'
  BY DEF IInv, InvalidateAndStop, DropReplacement, TypeOK, Steps, Stopping,
         Owning, None, Generations, Kinds
<1>2. GenerationReleased'
  <2> SUFFICES ASSUME NEW g \in built', workers'[g] # {}
               PROVE  g \in {current', candidate'}
    BY DEF GenerationReleased
  <2>1. g \in built /\ g \in Generations
    BY BoundsAssumption DEF IInv, TypeOK, Generations
  <2>2. g # candidate /\ workers[g] # {}
    BY <2>1 DEF InvalidateAndStop, DropReplacement
  <2> QED  BY <2>1, <2>2 DEF IInv, GenerationReleased
<1>3. /\ IdleWhenAvailable' /\ StoppedInOrder' /\ ConstructingUnderWatch'
      /\ CandidateIsWhole' /\ BindingIsWatched'
      /\ AvailableIsWhole' /\ NoUnnoticedRestart'
  BY DEF InvalidateAndStop, IdleWhenAvailable, StoppedInOrder,
         ConstructingUnderWatch, CandidateIsWhole, BindingIsWatched,
         Constructing, Owning, AvailableIsWhole, NoUnnoticedRestart
<1> QED  BY <1>1, <1>2, <1>3 DEF IInv

(***************************************************************************)
(* Every step preserves it.                                                *)
(***************************************************************************)
LEMMA NextIInv == IInv /\ [Next]_vars => IInv'
<1> SUFFICES ASSUME IInv, [Next]_vars PROVE IInv'
  OBVIOUS
<1> USE DEF None
<1>a. /\ \A g \in {half, candidate, current, agent} : g # None => g \in Generations
      /\ built \subseteq Generations
  BY BoundsAssumption DEF IInv, TypeOK, Generations
<1>1. CASE BluezChanges
  <2>1. TypeOK'
    <3>1. PICK new \in BOOLEAN :
            /\ up' = new
            /\ queue' = IF Listening THEN Append(queue, new) ELSE queue
      BY <1>1 DEF BluezChanges
    <3>2. queue' \in Seq(BOOLEAN)
      BY <3>1, QueueFacts DEF IInv, TypeOK
    <3>3. up' \in BOOLEAN
      BY <3>1
    <3>4. life' \in 0..MaxChanges
      BY <1>1, BoundsAssumption DEF IInv, TypeOK, BluezChanges
    <3> QED  BY <1>1, <3>2, <3>3, <3>4 DEF IInv, TypeOK, BluezChanges, refs
  <2>2. IdleWhenAvailable' /\ StoppedInOrder' /\ ConstructingUnderWatch'
    BY <1>1 DEF IInv, BluezChanges, refs, IdleWhenAvailable, StoppedInOrder,
       ConstructingUnderWatch
  <2>3. CandidateIsWhole' /\ BindingIsWatched'
    BY <1>1, QueueFacts DEF IInv, TypeOK, BluezChanges, Listening, refs,
       ConstructingUnderWatch, CandidateIsWhole, BindingIsWatched,
       Constructing
  <2>4. AvailableIsWhole' /\ NoUnnoticedRestart'
    BY <1>1, QueueFacts DEF IInv, TypeOK, BluezChanges, Listening, refs,
       IdleWhenAvailable, AvailableIsWhole, NoUnnoticedRestart
  <2>5. GenerationReleased'
    BY <1>1 DEF IInv, BluezChanges, refs, GenerationReleased
  <2> QED  BY <2>1, <2>2, <2>3, <2>4, <2>5 DEF IInv
<1>2. CASE MonitorFails
  <2>1. /\ InvalidateAndStop
        /\ UNCHANGED <<up, life, created, built, current, agent, bound>>
    BY <1>2 DEF MonitorFails, bluezVars
  <2>2. /\ failures' \in 0..MaxFailures
        /\ monitor' \in {"connecting", "subscribed", "answered", "driving", "failed"}
        /\ queue' \in Seq(BOOLEAN)
        /\ target' \in BOOLEAN
    BY <1>2, BoundsAssumption DEF IInv, TypeOK, MonitorFails, MayFail
  <2> QED  BY <2>1, <2>2, InvalidatePreserves
<1>3. CASE Subscribe
  <2>1. TypeOK'
    BY <1>3 DEF IInv, TypeOK, Subscribe, bluezVars, refs
  <2>2. IdleWhenAvailable' /\ StoppedInOrder' /\ ConstructingUnderWatch'
    BY <1>3 DEF IInv, Subscribe, refs, IdleWhenAvailable, StoppedInOrder,
       ConstructingUnderWatch
  <2>3. CandidateIsWhole' /\ BindingIsWatched'
    BY <1>3 DEF IInv, Subscribe, ConstructingUnderWatch, CandidateIsWhole,
       BindingIsWatched, Constructing, Owning
  <2>4. AvailableIsWhole' /\ NoUnnoticedRestart'
    BY <1>3 DEF IInv, Subscribe, IdleWhenAvailable, AvailableIsWhole,
       NoUnnoticedRestart
  <2>5. GenerationReleased'
    BY <1>3 DEF IInv, Subscribe, refs, GenerationReleased
  <2> QED  BY <2>1, <2>2, <2>3, <2>4, <2>5 DEF IInv
<1>4. CASE Query
  <2>1. TypeOK'
    BY <1>4 DEF IInv, TypeOK, Query, bluezVars, refs
  <2>2. IdleWhenAvailable' /\ StoppedInOrder' /\ ConstructingUnderWatch'
    BY <1>4 DEF IInv, Query, refs, IdleWhenAvailable, StoppedInOrder,
       ConstructingUnderWatch
  <2>3. CandidateIsWhole' /\ BindingIsWatched'
    BY <1>4 DEF IInv, Query, ConstructingUnderWatch, CandidateIsWhole,
       BindingIsWatched, Constructing, Owning
  <2>4. AvailableIsWhole' /\ NoUnnoticedRestart'
    BY <1>4 DEF IInv, Query, IdleWhenAvailable, AvailableIsWhole,
       NoUnnoticedRestart
  <2>5. GenerationReleased'
    BY <1>4 DEF IInv, Query, refs, GenerationReleased
  <2> QED  BY <2>1, <2>2, <2>3, <2>4, <2>5 DEF IInv
<1>5. CASE OwnerEvent
  <2>1. /\ InvalidateAndStop
        /\ UNCHANGED <<up, life, created, built, current, agent, bound>>
    BY <1>5 DEF OwnerEvent, bluezVars
  <2>2. /\ failures' \in 0..MaxFailures
        /\ monitor' \in {"connecting", "subscribed", "answered", "driving", "failed"}
        /\ queue' \in Seq(BOOLEAN)
        /\ target' \in BOOLEAN
    BY <1>5 DEF IInv, TypeOK, OwnerEvent
  <2> QED  BY <2>1, <2>2, InvalidatePreserves
<1>6. CASE StopCore
  <2>1. TypeOK'
    BY <1>6 DEF IInv, TypeOK, StopCore, Moves, bluezVars, refs, Steps,
       Stopping, Owning
  <2>a. current # None => workers'[current] = workers[current] \ {"core"}
    BY <1>6, <1>a DEF IInv, StopCore
  <2>2. IdleWhenAvailable' /\ StoppedInOrder' /\ ConstructingUnderWatch'
    BY <1>6, <2>a DEF IInv, StopCore, Moves, refs, IdleWhenAvailable,
       StoppedInOrder, ConstructingUnderWatch, Constructing, Owning
  <2>3. CandidateIsWhole' /\ BindingIsWatched'
    BY <1>6 DEF IInv, StopCore, Moves, CandidateIsWhole, BindingIsWatched,
       Owning
  <2>4. AvailableIsWhole' /\ NoUnnoticedRestart'
    BY <1>6 DEF IInv, StopCore, Moves, IdleWhenAvailable, AvailableIsWhole,
       NoUnnoticedRestart
  <2>5. GenerationReleased'
    <3>1. \A g \in built : workers'[g] \subseteq workers[g]
      BY <1>6, <1>a DEF StopCore
    <3> QED  BY <1>6, <3>1 DEF IInv, StopCore, refs, GenerationReleased
  <2> QED  BY <2>1, <2>2, <2>3, <2>4, <2>5 DEF IInv
<1>7. CASE StopProviders
  <2>1. TypeOK'
    BY <1>7 DEF IInv, TypeOK, StopProviders, Moves, bluezVars, refs, Steps,
       Stopping, Owning
  <2>a. current # None => workers'[current] = {}
    BY <1>7, <1>a DEF IInv, TypeOK, StopProviders, Moves, StoppedInOrder,
       Kinds
  <2>2. IdleWhenAvailable' /\ StoppedInOrder' /\ ConstructingUnderWatch'
    BY <1>7, <2>a DEF IInv, StopProviders, Moves, refs, IdleWhenAvailable,
       StoppedInOrder, ConstructingUnderWatch, Constructing, Owning
  <2>3. CandidateIsWhole' /\ BindingIsWatched'
    BY <1>7 DEF IInv, StopProviders, Moves, CandidateIsWhole,
       BindingIsWatched, Owning
  <2>4. AvailableIsWhole' /\ NoUnnoticedRestart'
    BY <1>7 DEF IInv, StopProviders, Moves, StoppedInOrder, Kinds,
       AvailableIsWhole, NoUnnoticedRestart
  <2>5. GenerationReleased'
    <3>1. \A g \in built : workers'[g] \subseteq workers[g]
      BY <1>7, <1>a DEF StopProviders
    <3> QED  BY <1>7, <3>1 DEF IInv, StopProviders, refs, GenerationReleased
  <2> QED  BY <2>1, <2>2, <2>3, <2>4, <2>5 DEF IInv
<1>8. CASE StopClear
  <2>1. TypeOK'
    BY <1>8 DEF IInv, TypeOK, StopClear, Moves, bluezVars, Steps, Stopping,
       Owning
  <2>2. IdleWhenAvailable' /\ StoppedInOrder' /\ ConstructingUnderWatch'
    BY <1>8 DEF IInv, StopClear, Moves, IdleWhenAvailable, StoppedInOrder,
       ConstructingUnderWatch, Constructing, Owning
  <2>3. CandidateIsWhole' /\ BindingIsWatched'
    BY <1>8 DEF IInv, StopClear, Moves, CandidateIsWhole, BindingIsWatched,
       Owning
  <2>4. AvailableIsWhole' /\ NoUnnoticedRestart'
    BY <1>8 DEF IInv, StopClear, Moves, StoppedInOrder, Kinds,
       AvailableIsWhole, NoUnnoticedRestart
  <2>5. GenerationReleased'
    BY <1>8 DEF IInv, StopClear, Moves, StoppedInOrder, GenerationReleased
  <2> QED  BY <2>1, <2>2, <2>3, <2>4, <2>5 DEF IInv
<1>9. CASE StopAgent
  <2>1. TypeOK'
    BY <1>9 DEF IInv, TypeOK, StopAgent, bluezVars, Steps, Owning
  <2>2. IdleWhenAvailable' /\ StoppedInOrder' /\ ConstructingUnderWatch'
    BY <1>9 DEF IInv, StopAgent, IdleWhenAvailable, StoppedInOrder,
       ConstructingUnderWatch, Constructing, Owning
  <2>3. CandidateIsWhole' /\ BindingIsWatched'
    BY <1>9 DEF IInv, StopAgent, CandidateIsWhole, BindingIsWatched, Owning
  <2>4. AvailableIsWhole' /\ NoUnnoticedRestart'
    BY <1>9 DEF IInv, StopAgent, StoppedInOrder, AvailableIsWhole,
       NoUnnoticedRestart
  <2>5. GenerationReleased'
    BY <1>9 DEF IInv, StopAgent, GenerationReleased
  <2> QED  BY <2>1, <2>2, <2>3, <2>4, <2>5 DEF IInv
<1>10. CASE Build
  <2>1. TypeOK'
    BY <1>10, BoundsAssumption DEF IInv, TypeOK, Build, Moves, bluezVars,
       Steps, Owning, Generations, Kinds
  <2>2. IdleWhenAvailable' /\ StoppedInOrder' /\ ConstructingUnderWatch'
    BY <1>10 DEF IInv, Build, Moves, IdleWhenAvailable, StoppedInOrder,
       ConstructingUnderWatch, Constructing
  <2>3. CandidateIsWhole' /\ BindingIsWatched'
    BY <1>10, BoundsAssumption DEF IInv, TypeOK, Build, Moves, bluezVars,
       CandidateIsWhole, BindingIsWatched, Owning, Generations, Kinds
  <2>4. AvailableIsWhole' /\ NoUnnoticedRestart'
    BY <1>10 DEF IInv, Build, Moves, StoppedInOrder, Constructing,
       AvailableIsWhole, NoUnnoticedRestart
  <2>5. GenerationReleased'
    BY <1>10 DEF IInv, TypeOK, Build, Moves, GenerationReleased
  <2> QED  BY <2>1, <2>2, <2>3, <2>4, <2>5 DEF IInv
<1>11. CASE BuildFails
  <2>1. TypeOK'
    BY <1>11, BoundsAssumption DEF IInv, TypeOK, BuildFails, CallFails,
       MayFail, Moves, bluezVars, refs, Steps, Owning
  <2>2. IdleWhenAvailable' /\ StoppedInOrder' /\ ConstructingUnderWatch'
    BY <1>11 DEF IInv, BuildFails, Moves, refs, IdleWhenAvailable,
       StoppedInOrder, ConstructingUnderWatch, Constructing
  <2>3. CandidateIsWhole' /\ BindingIsWatched'
    BY <1>11 DEF IInv, BuildFails, Moves, CandidateIsWhole, BindingIsWatched,
       Owning
  <2>4. AvailableIsWhole' /\ NoUnnoticedRestart'
    BY <1>11 DEF IInv, BuildFails, Moves, StoppedInOrder, Constructing,
       AvailableIsWhole, NoUnnoticedRestart
  <2>5. GenerationReleased'
    BY <1>11 DEF IInv, BuildFails, refs, GenerationReleased
  <2> QED  BY <2>1, <2>2, <2>3, <2>4, <2>5 DEF IInv
<1>12. CASE BuildDone
  <2>1. TypeOK'
    <3>1. half # None /\ half \in 1..created /\ created \in Nat
      BY <1>12 DEF IInv, TypeOK, BuildDone, Moves
    <3>2. /\ built' \subseteq 1..created'
          /\ {half', candidate', current', agent'} \subseteq 0..created'
      BY <1>12, <3>1 DEF IInv, TypeOK, BuildDone
    <3>3. /\ step' \in Steps
          /\ (half' # None) <=> (step' = "half")
          /\ (candidate' # None) <=> (step' \in Owning)
      BY <1>12, <3>1 DEF BuildDone, Moves, Steps, Owning
    <3> QED  BY <1>12, <3>2, <3>3 DEF IInv, TypeOK, BuildDone, bluezVars
  <2>2. IdleWhenAvailable' /\ StoppedInOrder' /\ ConstructingUnderWatch'
    BY <1>12 DEF IInv, BuildDone, Moves, IdleWhenAvailable, StoppedInOrder,
       ConstructingUnderWatch, Constructing
  <2>3. CandidateIsWhole' /\ BindingIsWatched'
    BY <1>12 DEF IInv, BuildDone, Moves, bluezVars, CandidateIsWhole,
       BindingIsWatched
  <2>4. AvailableIsWhole' /\ NoUnnoticedRestart'
    BY <1>12 DEF IInv, BuildDone, bluezVars, AvailableIsWhole,
       NoUnnoticedRestart
  <2>5. GenerationReleased'
    BY <1>12 DEF IInv, TypeOK, BuildDone, Moves, Owning, GenerationReleased
  <2> QED  BY <2>1, <2>2, <2>3, <2>4, <2>5 DEF IInv
<1>13. CASE Register
  <2>1. TypeOK'
    BY <1>13 DEF IInv, TypeOK, Register, Moves, bluezVars, refs, Steps, Owning
  <2>2. IdleWhenAvailable' /\ StoppedInOrder' /\ ConstructingUnderWatch'
    BY <1>13 DEF IInv, Register, Moves, refs, IdleWhenAvailable,
       StoppedInOrder, ConstructingUnderWatch, Constructing, Owning
  <2>3. CandidateIsWhole' /\ BindingIsWatched'
    BY <1>13 DEF IInv, Register, Moves, bluezVars, refs, CandidateIsWhole,
       BindingIsWatched, Owning
  <2>4. AvailableIsWhole' /\ NoUnnoticedRestart'
    BY <1>13 DEF IInv, Register, Moves, StoppedInOrder, Constructing, Owning,
       AvailableIsWhole, NoUnnoticedRestart
  <2>5. GenerationReleased'
    BY <1>13 DEF IInv, Register, refs, GenerationReleased
  <2> QED  BY <2>1, <2>2, <2>3, <2>4, <2>5 DEF IInv
<1>14. CASE RegisterFails
  <2>1. TypeOK'
    BY <1>14, BoundsAssumption DEF IInv, TypeOK, RegisterFails, CallFails,
       MayFail, DropReplacement, Moves, bluezVars, Steps, Owning
  <2>2. IdleWhenAvailable' /\ StoppedInOrder' /\ ConstructingUnderWatch'
    BY <1>14 DEF IInv, RegisterFails, Moves, IdleWhenAvailable,
       StoppedInOrder, ConstructingUnderWatch, Constructing, Owning
  <2>3. CandidateIsWhole' /\ BindingIsWatched'
    BY <1>14 DEF IInv, RegisterFails, Moves, CandidateIsWhole,
       BindingIsWatched, Owning
  <2>4. AvailableIsWhole' /\ NoUnnoticedRestart'
    BY <1>14 DEF IInv, RegisterFails, Moves, StoppedInOrder, Constructing,
       Owning, AvailableIsWhole, NoUnnoticedRestart
  <2>5. GenerationReleased'
    <3>1. \A g \in built : g # candidate => workers'[g] = workers[g]
      BY <1>14, <1>a DEF RegisterFails, DropReplacement
    <3>2. \A g \in built : g = candidate => workers'[g] = {}
      BY <1>14, <1>a DEF RegisterFails, DropReplacement
    <3> QED  BY <1>14, <3>1, <3>2 DEF IInv, RegisterFails, GenerationReleased
  <2> QED  BY <2>1, <2>2, <2>3, <2>4, <2>5 DEF IInv
<1>15. CASE StartMonitoring
  <2>1. TypeOK'
    BY <1>15 DEF IInv, TypeOK, StartMonitoring, Moves, bluezVars, refs, Steps,
       Owning
  <2>2. IdleWhenAvailable' /\ StoppedInOrder' /\ ConstructingUnderWatch'
    BY <1>15 DEF IInv, StartMonitoring, Moves, refs, IdleWhenAvailable,
       StoppedInOrder, ConstructingUnderWatch, Constructing, Owning
  <2>3. CandidateIsWhole' /\ BindingIsWatched'
    BY <1>15, BoundsAssumption DEF IInv, TypeOK, StartMonitoring, Moves,
       bluezVars, refs, CandidateIsWhole, BindingIsWatched, Owning,
       Generations
  <2>4. AvailableIsWhole' /\ NoUnnoticedRestart'
    BY <1>15 DEF IInv, StartMonitoring, Moves, StoppedInOrder, Constructing,
       Owning, AvailableIsWhole, NoUnnoticedRestart
  <2>5. GenerationReleased'
    BY <1>15 DEF IInv, StartMonitoring, Moves, refs, GenerationReleased
  <2> QED  BY <2>1, <2>2, <2>3, <2>4, <2>5 DEF IInv
<1>16. CASE Install
  <2>1. TypeOK'
    BY <1>16 DEF IInv, TypeOK, Install, Moves, bluezVars, Steps, Owning
  <2>2. IdleWhenAvailable' /\ StoppedInOrder' /\ ConstructingUnderWatch'
    BY <1>16 DEF IInv, Install, Moves, IdleWhenAvailable, StoppedInOrder,
       ConstructingUnderWatch, Constructing, Owning
  <2>3. CandidateIsWhole' /\ BindingIsWatched'
    BY <1>16 DEF IInv, Install, Moves, CandidateIsWhole, BindingIsWatched,
       Owning
  <2>4. AvailableIsWhole' /\ NoUnnoticedRestart'
    BY <1>16 DEF IInv, TypeOK, Install, Moves, bluezVars, CandidateIsWhole,
       BindingIsWatched, Owning, AvailableIsWhole, NoUnnoticedRestart
  <2>5. GenerationReleased'
    BY <1>16 DEF IInv, Install, Moves, StoppedInOrder, Constructing, Owning,
       GenerationReleased
  <2> QED  BY <2>1, <2>2, <2>3, <2>4, <2>5 DEF IInv
<1>17. CASE Retry
  <2>1. TypeOK'
    BY <1>17 DEF IInv, TypeOK, Retry, Moves, bluezVars, refs, Steps, Owning
  <2>2. IdleWhenAvailable' /\ StoppedInOrder' /\ ConstructingUnderWatch'
    BY <1>17 DEF IInv, Retry, Moves, refs, IdleWhenAvailable, StoppedInOrder,
       ConstructingUnderWatch, Constructing
  <2>3. CandidateIsWhole' /\ BindingIsWatched'
    BY <1>17 DEF IInv, Retry, Moves, CandidateIsWhole, BindingIsWatched,
       Owning
  <2>4. AvailableIsWhole' /\ NoUnnoticedRestart'
    BY <1>17 DEF IInv, Retry, Moves, StoppedInOrder, Constructing,
       AvailableIsWhole, NoUnnoticedRestart
  <2>5. GenerationReleased'
    BY <1>17 DEF IInv, Retry, refs, GenerationReleased
  <2> QED  BY <2>1, <2>2, <2>3, <2>4, <2>5 DEF IInv
<1>18. CASE Drive
  <2>1. /\ InvalidateAndStop
        /\ UNCHANGED <<up, life, created, built, current, agent, bound>>
    BY <1>18 DEF Drive, bluezVars
  <2>2. /\ failures' \in 0..MaxFailures
        /\ monitor' \in {"connecting", "subscribed", "answered", "driving", "failed"}
        /\ queue' \in Seq(BOOLEAN)
        /\ target' \in BOOLEAN
    BY <1>18 DEF IInv, TypeOK, Drive
  <2> QED  BY <2>1, <2>2, InvalidatePreserves
<1>19. CASE UNCHANGED vars
  BY <1>19 DEF IInv, vars, TypeOK, IdleWhenAvailable, StoppedInOrder,
     ConstructingUnderWatch, CandidateIsWhole, BindingIsWatched,
     AvailableIsWhole, NoUnnoticedRestart, GenerationReleased
<1> QED
  BY <1>1, <1>2, <1>3, <1>4, <1>5, <1>6, <1>7, <1>8, <1>9, <1>10, <1>11,
     <1>12, <1>13, <1>14, <1>15, <1>16, <1>17, <1>18, <1>19 DEF Next, Watch,
     Stop, Recover

(***************************************************************************)
(* The invariant holds in every reachable state.                           *)
(***************************************************************************)
THEOREM Invariance == Spec => []IInv
<1>1. Init => IInv
  BY InitIInv
<1>2. IInv /\ [Next]_vars => IInv'
  BY NextIInv
<1> QED  BY <1>1, <1>2, PTL DEF Spec

(***************************************************************************)
(* A caller that is let through gets a generation whose monitors and       *)
(* providers run and whose agent is registered, at whatever await a        *)
(* replacement is dropped.                                                 *)
(***************************************************************************)
THEOREM OnlyWholeGenerations == Spec => [](TypeOK /\ AvailableIsWhole)
<1>1. IInv => TypeOK /\ AvailableIsWhole
  BY DEF IInv
<1> QED  BY <1>1, Invariance, PTL

(***************************************************************************)
(* A generation bound to a BlueZ that has gone is offered only until the   *)
(* signal that says so is taken from the queue.                            *)
(***************************************************************************)
THEOREM RestartIsNoticed == Spec => []NoUnnoticedRestart
<1>1. IInv => NoUnnoticedRestart
  BY DEF IInv
<1> QED  BY <1>1, Invariance, PTL

(***************************************************************************)
(* No generation that was built keeps workers after it has been retired or *)
(* dropped.                                                                *)
(***************************************************************************)
THEOREM RetiredIsReleased == Spec => []GenerationReleased
<1>1. IInv => GenerationReleased
  BY DEF IInv
<1> QED  BY <1>1, Invariance, PTL
=============================================================================
