-------------------------- MODULE OperationsProofs --------------------------
(***************************************************************************)
(* The safety of the operation coordinator, for any number of requests,    *)
(* owners and devices, any limits and any revision space.                  *)
(***************************************************************************)
EXTENDS Operations, TLAPS

(***************************************************************************)
(* The inductive invariant.  An entry outlives its worker (WorkerHasEntry) *)
(* and no two entries share a device: that is what excludes two workers.   *)
(* An entry's next revision is always available, because an operation that *)
(* has not started is at revision 1 and progress keeps one in reserve.     *)
(***************************************************************************)
WorkerHasEntry ==
  \A r \in Requests : Running(r) => r \in active

EntriesExcludeEachOther ==
  \A r1, r2 \in active : device[r1] = device[r2] => r1 = r2

IssuedOnce ==
  \A r \in Requests :
    IF worker[r] = "none"
      THEN r \notin active /\ event[r].name = "none" /\ sent[r] = <<>>
      ELSE /\ event[r].name # "none"
           /\ device[r] \in Devices
           /\ event[r].revision = Len(sent[r]) + 1

RoomForTheTerminal ==
  \A r \in active :
    /\ event[r].revision < MaxRevision
    /\ worker[r] = "waiting" => event[r].revision = 1

HandleUntilCancelled ==
  \A r \in Requests :
    /\ r \in handle => r \in active /\ reaper[r] = "none"
    /\ reaper[r] # "none" => worker[r] # "none"

IInv ==
  /\ TypeOK
  /\ WorkerHasEntry
  /\ EntriesExcludeEachOther
  /\ IssuedOnce
  /\ RoomForTheTerminal
  /\ HandleUntilCancelled
  /\ ExactRevisions
  /\ StatusMatchesStream

-----------------------------------------------------------------------------
(***************************************************************************)
(* Sending appends exactly one record and leaves the earlier ones alone.   *)
(***************************************************************************)
LEMMA AppendFacts ==
  ASSUME NEW S, NEW s \in Seq(S), NEW e \in S
  PROVE  /\ Append(s, e) \in Seq(S)
         /\ Append(s, e) # <<>>
         /\ Len(s) \in Nat
         /\ Len(Append(s, e)) = Len(s) + 1
         /\ \A i \in 1..Len(s) : Append(s, e)[i] = s[i]
         /\ Append(s, e)[Len(s) + 1] = e
  OBVIOUS

(***************************************************************************)
(* One published transition of r: set_state, then send.  It is the only    *)
(* way an event changes after admission.                                   *)
(***************************************************************************)
LEMMA PublishedTransition ==
  ASSUME IInv, NEW r \in active, NEW name \in EventName \ {"none"},
         SetState(r, name), Send(r)
  PROVE  /\ event' \in [Requests -> Event]
         /\ sent' \in [Requests -> Seq(Event)]
         /\ event'[r] = [name |-> name, revision |-> event[r].revision + 1]
         /\ sent'[r] = Append(sent[r], event'[r])
         /\ \A q \in Requests \ {r} : event'[q] = event[q] /\ sent'[q] = sent[q]
         /\ sent'[r] # <<>>
         /\ event'[r].revision = Len(sent'[r]) + 1
         /\ event'[r] = sent'[r][Len(sent'[r])]
         /\ ExactRevisions'
<1>1. /\ r \in Requests
      /\ event[r] \in Event
      /\ event[r].revision \in Nat
      /\ event[r].revision < MaxRevision
      /\ event[r].revision = Len(sent[r]) + 1
      /\ event[r].name \notin Terminal
      /\ sent[r] \in Seq(Event)
      /\ worker[r] # "none"
  <2>1. r \in Requests
    BY DEF IInv, TypeOK
  <2>2. event[r] \in Event /\ sent[r] \in Seq(Event)
    BY <2>1 DEF IInv, TypeOK
  <2>3. event[r].revision \in Nat
    BY <2>2, RevisionSpace DEF Event
  <2>4. worker[r] # "none" /\ event[r].revision = Len(sent[r]) + 1
    BY <2>1 DEF IInv, IssuedOnce
  <2>5. event[r].name \notin Terminal
    BY <2>1, <2>4 DEF IInv, StatusMatchesStream
  <2>6. event[r].revision < MaxRevision
    BY DEF IInv, RoomForTheTerminal
  <2> QED  BY <2>1, <2>2, <2>3, <2>4, <2>5, <2>6
<1>2. /\ event'[r] = [name |-> name, revision |-> event[r].revision + 1]
      /\ event'[r] \in Event
      /\ event' \in [Requests -> Event]
      /\ \A q \in Requests \ {r} : event'[q] = event[q]
  BY <1>1, RevisionSpace DEF SetState, IInv, TypeOK, Event
<1>3. /\ sent'[r] = Append(sent[r], event'[r])
      /\ \A q \in Requests \ {r} : sent'[q] = sent[q]
  BY <1>1 DEF Send, IInv, TypeOK
<1>4. /\ sent'[r] \in Seq(Event)
      /\ sent'[r] # <<>>
      /\ Len(sent[r]) \in Nat
      /\ Len(sent'[r]) = Len(sent[r]) + 1
      /\ \A i \in 1..Len(sent[r]) : sent'[r][i] = sent[r][i]
      /\ sent'[r][Len(sent[r]) + 1] = event'[r]
  BY <1>1, <1>2, <1>3, AppendFacts
<1>5. sent' \in [Requests -> Seq(Event)]
  BY <1>1, <1>2, <1>4 DEF Send, IInv, TypeOK
<1>6. ExactRevisions'
  <2> SUFFICES ASSUME NEW q \in Requests, NEW i \in 1..Len(sent'[q])
               PROVE  /\ sent'[q][i].revision = i + 1
                      /\ sent'[q][i].revision <= MaxRevision
                      /\ sent'[q][i].name \in Terminal => i = Len(sent'[q])
    BY DEF ExactRevisions
  <2>1. CASE q # r
    BY <2>1, <1>3 DEF IInv, ExactRevisions
  <2>2. CASE q = r /\ i = Len(sent[r]) + 1
    BY <2>2, <1>1, <1>2, <1>4, RevisionSpace
  <2>3. CASE q = r /\ i \in 1..Len(sent[r])
    <3>1. sent[r][i].name \notin Terminal
      <4>1. sent[r] # <<>>
        BY <2>3, <1>1
      <4>2. event[r] = sent[r][Len(sent[r])]
        BY <4>1, <1>1 DEF IInv, StatusMatchesStream
      <4> QED  BY <4>2, <2>3, <1>1 DEF IInv, ExactRevisions
    <3> QED  BY <3>1, <2>3, <1>1, <1>4 DEF IInv, ExactRevisions
  <2> QED  BY <2>1, <2>2, <2>3, <1>1, <1>4
<1> QED  BY <1>1, <1>2, <1>3, <1>4, <1>5, <1>6

(***************************************************************************)
(* Retaining a result keeps RecentResults a sequence of identifiers.       *)
(***************************************************************************)
LEMMA RecordType ==
  ASSUME recent \in Seq(Requests), NEW r \in Requests, Record(r)
  PROVE  recent' \in Seq(Requests)
<1>1. Append(recent, r) \in Seq(Requests) /\ Append(recent, r) # <<>>
  BY AppendFacts
<1>2. Tail(Append(recent, r)) \in Seq(Requests)
  BY <1>1
<1> QED  BY <1>1, <1>2 DEF Record

(***************************************************************************)
(* A transition that keeps the entry (started, progress) preserves the     *)
(* invariant if it leaves room for the terminal revision.                  *)
(***************************************************************************)
LEMMA KeepingTheEntry ==
  ASSUME IInv, NEW r \in active, NEW name \in {"started", "progress"},
         SetState(r, name), Send(r),
         event[r].revision + 1 < MaxRevision,
         worker' \in [Requests -> WorkerState],
         worker'[r] \notin {"none", "waiting"},
         \A q \in Requests \ {r} : worker'[q] = worker[q],
         UNCHANGED <<owner, device, active, handle, reaper, recent>>
  PROVE  IInv'
<1>1. /\ r \in Requests
      /\ name \in EventName \ {"none"}
      /\ name \notin Terminal
      /\ worker[r] # "none"
  BY DEF IInv, TypeOK, IssuedOnce, EventName, Terminal
<1>2. /\ event' \in [Requests -> Event]
      /\ sent' \in [Requests -> Seq(Event)]
      /\ event'[r] = [name |-> name, revision |-> event[r].revision + 1]
      /\ \A q \in Requests \ {r} : event'[q] = event[q] /\ sent'[q] = sent[q]
      /\ sent'[r] # <<>>
      /\ event'[r].revision = Len(sent'[r]) + 1
      /\ event'[r] = sent'[r][Len(sent'[r])]
      /\ ExactRevisions'
  BY <1>1, PublishedTransition
<1>3. TypeOK'
  BY <1>2 DEF IInv, TypeOK
<1>4. WorkerHasEntry'
  BY DEF IInv, WorkerHasEntry, Running
<1>5. EntriesExcludeEachOther'
  BY DEF IInv, EntriesExcludeEachOther
<1>6. IssuedOnce'
  <2> SUFFICES ASSUME NEW q \in Requests
               PROVE  IF worker'[q] = "none"
                        THEN q \notin active' /\ event'[q].name = "none" /\ sent'[q] = <<>>
                        ELSE /\ event'[q].name # "none"
                             /\ device'[q] \in Devices
                             /\ event'[q].revision = Len(sent'[q]) + 1
    BY DEF IssuedOnce
  <2>1. CASE q = r
    BY <2>1, <1>1, <1>2 DEF IInv, IssuedOnce
  <2>2. CASE q # r
    BY <2>2, <1>2 DEF IInv, IssuedOnce
  <2> QED  BY <2>1, <2>2
<1>7. RoomForTheTerminal'
  <2> SUFFICES ASSUME NEW q \in active
               PROVE  /\ event'[q].revision < MaxRevision
                      /\ worker'[q] = "waiting" => event'[q].revision = 1
    BY DEF RoomForTheTerminal
  <2>1. q \in Requests
    BY DEF IInv, TypeOK
  <2>2. CASE q = r
    BY <2>2, <1>2
  <2>3. CASE q # r
    BY <2>1, <2>3, <1>2 DEF IInv, RoomForTheTerminal
  <2> QED  BY <2>2, <2>3
<1>8. HandleUntilCancelled'
  BY <1>1 DEF IInv, HandleUntilCancelled
<1>9. StatusMatchesStream'
  <2> SUFFICES ASSUME NEW q \in Requests
               PROVE  /\ sent'[q] # <<>> => event'[q] = sent'[q][Len(sent'[q])]
                      /\ worker'[q] # "none" =>
                           (q \in active' <=> event'[q].name \notin Terminal)
    BY DEF StatusMatchesStream
  <2>1. CASE q = r
    BY <2>1, <1>1, <1>2
  <2>2. CASE q # r
    BY <2>2, <1>2 DEF IInv, StatusMatchesStream
  <2> QED  BY <2>1, <2>2
<1> QED  BY <1>2, <1>3, <1>4, <1>5, <1>6, <1>7, <1>8, <1>9 DEF IInv

(***************************************************************************)
(* A terminal claim preserves the invariant, provided the claimed worker   *)
(* does not run any more.                                                  *)
(***************************************************************************)
LEMMA ClaimingTheEntry ==
  ASSUME IInv, NEW r \in active, NEW name \in Terminal,
         ClaimAndRetain(r, name),
         worker' \in [Requests -> WorkerState],
         worker'[r] \in {"done", "stopped"},
         \A q \in Requests \ {r} : worker'[q] = worker[q],
         reaper' \in [Requests -> {"none", "waiting", "done"}],
         \A q \in Requests \ {r} : reaper'[q] = reaper[q],
         UNCHANGED <<owner, device>>
  PROVE  IInv'
<1>1. /\ r \in Requests
      /\ name \in EventName \ {"none"}
      /\ worker[r] # "none"
      /\ SetState(r, name)
      /\ Send(r)
      /\ active' = active \ {r}
      /\ handle' = handle \ {r}
  BY DEF IInv, TypeOK, IssuedOnce, EventName, Terminal, ClaimAndRetain
<1>2. /\ event' \in [Requests -> Event]
      /\ sent' \in [Requests -> Seq(Event)]
      /\ event'[r] = [name |-> name, revision |-> event[r].revision + 1]
      /\ \A q \in Requests \ {r} : event'[q] = event[q] /\ sent'[q] = sent[q]
      /\ sent'[r] # <<>>
      /\ event'[r].revision = Len(sent'[r]) + 1
      /\ event'[r] = sent'[r][Len(sent'[r])]
      /\ ExactRevisions'
  BY <1>1, PublishedTransition
<1>3. TypeOK'
  <2>1. recent' \in Seq(Requests)
    BY <1>1, RecordType DEF IInv, TypeOK, ClaimAndRetain
  <2> QED  BY <1>1, <1>2, <2>1 DEF IInv, TypeOK
<1>4. WorkerHasEntry'
  BY <1>1 DEF IInv, WorkerHasEntry, Running
<1>5. EntriesExcludeEachOther'
  BY <1>1 DEF IInv, EntriesExcludeEachOther
<1>6. IssuedOnce'
  <2> SUFFICES ASSUME NEW q \in Requests
               PROVE  IF worker'[q] = "none"
                        THEN q \notin active' /\ event'[q].name = "none" /\ sent'[q] = <<>>
                        ELSE /\ event'[q].name # "none"
                             /\ device'[q] \in Devices
                             /\ event'[q].revision = Len(sent'[q]) + 1
    BY DEF IssuedOnce
  <2>1. CASE q = r
    BY <2>1, <1>1, <1>2 DEF IInv, IssuedOnce
  <2>2. CASE q # r
    BY <2>2, <1>1, <1>2 DEF IInv, IssuedOnce
  <2> QED  BY <2>1, <2>2
<1>7. RoomForTheTerminal'
  BY <1>1, <1>2 DEF IInv, TypeOK, RoomForTheTerminal
<1>8. HandleUntilCancelled'
  BY <1>1 DEF IInv, HandleUntilCancelled
<1>9. StatusMatchesStream'
  <2> SUFFICES ASSUME NEW q \in Requests
               PROVE  /\ sent'[q] # <<>> => event'[q] = sent'[q][Len(sent'[q])]
                      /\ worker'[q] # "none" =>
                           (q \in active' <=> event'[q].name \notin Terminal)
    BY DEF StatusMatchesStream
  <2>1. CASE q = r
    BY <2>1, <1>1, <1>2
  <2>2. CASE q # r
    BY <2>2, <1>1, <1>2 DEF IInv, StatusMatchesStream
  <2> QED  BY <2>1, <2>2
<1> QED  BY <1>2, <1>3, <1>4, <1>5, <1>6, <1>7, <1>8, <1>9 DEF IInv

(***************************************************************************)
(* No operation has been admitted at first.                                *)
(***************************************************************************)
LEMMA InitIInv == Init => IInv
<1> SUFFICES ASSUME Init PROVE IInv
  OBVIOUS
<1>1. TypeOK
  <2>1. [name |-> "none", revision |-> 0] \in Event
    BY RevisionSpace DEF Event, EventName
  <2> QED  BY <2>1 DEF Init, TypeOK, WorkerState
<1>2. /\ WorkerHasEntry
      /\ EntriesExcludeEachOther
      /\ IssuedOnce
      /\ RoomForTheTerminal
      /\ HandleUntilCancelled
      /\ ExactRevisions
      /\ StatusMatchesStream
  BY DEF Init, WorkerHasEntry, Running, EntriesExcludeEachOther, IssuedOnce,
         RoomForTheTerminal, HandleUntilCancelled, ExactRevisions,
         StatusMatchesStream
<1> QED  BY <1>1, <1>2 DEF IInv

(***************************************************************************)
(* Every step of the coordinator, its workers, its reapers and its late    *)
(* callbacks preserves the inductive invariant.                            *)
(***************************************************************************)
LEMMA NextIInv == IInv /\ [Next]_vars => IInv'
<1> SUFFICES ASSUME IInv, [Next]_vars PROVE IInv'
  OBVIOUS
<1>1. ASSUME NEW r \in Requests, NEW o \in Owners, NEW d \in Devices,
             StartOwned(r, o, d)
      PROVE  IInv'
  <2> DEFINE queued == [name |-> "queued", revision |-> 1]
  <2>1. queued \in Event /\ queued.name \notin Terminal /\ queued.name # "none"
    BY RevisionSpace DEF Event, EventName, Terminal
  <2>2. /\ r \notin active
        /\ sent[r] = <<>>
    BY <1>1 DEF StartOwned, IInv, IssuedOnce
  <2>3. /\ event'[r] = queued
        /\ device'[r] = d
        /\ worker'[r] = "waiting"
        /\ \A q \in Requests \ {r} :
             event'[q] = event[q] /\ device'[q] = device[q] /\ worker'[q] = worker[q]
        /\ active' = active \cup {r}
        /\ handle' = handle \cup {r}
        /\ sent' = sent
        /\ reaper' = reaper
    BY <1>1 DEF StartOwned, IInv, TypeOK
  <2>4. TypeOK'
    BY <1>1, <2>1 DEF StartOwned, IInv, TypeOK, WorkerState
  <2>5. WorkerHasEntry'
    BY <2>3 DEF IInv, WorkerHasEntry, Running
  <2>6. EntriesExcludeEachOther'
    <3>1. \A q \in active : device[q] # d
      BY <1>1 DEF StartOwned, Busy
    <3> QED  BY <2>2, <2>3, <3>1 DEF IInv, TypeOK, EntriesExcludeEachOther
  <2>7. IssuedOnce'
    BY <2>1, <2>2, <2>3 DEF IInv, IssuedOnce
  <2>8. RoomForTheTerminal'
    BY <2>3, RevisionSpace DEF IInv, TypeOK, RoomForTheTerminal
  <2>9. HandleUntilCancelled'
    BY <1>1, <2>3 DEF StartOwned, IInv, HandleUntilCancelled
  <2>10. ExactRevisions'
    BY <2>3 DEF IInv, ExactRevisions
  <2>11. StatusMatchesStream'
    BY <2>1, <2>2, <2>3 DEF IInv, StatusMatchesStream
  <2> QED  BY <2>4, <2>5, <2>6, <2>7, <2>8, <2>9, <2>10, <2>11 DEF IInv
<1>2. ASSUME NEW r \in Requests, PublishStarted(r)
      PROVE  IInv'
  <2>1. r \in active
    BY <1>2 DEF PublishStarted, IInv, WorkerHasEntry, Running
  <2>2. event[r].revision + 1 < MaxRevision
    BY <1>2, <2>1, RevisionSpace DEF PublishStarted, IInv, RoomForTheTerminal
  <2>3. /\ SetState(r, "started")
        /\ Send(r)
        /\ worker' = [worker EXCEPT ![r] = "backend"]
        /\ UNCHANGED <<owner, device, active, handle, reaper, recent>>
    BY <1>2, <2>1 DEF PublishStarted
  <2>4. /\ worker' \in [Requests -> WorkerState]
        /\ worker'[r] \notin {"none", "waiting"}
        /\ \A q \in Requests \ {r} : worker'[q] = worker[q]
    BY <2>3 DEF IInv, TypeOK, WorkerState
  <2> QED  BY <2>1, <2>2, <2>3, <2>4, KeepingTheEntry
<1>3. ASSUME NEW r \in Requests, Progress(r)
      PROVE  IInv'
  <2>1. /\ r \in active
        /\ SetState(r, "progress")
        /\ Send(r)
        /\ worker' = worker
        /\ UNCHANGED <<owner, device, active, handle, reaper, recent>>
        /\ worker[r] \notin {"none", "waiting"}
    BY <1>3 DEF Progress
  <2>2. event[r].revision \in Nat
    BY RevisionSpace DEF IInv, TypeOK, Event
  <2>3. event[r].revision + 1 < MaxRevision
    BY <1>3, <2>2, RevisionSpace DEF Progress
  <2>4. worker' \in [Requests -> WorkerState]
    BY <2>1 DEF IInv, TypeOK
  <2> QED  BY <2>1, <2>3, <2>4, KeepingTheEntry
<1>4. ASSUME NEW r \in Requests, Finish(r)
      PROVE  IInv'
  <2>1. r \in active
    BY <1>4 DEF Finish, IInv, WorkerHasEntry, Running
  <2>2. PICK name \in {"completed", "failed"} : ClaimAndRetain(r, name)
    BY <1>4, <2>1 DEF Finish
  <2>3. /\ worker' \in [Requests -> WorkerState]
        /\ worker'[r] \in {"done", "stopped"}
        /\ \A q \in Requests \ {r} : worker'[q] = worker[q]
        /\ reaper' \in [Requests -> {"none", "waiting", "done"}]
        /\ \A q \in Requests \ {r} : reaper'[q] = reaper[q]
        /\ UNCHANGED <<owner, device>>
    BY <1>4 DEF Finish, IInv, TypeOK, WorkerState
  <2>4. name \in Terminal
    BY DEF Terminal
  <2> QED  BY <2>1, <2>2, <2>3, <2>4, ClaimingTheEntry
<1>5. ASSUME NEW r \in Requests, NEW o \in Owners, CancelOwned(r, o)
      PROVE  IInv'
  <2>1. TypeOK'
    BY <1>5 DEF CancelOwned, IInv, TypeOK
  <2>2. HandleUntilCancelled'
    BY <1>5 DEF CancelOwned, IInv, TypeOK, HandleUntilCancelled, IssuedOnce
  <2>3. /\ WorkerHasEntry'
        /\ EntriesExcludeEachOther'
        /\ IssuedOnce'
        /\ RoomForTheTerminal'
        /\ ExactRevisions'
        /\ StatusMatchesStream'
    BY <1>5 DEF CancelOwned, IInv, WorkerHasEntry, Running,
         EntriesExcludeEachOther, IssuedOnce, RoomForTheTerminal,
         ExactRevisions, StatusMatchesStream
  <2> QED  BY <2>1, <2>2, <2>3 DEF IInv
<1>6. ASSUME NEW r \in Requests, WorkerStops(r)
      PROVE  IInv'
  <2>1. /\ worker' = [worker EXCEPT ![r] = "stopped"]
        /\ worker[r] # "none"
        /\ UNCHANGED <<owner, device, active, handle, event, reaper, recent, sent>>
    BY <1>6 DEF WorkerStops, Running
  <2>2. TypeOK'
    BY <2>1 DEF IInv, TypeOK, WorkerState
  <2>3. /\ WorkerHasEntry'
        /\ EntriesExcludeEachOther'
        /\ IssuedOnce'
        /\ RoomForTheTerminal'
        /\ HandleUntilCancelled'
        /\ ExactRevisions'
        /\ StatusMatchesStream'
    BY <2>1 DEF IInv, TypeOK, WorkerHasEntry, Running,
         EntriesExcludeEachOther, IssuedOnce, RoomForTheTerminal,
         HandleUntilCancelled, ExactRevisions, StatusMatchesStream
  <2> QED  BY <2>2, <2>3 DEF IInv
<1>7. ASSUME NEW r \in Requests, Reap(r)
      PROVE  IInv'
  <2>1. /\ worker' = worker
        /\ worker[r] \in {"done", "stopped"}
        /\ UNCHANGED <<owner, device>>
        /\ reaper' = [reaper EXCEPT ![r] = "done"]
    BY <1>7 DEF Reap, Running, IInv, TypeOK, WorkerState, HandleUntilCancelled
  <2>2. CASE r \in active
    <3>1. ClaimAndRetain(r, "cancelled")
      BY <1>7, <2>2 DEF Reap
    <3>2. /\ worker' \in [Requests -> WorkerState]
          /\ reaper' \in [Requests -> {"none", "waiting", "done"}]
          /\ \A q \in Requests \ {r} : reaper'[q] = reaper[q]
      BY <2>1 DEF IInv, TypeOK
    <3>3. "cancelled" \in Terminal
      BY DEF Terminal
    <3> QED  BY <2>1, <2>2, <3>1, <3>2, <3>3, ClaimingTheEntry
  <2>3. CASE r \notin active
    <3>1. UNCHANGED <<active, handle, event, recent, sent>>
      BY <1>7, <2>3 DEF Reap
    <3>2. TypeOK'
      BY <2>1, <3>1 DEF IInv, TypeOK
    <3>3. HandleUntilCancelled'
      BY <2>1, <2>3, <3>1 DEF IInv, TypeOK, HandleUntilCancelled
    <3>4. /\ WorkerHasEntry'
          /\ EntriesExcludeEachOther'
          /\ IssuedOnce'
          /\ RoomForTheTerminal'
          /\ ExactRevisions'
          /\ StatusMatchesStream'
      BY <2>1, <3>1 DEF IInv, WorkerHasEntry, Running,
           EntriesExcludeEachOther, IssuedOnce, RoomForTheTerminal,
           ExactRevisions, StatusMatchesStream
    <3> QED  BY <3>2, <3>3, <3>4 DEF IInv
  <2> QED  BY <2>2, <2>3
<1>8. CASE Expire
  <2>1. /\ recent' \in Seq(Requests)
        /\ UNCHANGED <<owner, device, active, handle, event, worker, reaper, sent>>
    BY <1>8 DEF Expire, IInv, TypeOK
  <2> QED  BY <2>1 DEF IInv, TypeOK, WorkerHasEntry, Running,
       EntriesExcludeEachOther, IssuedOnce, RoomForTheTerminal,
       HandleUntilCancelled, ExactRevisions, StatusMatchesStream
<1>9. CASE UNCHANGED vars
  BY <1>9 DEF vars, IInv, TypeOK, WorkerHasEntry, Running,
       EntriesExcludeEachOther, IssuedOnce, RoomForTheTerminal,
       HandleUntilCancelled, ExactRevisions, StatusMatchesStream
<1> QED  BY <1>1, <1>2, <1>3, <1>4, <1>5, <1>6, <1>7, <1>8, <1>9 DEF Next

(***************************************************************************)
(* The inductive invariant holds in every reachable state.                 *)
(***************************************************************************)
THEOREM Invariance == Spec => []IInv
BY InitIInv, NextIInv, PTL DEF Spec

(***************************************************************************)
(* However cancellations, completions and new admissions interleave, two   *)
(* workers never run against the same device: start_owned's device-busy    *)
(* check looks at entries, and an entry outlives its worker.               *)
(***************************************************************************)
THEOREM DeviceExclusion == Spec => []OneWorkerPerDevice
<1>1. IInv => OneWorkerPerDevice
  BY DEF IInv, WorkerHasEntry, EntriesExcludeEachOther, OneWorkerPerDevice
<1> QED  BY <1>1, Invariance, PTL

(***************************************************************************)
(* The records published about an operation carry the revisions 2, 3, ...  *)
(* without gap or repetition, none exceeds the exact range, and a terminal *)
(* record is the last one.                                                 *)
(***************************************************************************)
THEOREM ExactHistory == Spec => [](TypeOK /\ ExactRevisions /\ StatusMatchesStream)
<1>1. IInv => TypeOK /\ ExactRevisions /\ StatusMatchesStream
  BY DEF IInv
<1> QED  BY <1>1, Invariance, PTL

(***************************************************************************)
(* What operation_status answers from memory, the active table or the      *)
(* retained results, is always what the last event of the operation said.  *)
(***************************************************************************)
THEOREM StatusIsTheStream == Spec => []StatusMatchesStream
<1>1. IInv => StatusMatchesStream
  BY DEF IInv
<1> QED  BY <1>1, Invariance, PTL

(***************************************************************************)
(* Removing an entry and retaining its terminal event are one step, so no  *)
(* status read can fall between them.                                      *)
(***************************************************************************)
THEOREM RetentionHasNoHole == Spec => NoRetentionHole
<1>1. ASSUME IInv, [Next]_vars
      PROVE  [\A r \in active \ active' : Status(r, owner[r])' \in Terminal]_vars
  <2> SUFFICES ASSUME Next, NEW r \in active \ active'
               PROVE  /\ event'[r].name \in Terminal
                      /\ \E i \in 1..Len(recent') : recent'[i] = r
    BY <1>1 DEF Status, Retained
  <2>1. PICK q \in Requests, name \in Terminal : q \in active /\ ClaimAndRetain(q, name)
    <3>1. (\E q \in Requests : Finish(q)) \/ (\E q \in Requests : Reap(q))
      BY DEF Next, StartOwned, PublishStarted, Progress, CancelOwned, WorkerStops, Expire
    <3> QED  BY <3>1 DEF Finish, Reap, Terminal
  <2>2. q = r
    BY <2>1 DEF ClaimAndRetain
  <2>3. event'[r].name = name
    BY <1>1, <2>1, <2>2 DEF ClaimAndRetain, SetState, IInv, TypeOK
  <2>4. \E i \in 1..Len(recent') : recent'[i] = r
    <3> DEFINE all == Append(recent, r)
    <3>1. /\ recent \in Seq(Requests)
          /\ Len(recent) \in Nat
          /\ all \in Seq(Requests)
          /\ all # <<>>
          /\ Len(all) = Len(recent) + 1
          /\ all[Len(recent) + 1] = r
      <4>1. recent \in Seq(Requests) /\ r \in Requests
        BY <1>1, <2>1, <2>2 DEF IInv, TypeOK
      <4> QED  BY <4>1, AppendFacts
    <3>2. recent' = IF Len(all) > TerminalLimit THEN Tail(all) ELSE all
      BY <2>1, <2>2 DEF ClaimAndRetain, Record
    <3> HIDE DEF all
    <3>3. CASE Len(all) > TerminalLimit
      <4>1. TerminalLimit \in Nat /\ TerminalLimit > 0
        BY OperationLimits
      <4>2. Len(recent) > 0
        BY <3>1, <3>3, <4>1
      <4>3. /\ Len(Tail(all)) = Len(recent)
            /\ Tail(all)[Len(recent)] = all[Len(recent) + 1]
        BY <3>1, <4>2
      <4> QED  BY <3>1, <3>2, <3>3, <4>2, <4>3
    <3>4. CASE ~(Len(all) > TerminalLimit)
      BY <3>1, <3>2, <3>4
    <3> QED  BY <3>3, <3>4
  <2> QED  BY <2>3, <2>4
<1> QED  BY <1>1, Invariance, PTL DEF Spec, NoRetentionHole

(***************************************************************************)
(* CancelledStreamEnds: after an accepted cancellation nothing but the     *)
(* terminal record is published, whatever live or stale callbacks do, save *)
(* a started record that is the operation's first (publish_started looks   *)
(* for the entry, not for the handle).                                     *)
(***************************************************************************)
THEOREM CancellationEndsTheStream == Spec => CancelledStreamEnds
<1>1. ASSUME IInv, [Next]_vars
      PROVE  [\A r \in Requests :
                reaper[r] # "none" /\ sent'[r] # sent[r] =>
                  \/ event'[r].name \in Terminal
                  \/ event'[r].name = "started" /\ sent[r] = <<>>]_vars
  <2> SUFFICES ASSUME Next, NEW r \in Requests, reaper[r] # "none", sent'[r] # sent[r]
               PROVE  \/ event'[r].name \in Terminal
                      \/ event'[r].name = "started" /\ sent[r] = <<>>
    BY <1>1
  <2>1. /\ r \notin handle
        /\ event \in [Requests -> Event]
        /\ sent \in [Requests -> Seq(Event)]
    BY <1>1 DEF IInv, TypeOK, HandleUntilCancelled
  <2>2. ASSUME NEW q \in Requests, Progress(q) PROVE FALSE
    <3>1. q # r
      BY <2>1, <2>2 DEF Progress
    <3> QED  BY <2>1, <2>2, <3>1 DEF Progress, Send
  <2>3. ASSUME NEW q \in Requests, NEW name, SetState(q, name), Send(q)
        PROVE  q = r /\ event'[r].name = name
    <3>1. q = r
      BY <2>1, <2>3 DEF Send
    <3> QED  BY <2>1, <2>3, <3>1 DEF SetState
  <2>4. ASSUME NEW q \in Requests, PublishStarted(q)
        PROVE  event'[r].name = "started" /\ sent[r] = <<>>
    <3>1. q \in active /\ worker[q] = "waiting" /\ SetState(q, "started") /\ Send(q)
      BY <2>4 DEF PublishStarted
    <3>2. q = r /\ event'[r].name = "started"
      BY <2>3, <3>1
    <3>3. event[r].revision = 1 /\ event[r].revision = Len(sent[r]) + 1
      BY <1>1, <3>1, <3>2 DEF IInv, RoomForTheTerminal, IssuedOnce
    <3>4. Len(sent[r]) = 0
      <4>1. Len(sent[r]) \in Nat
        BY <2>1
      <4> QED  BY <3>3, <4>1
    <3> QED  BY <2>1, <3>2, <3>4
  <2>5. ASSUME NEW q \in Requests, Finish(q) \/ Reap(q) PROVE event'[r].name \in Terminal
    <3>1. PICK name \in Terminal : SetState(q, name) /\ Send(q)
      BY <2>5 DEF Finish, Reap, ClaimAndRetain, Terminal
    <3> QED  BY <2>3, <3>1
  <2> QED  BY <2>2, <2>4, <2>5
           DEF Next, StartOwned, CancelOwned, WorkerStops, Expire
<1> QED  BY <1>1, Invariance, PTL DEF Spec, CancelledStreamEnds

(***************************************************************************)
(* Every step of the coordinator is a step of the lifecycle promised to    *)
(* clients, or changes nothing a client can see.                           *)
(***************************************************************************)
THEOREM LifecycleRefinement == Spec => ImplementsLifecycle
<1>1. Init => Lifecycle!Init
  BY DEF Init, Lifecycle!Init, LifecyclePhase
<1>2. ASSUME IInv, IInv', [Next]_vars
      PROVE  [Lifecycle!Next]_(Lifecycle!vars)
  <2> DEFINE revisions == [r \in Requests |-> event[r].revision]
  <2>1. ASSUME NEW r \in active, NEW name \in EventName \ {"none"},
               SetState(r, name)
        PROVE  /\ LifecyclePhase[r] = "holding"
               /\ event[r].revision < MaxRevision
               /\ revisions' = [revisions EXCEPT ![r] = @ + 1]
               /\ LifecyclePhase' =
                    [LifecyclePhase EXCEPT ![r] = IF name \in Terminal THEN name ELSE "holding"]
    <3>1. /\ r \in Requests
          /\ event \in [Requests -> Event]
          /\ event[r].name # "none"
          /\ event[r].name \notin Terminal
          /\ event[r].revision < MaxRevision
      BY <1>2 DEF IInv, TypeOK, IssuedOnce, StatusMatchesStream, RoomForTheTerminal
    <3>2. event' = [event EXCEPT ![r] = [name |-> name, revision |-> event[r].revision + 1]]
      BY <2>1 DEF SetState
    <3>3. LifecyclePhase[r] = "holding"
      BY <3>1 DEF LifecyclePhase
    <3>4. revisions' = [revisions EXCEPT ![r] = @ + 1]
      BY <3>1, <3>2
    <3>5. LifecyclePhase' =
            [LifecyclePhase EXCEPT ![r] = IF name \in Terminal THEN name ELSE "holding"]
      BY <3>1, <3>2 DEF LifecyclePhase
    <3> QED  BY <3>1, <3>3, <3>4, <3>5
  <2>2. ASSUME NEW r \in Requests, NEW o \in Owners, NEW d \in Devices,
               StartOwned(r, o, d)
        PROVE  Lifecycle!Admit(r, d)
    <3>1. /\ event \in [Requests -> Event]
          /\ device \in [Requests -> Devices \cup {None}]
          /\ event[r].name = "none"
          /\ event' = [event EXCEPT ![r] = [name |-> "queued", revision |-> 1]]
          /\ device' = [device EXCEPT ![r] = d]
      BY <1>2, <2>2 DEF IInv, TypeOK, IssuedOnce, StartOwned
    <3>2. LifecyclePhase[r] = "absent"
      BY <3>1 DEF LifecyclePhase
    <3>3. ASSUME NEW q \in Requests, device[q] = d, LifecyclePhase[q] = "holding"
          PROVE  FALSE
      <4>1. event[q].name # "none" /\ event[q].name \notin Terminal
        BY <3>3 DEF LifecyclePhase, Terminal
      <4>2. q \in active
        BY <1>2, <4>1 DEF IInv, IssuedOnce, StatusMatchesStream
      <4> QED  BY <2>2, <3>3, <4>2 DEF StartOwned, Busy
    <3>4. LifecyclePhase' = [LifecyclePhase EXCEPT ![r] = "holding"]
      BY <3>1 DEF LifecyclePhase, Terminal
    <3>5. revisions' = [revisions EXCEPT ![r] = 1]
      BY <3>1
    <3> QED  BY <3>1, <3>2, <3>3, <3>4, <3>5 DEF Lifecycle!Admit, Lifecycle!Free
  <2>3. ASSUME NEW r \in Requests, NEW name \in {"started", "progress"},
               r \in active, SetState(r, name), UNCHANGED <<active, device>>
        PROVE  Lifecycle!Advance(r)
    <3>1. name \in EventName \ {"none"} /\ name \notin Terminal
      BY DEF EventName, Terminal
    <3>2. /\ event'[r].revision = event[r].revision + 1
          /\ event'[r].revision < MaxRevision
      BY <1>2, <2>3 DEF SetState, IInv, TypeOK, RoomForTheTerminal
    <3>3. /\ LifecyclePhase[r] = "holding"
          /\ LifecyclePhase' = [LifecyclePhase EXCEPT ![r] = "holding"]
          /\ revisions' = [revisions EXCEPT ![r] = @ + 1]
      BY <2>1, <2>3, <3>1
    <3>4. LifecyclePhase' = LifecyclePhase
      BY <3>3 DEF LifecyclePhase
    <3> QED  BY <2>3, <3>2, <3>3, <3>4 DEF Lifecycle!Advance
  <2>4. ASSUME NEW r \in Requests, NEW name \in Terminal,
               r \in active, ClaimAndRetain(r, name), UNCHANGED device
        PROVE  Lifecycle!End(r, name)
    <3>1. name \in EventName \ {"none"} /\ SetState(r, name)
      BY <2>4 DEF EventName, Terminal, ClaimAndRetain
    <3> QED  BY <2>1, <2>4, <3>1 DEF Lifecycle!End
  <2>5. ASSUME UNCHANGED <<event, device>>
        PROVE  UNCHANGED Lifecycle!vars
    BY <2>5 DEF Lifecycle!vars, LifecyclePhase
  <2>6. ASSUME NEW r \in Requests, PublishStarted(r)
        PROVE  [Lifecycle!Next]_(Lifecycle!vars)
    BY <2>3, <2>5, <2>6 DEF PublishStarted, Lifecycle!Next
  <2>7. ASSUME NEW r \in Requests, Progress(r)
        PROVE  [Lifecycle!Next]_(Lifecycle!vars)
    BY <2>3, <2>7 DEF Progress, Lifecycle!Next
  <2>8. ASSUME NEW r \in Requests, Finish(r) \/ Reap(r)
        PROVE  [Lifecycle!Next]_(Lifecycle!vars)
    <3>1. CASE r \in active
      <4>1. PICK name \in Terminal : ClaimAndRetain(r, name)
        BY <2>8, <3>1 DEF Finish, Reap, Terminal
      <4>2. Lifecycle!End(r, name)
        BY <2>4, <2>8, <3>1, <4>1 DEF Finish, Reap
      <4> QED  BY <4>2 DEF Lifecycle!Next, Terminal
    <3>2. CASE r \notin active
      BY <2>5, <2>8, <3>2 DEF Finish, Reap
    <3> QED  BY <3>1, <3>2
  <2>9. CASE \/ \E r \in Requests, o \in Owners : CancelOwned(r, o)
             \/ \E r \in Requests : WorkerStops(r)
             \/ Expire
             \/ UNCHANGED vars
    BY <2>5, <2>9 DEF CancelOwned, WorkerStops, Expire, vars
  <2> QED  BY <1>2, <2>2, <2>6, <2>7, <2>8, <2>9 DEF Next, Lifecycle!Next
<1> QED  BY <1>1, <1>2, Invariance, PTL
         DEF Spec, ImplementsLifecycle, Lifecycle!Spec
=============================================================================
