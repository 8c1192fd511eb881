--------------------------- MODULE IdentityProofs ---------------------------
(***************************************************************************)
(* The identity registry, for any number of controllers, names, keys,      *)
(* provisioning operations and restarts: it is a DurableStore, stored      *)
(* credentials are named on the disk, and no key comes to name two peers.  *)
(***************************************************************************)
EXTENDS Identity, TLAPS

(***************************************************************************)
(* The pipeline from the registry to the disk.  The slot holds the latest  *)
(* contents or nothing; what is being written lies between the disk and    *)
(* the registry; an empty slot means that nothing is left to be written,   *)
(* unless the last write failed.                                           *)
(***************************************************************************)
VersionsOK ==
  /\ registry.version <= last
  /\ disk.version <= registry.version
  /\ disk.version = registry.version => disk = registry
  /\ slot \subseteq {registry}
  /\ \A r \in writer.taken :
       /\ disk.version <= r.version /\ r.version <= registry.version
       /\ r.version = registry.version => r = registry
  /\ writer.at = "persist" <=> writer.taken # {}
  /\ slot = {} =>
       IF writer.at = "persist" THEN writer.taken = {registry}
                                ELSE writer.result = "ok" => disk = registry

(***************************************************************************)
(* Every flush waits in one place, and what a round writes covers the      *)
(* flushes it will answer.                                                 *)
(***************************************************************************)
Pending(t) == flush[t] \in {"sending", "waiting"}

FlushesOK ==
  /\ \A t \in writer.barriers : flush[t] = "waiting" /\ inbox # t
  /\ \A t \in Tasks : inbox = t => flush[t] = "waiting"
  /\ \A t \in Tasks : Pending(t) => need[t] <= registry.version
  /\ \A t \in writer.barriers, r \in writer.taken : need[t] <= r.version
  /\ writer.at = "reply" /\ writer.result = "ok" =>
       \A t \in writer.barriers : need[t] <= disk.version
  /\ \A t \in Tasks : task[t].stage \in {"pairing", "promoted"} => ~Pending(t)

Files == {registry, disk} \cup writer.taken

(***************************************************************************)
(* A peer still registered under the name of its controller has been so    *)
(* since before the daemon knew the controller: the name is not taken, it  *)
(* is the one the controller has now, and the peer has no other key.       *)
(***************************************************************************)
LegacyOK(R) ==
  \A n \in Names : R.devices[n] # 0 =>
    /\ R.adapters[n] = None
    /\ \E c \in Controllers : names[c] = n /\ R.devices[c] = 0 /\ issued[R.devices[n]] = {c}

PeersOK(R) ==
  \A c \in Controllers : R.devices[c] # 0 => issued[R.devices[c]] = {c}

(* Migration is never undone on the way to the disk.                       *)
LegacyWithin(R, S) == \A n \in Names : R.devices[n] # 0 => S.devices[n] # 0

NamesOK ==
  /\ \A t \in Tasks : task[t].stage # "idle" => unnamed = {}
  /\ \A c \in Controllers \ unnamed : registry.adapters[names[c]] = c
  /\ \A R \in Files : LegacyOK(R) /\ PeersOK(R)
  /\ LegacyWithin(registry, disk)
  /\ \A r \in writer.taken : LegacyWithin(registry, r) /\ LegacyWithin(r, disk)
  /\ \A n \in Names : ephemeral[n] = 0
  /\ \A c \in Controllers : ephemeral[c] # 0 => issued[ephemeral[c]] = {c}

(***************************************************************************)
(* A key that has been promoted is in every file that is at least as new   *)
(* as the one its flush waits for, and a stored one is in all of them.     *)
(***************************************************************************)
Holds(R, k) == \E i \in Identities : R.devices[i] = k

CredentialsOK ==
  /\ \A k \in stored : k # 0 /\ \A R \in Files : Holds(R, k)
  /\ \A t \in Tasks : task[t].stage \in {"promoted", "flushing", "writing"} =>
       task[t].key # 0 /\ Holds(registry, task[t].key)
  /\ \A t \in Tasks : task[t].stage = "flushing" /\ Pending(t) =>
       \A R \in Files : need[t] <= R.version => Holds(R, task[t].key)
  /\ \A t \in Tasks : task[t].stage = "writing" \/ (task[t].stage = "flushing" /\ flush[t] = "ok") =>
       \A R \in Files : Holds(R, task[t].key)

(* The types the argument needs.                                           *)
DataOK ==
  /\ names \in Namings
  /\ registry \in Registry /\ disk \in Registry
  /\ slot \in SUBSET Registry
  /\ writer \in WriterState
  /\ ephemeral \in [Identities -> 0..MaxKeys]
  /\ stored \in SUBSET Keys
  /\ task \in [Tasks -> Task]
  /\ flush \in [Tasks -> FlushState]
  /\ need \in [Tasks -> 0..MaxVersion]
  /\ issued \in [Keys -> SUBSET Controllers]
  /\ last \in 0..MaxVersion
  /\ inbox \in Tasks \cup {None, Changed}

IInv == DataOK /\ VersionsOK /\ FlushesOK /\ NamesOK /\ CredentialsOK

-----------------------------------------------------------------------------
(* What the updates of records leave in their fields.                      *)
NewVersion ==
  /\ registry' \in Registry /\ registry'.version = last + 1
  /\ slot' = {registry'}
  /\ last' = last + 1 /\ last' \in 0..MaxVersion

LEMMA PersistFields ==
  ASSUME NEW R \in Registry, last \in 0..MaxVersion, last < MaxVersion, Persist(R)
  PROVE  NewVersion /\ registry'.devices = R.devices /\ registry'.adapters = R.adapters
<1>1. MaxVersion \in Nat /\ last + 1 \in 0..MaxVersion
  BY BoundsAssumption
<1>2. /\ registry' = [R EXCEPT !.version = last + 1] /\ slot' = {registry'}
      /\ last' = last + 1
  BY DEF Persist
<1>3. /\ registry' \in Registry /\ registry'.version = last + 1
      /\ registry'.devices = R.devices /\ registry'.adapters = R.adapters
  BY <1>1, <1>2 DEF Registry
<1> QED  BY <1>1, <1>2, <1>3 DEF NewVersion

LEMMA RegisteredFields ==
  ASSUME registry \in Registry, names \in Namings, NEW c \in Controllers
  PROVE  /\ Registered(c) \in Registry
         /\ Registered(c).adapters = [registry.adapters EXCEPT ![names[c]] = c]
         /\ Registered(c).devices = [i \in Identities |->
              IF registry.adapters[names[c]] = None /\ i = names[c] THEN 0
              ELSE IF registry.adapters[names[c]] = None /\ i = c /\ registry.devices[c] = 0
                THEN registry.devices[names[c]]
              ELSE registry.devices[i]]
<1> DEFINE first == registry.adapters[names[c]] = None
           new == [i \in Identities |->
                     CASE first /\ i = names[c] -> 0
                       [] first /\ i = c /\ registry.devices[c] = 0 -> registry.devices[names[c]]
                       [] OTHER -> registry.devices[i]]
           old == [i \in Identities |->
                     IF first /\ i = names[c] THEN 0
                     ELSE IF first /\ i = c /\ registry.devices[c] = 0
                       THEN registry.devices[names[c]]
                     ELSE registry.devices[i]]
<1>1. names[c] \in Names /\ names[c] \in Identities /\ c \in Identities /\ names[c] # c
  BY DistinctAssumption DEF Namings, Identities
<1>2. /\ registry.devices \in [Identities -> 0..MaxKeys]
      /\ registry.adapters \in [Names -> Controllers \cup {None}]
  BY DEF Registry
<1>3. new = old
  BY <1>1
<1>4. 0 \in 0..MaxKeys
  BY BoundsAssumption
<1>5. old \in [Identities -> 0..MaxKeys]
  BY <1>1, <1>2, <1>4
<1>6. Registered(c) = [registry EXCEPT !.adapters = [@ EXCEPT ![names[c]] = c], !.devices = new]
  BY Zenon DEF Registered
<1> HIDE DEF new, old
<1>a. [registry.adapters EXCEPT ![names[c]] = c] \in [Names -> Controllers \cup {None}]
  BY <1>1, <1>2
<1>7. /\ Registered(c) \in Registry
      /\ Registered(c).adapters = [registry.adapters EXCEPT ![names[c]] = c]
      /\ Registered(c).devices = new
  BY <1>3, <1>5, <1>6, <1>a DEF Registry
<1> QED  BY <1>3, <1>7 DEF old

LEMMA WriterFields ==
  ASSUME writer \in WriterState, slot \in SUBSET Registry, inbox \in Tasks \cup {None, Changed},
         Writer
  PROVE  writer' \in WriterState
<1>1. CASE WriterReceives
  <2>1. {inbox} \ {Changed} \in SUBSET Tasks
    BY <1>1 DEF WriterReceives
  <2> QED  BY <1>1, <2>1 DEF WriterReceives, WriterState
<1>2. CASE WriterDrains
  <2>1. CASE inbox = None
    BY <1>2, <2>1 DEF WriterDrains, WriterState
  <2>2. CASE inbox # None
    <3>1. {inbox} \ {Changed} \in SUBSET Tasks
      BY <2>2
    <3> QED  BY <1>2, <2>2, <3>1 DEF WriterDrains, WriterState
  <2> QED  BY <2>1, <2>2
<1>3. CASE WriterTakes
  BY <1>3 DEF WriterTakes, WriterState
<1>4. CASE WriterPersists
  <2>1. PICK result \in {"ok", "err"} :
          writer' = [writer EXCEPT !.at = "reply", !.taken = {}, !.result = result]
    BY <1>4 DEF WriterPersists
  <2> QED  BY <2>1 DEF WriterState
<1>5. CASE WriterReplies
  BY <1>5 DEF WriterReplies, WriterState
<1>6. CASE WriterEnds
  BY <1>6 DEF WriterEnds, WriterState
<1> QED  BY <1>1, <1>2, <1>3, <1>4, <1>5, <1>6 DEF Writer

LEMMA IdleFacts ==
  /\ IdleTask \in Task /\ IdleTask.stage = "idle"
  /\ IdleWriter \in WriterState /\ IdleWriter.at = "recv" /\ IdleWriter.taken = {}
  /\ IdleWriter.barriers = {} /\ IdleWriter.result = "ok"
<1>1. (CHOOSE c \in Controllers : TRUE) \in Controllers
  BY DistinctAssumption
<1>2. 0 \in 0..MaxKeys
  BY BoundsAssumption
<1>3. IdleTask \in Task /\ IdleTask.stage = "idle"
  BY <1>1, <1>2 DEF IdleTask, Task, Stage
<1> QED  BY <1>3 DEF IdleWriter, WriterState

LEMMA IdentityType ==
  ASSUME DataOK, NEW c \in Controllers
  PROVE  Identity(c) \in Identities /\ names[c] \in Names
BY DEF DataOK, Identity, Identities, Namings, Registry

(* promote_device: the key moves to the file, or is there already.         *)
LEMMA PromotedFields ==
  ASSUME DataOK, NEW c \in Controllers, last < MaxVersion, Promoted(c)
  PROVE  \/ /\ registry.devices[Identity(c)] # 0
            /\ UNCHANGED <<registry, ephemeral, slot, waking, last>>
         \/ /\ registry.devices[Identity(c)] = 0
            /\ ephemeral' = [ephemeral EXCEPT ![Identity(c)] = 0]
            /\ NewVersion /\ registry'.adapters = registry.adapters
            /\ registry'.devices = [registry.devices EXCEPT
                                      ![Identity(c)] = ephemeral[Identity(c)]]
<1>1. Identity(c) \in Identities
  BY IdentityType
<1>2. CASE registry.devices[Identity(c)] = 0
  <2> DEFINE devices == [registry.devices EXCEPT ![Identity(c)] = ephemeral[Identity(c)]]
             R == [registry EXCEPT !.devices = devices]
  <2>1. devices \in [Identities -> 0..MaxKeys]
    BY <1>1 DEF DataOK, Registry
  <2>2. /\ ephemeral' = [ephemeral EXCEPT ![Identity(c)] = 0]
        /\ Persist([registry EXCEPT !.devices = [@ EXCEPT ![Identity(c)] = ephemeral[Identity(c)]]])
    BY <1>2 DEF Promoted
  <2>3. Persist(R)
    BY <2>2
  <2> HIDE DEF devices
  <2>4. R \in Registry /\ R.devices = devices /\ R.adapters = registry.adapters
    BY <2>1 DEF DataOK, Registry
  <2> HIDE DEF R
  <2>5. NewVersion /\ registry'.devices = devices /\ registry'.adapters = registry.adapters
    BY <2>3, <2>4, PersistFields DEF DataOK
  <2> QED  BY <1>2, <2>2, <2>5 DEF devices
<1>3. CASE registry.devices[Identity(c)] # 0
  BY <1>3 DEF Promoted
<1> QED  BY <1>2, <1>3

(* The users of the registry, and the steps that change it, its slot, the  *)
(* writer or the disk.                                                     *)
Uses ==
  \/ \E c \in Controllers : Register(c) \/ Snapshot(c)
  \/ Present
  \/ \E t \in Tasks : ProvisionPromotes(t)

LEMMA UsesFields ==
  ASSUME DataOK, Uses
  PROVE  /\ NewVersion \/ UNCHANGED <<registry, last, slot>>
         /\ UNCHANGED <<names, writer, disk, inbox, stored, flush, need, issued>>
<1>1. ASSUME NEW c \in Controllers, Register(c)
      PROVE  NewVersion \/ UNCHANGED <<registry, last, slot>>
  <2>1. CASE registry.adapters[names[c]] = c
    BY <1>1, <2>1 DEF Register
  <2>2. CASE registry.adapters[names[c]] # c
    <3>1. Persist(Registered(c)) /\ last < MaxVersion
      BY <1>1, <2>2 DEF Register, Locks
    <3> QED  BY <3>1, PersistFields, RegisteredFields DEF DataOK
  <2> QED  BY <2>1, <2>2
<1>2. ASSUME NEW c \in Controllers, Snapshot(c) PROVE NewVersion
  BY <1>2, PromotedFields DEF Snapshot, Locks
<1>3. CASE Present
  <2>1. NewVersion
    BY <1>3, PersistFields DEF Present, Locks, DataOK
  <2> QED  BY <1>3, <2>1 DEF Present, worldVars, taskVars
<1>4. ASSUME NEW t \in Tasks, ProvisionPromotes(t)
      PROVE  NewVersion \/ UNCHANGED <<registry, last, slot>>
  <2>1. task[t].peer \in Controllers
    BY DEF DataOK, Task
  <2> QED  BY <1>4, <2>1, PromotedFields DEF ProvisionPromotes, Locks
<1>5. UNCHANGED <<names, writer, disk, inbox, stored, flush, need, issued>>
  BY DEF Uses, Register, Snapshot, Present, ProvisionPromotes, worldVars, taskVars
<1> QED  BY <1>1, <1>2, <1>3, <1>4, <1>5 DEF Uses

LEMMA StepKinds ==
  ASSUME [Next]_vars
  PROVE  \/ Uses
         \/ Restart
         \/ Writer
         \/ UNCHANGED <<registry, last, slot, writer, disk>>
<1>1. CASE \/ Wake \/ Close \/ BluezRestarts \/ UNCHANGED vars
           \/ \E c \in Controllers : Generate(c)
           \/ \E t \in Tasks, c \in Controllers : Provision(t, c)
           \/ \E t \in Tasks : \/ ProvisionFlushes(t) \/ FlushSends(t) \/ Flushed(t)
                               \/ StoreKey(t) \/ Abandon(t)
           \/ \E k \in Keys : Revoke(k)
  BY <1>1 DEF Wake, Close, BluezRestarts, vars, Generate, Provision, ProvisionFlushes, FlushSends,
              Flushed, StoreKey, Abandon, Revoke, writerVars
<1> QED  BY <1>1 DEF Next, Uses

LEMMA VersionsStep ==
  ASSUME DataOK, VersionsOK, [Next]_vars
  PROVE  VersionsOK'
<1> USE DEF VersionsOK
<1>a. /\ registry.version \in Nat /\ disk.version \in Nat /\ last \in Nat
      /\ \A r \in writer.taken : r.version \in Nat
  BY DEF DataOK, Registry, WriterState
<1>1. CASE NewVersion /\ UNCHANGED <<writer, disk>>
  BY <1>1, <1>a DEF NewVersion
<1>2. CASE Restart
  BY <1>2, <1>a, IdleFacts DEF Restart
<1>b. Writer => UNCHANGED <<registry, last>>
  BY DEF Writer, WriterReceives, WriterDrains, WriterTakes, WriterPersists, WriterReplies,
         WriterEnds
<1>3. CASE WriterTakes /\ UNCHANGED <<registry, last>>
  <2>1. /\ writer.at = "take" /\ writer'.taken = slot /\ writer'.result = writer.result
        /\ writer'.at = IF slot = {} THEN "reply" ELSE "persist"
        /\ slot' = {} /\ UNCHANGED disk
    BY <1>3 DEF WriterTakes, DataOK, WriterState
  <2> QED  BY <1>3, <1>a, <2>1
<1>4. CASE WriterPersists /\ UNCHANGED <<registry, last>>
  <2>1. PICK result \in {"ok", "err"} :
          /\ writer' = [writer EXCEPT !.at = "reply", !.taken = {}, !.result = result]
          /\ disk' \in writer.taken \cup (IF result = "err" THEN {disk} ELSE {})
    BY <1>4 DEF WriterPersists
  <2>2. /\ writer.at = "persist" /\ writer'.taken = {} /\ writer'.result = result
        /\ writer'.at = "reply" /\ UNCHANGED slot
    BY <1>4, <2>1 DEF WriterPersists, DataOK, WriterState
  <2>3. disk' \in writer.taken \/ (disk' = disk /\ result = "err")
    BY <2>1
  <2>4. disk'.version <= registry.version /\ (disk'.version = registry.version => disk' = registry)
    BY <1>a, <2>3
  <2> QED  BY <1>4, <1>a, <2>2, <2>3, <2>4
<1>5. CASE \/ WriterReceives \/ WriterDrains \/ WriterReplies \/ WriterEnds
  <2>1. /\ writer'.taken = writer.taken /\ writer'.result = writer.result
        /\ writer.at # "persist" /\ writer'.at # "persist"
        /\ UNCHANGED <<registry, last, slot, disk>>
    BY <1>5 DEF WriterReceives, WriterDrains, WriterReplies, WriterEnds, DataOK, WriterState
  <2> QED  BY <2>1
<1>6. CASE UNCHANGED <<registry, last, slot, writer, disk>>
  BY <1>6
<1> QED  BY <1>1, <1>2, <1>3, <1>4, <1>5, <1>6, <1>b, StepKinds, UsesFields DEF Writer

-----------------------------------------------------------------------------
(* What becomes of a task: only its own fields change, and only in the     *)
(* steps of its operation.                                                 *)
Others(t) == \A u \in Tasks : u # t => task'[u] = task[u]

LEMMA StageFields ==
  ASSUME task \in [Tasks -> Task], NEW t \in Tasks, NEW s \in Stage,
         task' = [task EXCEPT ![t].stage = s]
  PROVE  /\ task' \in [Tasks -> Task] /\ Others(t)
         /\ task'[t].stage = s /\ task'[t].key = task[t].key
<1>1. task[t] \in Task
  OBVIOUS
<1>2. task'[t] = [task[t] EXCEPT !.stage = s]
  OBVIOUS
<1>3. task'[t] \in Task /\ task'[t].stage = s /\ task'[t].key = task[t].key
  BY <1>1, <1>2 DEF Task
<1> QED  BY <1>3 DEF Others

LEMMA PromoteFields ==
  ASSUME task \in [Tasks -> Task], NEW t \in Tasks, NEW k \in 0..MaxKeys,
         task' = [task EXCEPT ![t].stage = "promoted", ![t].key = k]
  PROVE  /\ task' \in [Tasks -> Task] /\ Others(t)
         /\ task'[t].stage = "promoted" /\ task'[t].key = k
<1>1. task[t] \in Task
  OBVIOUS
<1>2. task'[t] = [task[t] EXCEPT !.stage = "promoted", !.key = k]
  BY <1>1 DEF Task
<1>3. task'[t] \in Task /\ task'[t].stage = "promoted" /\ task'[t].key = k
  BY <1>1, <1>2 DEF Task, Stage
<1> QED  BY <1>3 DEF Others

LEMMA BeginFields ==
  ASSUME task \in [Tasks -> Task], NEW t \in Tasks, NEW c \in Controllers,
         task' = [task EXCEPT ![t] = [IdleTask EXCEPT !.stage = "pairing", !.peer = c]]
  PROVE  task' \in [Tasks -> Task] /\ Others(t) /\ task'[t].stage = "pairing"
<1>1. task'[t] = [IdleTask EXCEPT !.stage = "pairing", !.peer = c]
  OBVIOUS
<1>2. task'[t] \in Task /\ task'[t].stage = "pairing"
  BY <1>1, IdleFacts DEF Task, Stage
<1> QED  BY <1>2 DEF Others

LEMMA EndFields ==
  ASSUME task \in [Tasks -> Task], NEW t \in Tasks, task' = [task EXCEPT ![t] = IdleTask]
  PROVE  task' \in [Tasks -> Task] /\ Others(t) /\ task'[t].stage = "idle"
BY IdleFacts DEF Others

LEMMA FlushedFields ==
  ASSUME task \in [Tasks -> Task], NEW t \in Tasks, Flushed(t)
  PROVE  /\ task' \in [Tasks -> Task] /\ Others(t)
         /\ \/ flush[t] = "ok" /\ task'[t].stage = "writing" /\ task'[t].key = task[t].key
            \/ task'[t].stage = "idle"
<1>1. CASE flush[t] = "ok"
  <2>1. task' = [task EXCEPT ![t] = [@ EXCEPT !.stage = "writing"]]
    BY <1>1 DEF Flushed
  <2>2. task[t] \in Task /\ task'[t] = [task[t] EXCEPT !.stage = "writing"]
    BY <2>1
  <2>3. task'[t] \in Task /\ task'[t].stage = "writing" /\ task'[t].key = task[t].key
    BY <2>2 DEF Task, Stage
  <2> QED  BY <1>1, <2>1, <2>3 DEF Others
<1>2. CASE flush[t] # "ok"
  BY <1>2, EndFields DEF Flushed
<1> QED  BY <1>1, <1>2

LEMMA KnownKeyType ==
  ASSUME DataOK, NEW c \in Controllers
  PROVE  KnownKey(c) \in 0..MaxKeys
BY IdentityType DEF KnownKey, DataOK, Registry

LEMMA DataStep ==
  ASSUME DataOK, CredentialsOK, [Next]_vars
  PROVE  DataOK'
<1> USE DEF DataOK
<1>1. CASE Wake \/ Close
  BY <1>1 DEF Wake, Close, worldVars, taskVars, writerVars
<1>2. ASSUME NEW c \in Controllers, Register(c) PROVE DataOK'
  <2>1. CASE registry.adapters[names[c]] = c
    BY <1>2, <2>1 DEF Register, taskVars
  <2>2. CASE registry.adapters[names[c]] # c
    <3>1. Persist(Registered(c)) /\ last < MaxVersion
      BY <1>2, <2>2 DEF Register, Locks
    <3>2. NewVersion
      BY <3>1, PersistFields, RegisteredFields
    <3> QED  BY <1>2, <3>2 DEF Register, NewVersion, taskVars
  <2> QED  BY <2>1, <2>2
<1>3. ASSUME NEW c \in Controllers, Generate(c) PROVE DataOK'
  <2>1. PICK k \in Keys :
          /\ issued' = [issued EXCEPT ![k] = {c}]
          /\ \E kept : ephemeral' = [i \in Identities |->
               IF i = Identity(c) THEN k ELSE IF i \in kept THEN ephemeral[i] ELSE 0]
    BY <1>3 DEF Generate, NewKey
  <2>2. k \in 0..MaxKeys /\ 0 \in 0..MaxKeys
    BY BoundsAssumption DEF Keys
  <2>3. ephemeral' \in [Identities -> 0..MaxKeys] /\ issued' \in [Keys -> SUBSET Controllers]
    BY <2>1, <2>2
  <2> QED  BY <1>3, <2>3 DEF Generate, worldVars, writerVars, taskVars
<1>4. ASSUME NEW c \in Controllers, Promoted(c), last < MaxVersion
      PROVE  /\ registry' \in Registry /\ slot' \in SUBSET Registry /\ last' \in 0..MaxVersion
             /\ ephemeral' \in [Identities -> 0..MaxKeys]
  <2>1. 0 \in 0..MaxKeys
    BY BoundsAssumption
  <2> QED  BY <1>4, <2>1, PromotedFields, IdentityType DEF NewVersion
<1>5. ASSUME NEW c \in Controllers, Snapshot(c) PROVE DataOK'
  BY <1>4, <1>5 DEF Snapshot, Locks, worldVars, taskVars
<1>6. CASE Present
  <2>1. NewVersion
    BY <1>6, PersistFields DEF Present, Locks
  <2> QED  BY <1>6, <2>1 DEF Present, NewVersion, worldVars, taskVars
<1>7. CASE Writer
  <2>1. writer' \in WriterState
    BY <1>7, WriterFields
  <2>2. /\ UNCHANGED <<registry, last, names, ephemeral, stored, task, issued>>
        /\ slot' \in SUBSET Registry /\ inbox' \in Tasks \cup {None, Changed}
    BY <1>7 DEF Writer, WriterReceives, WriterDrains, WriterTakes, WriterPersists, WriterReplies,
                WriterEnds, worldVars, taskVars
  <2>3. disk' \in Registry
    <3>1. writer.taken \in SUBSET Registry
      BY DEF WriterState
    <3>2. CASE WriterPersists
      BY <3>1, <3>2 DEF WriterPersists
    <3> QED  BY <1>7, <3>2 DEF Writer, WriterReceives, WriterDrains, WriterTakes, WriterReplies,
                               WriterEnds
  <2>4. flush' \in [Tasks -> FlushState] /\ need' \in [Tasks -> 0..MaxVersion]
    <3>1. 0 \in 0..MaxVersion
      BY BoundsAssumption
    <3>2. CASE WriterReplies
      BY <3>1, <3>2 DEF WriterReplies, FlushState
    <3> QED  BY <1>7, <3>2 DEF Writer, WriterReceives, WriterDrains, WriterTakes, WriterPersists,
                               WriterEnds, taskVars
  <2> QED  BY <2>1, <2>2, <2>3, <2>4
<1>8. ASSUME NEW t \in Tasks, NEW c \in Controllers, Provision(t, c) PROVE DataOK'
  BY <1>8, BeginFields DEF Provision, worldVars, writerVars
<1>9. ASSUME NEW t \in Tasks, ProvisionPromotes(t) PROVE DataOK'
  <2>1. task[t].peer \in Controllers
    BY DEF Task
  <2>2. task' \in [Tasks -> Task]
    BY <1>9, <2>1, PromoteFields, KnownKeyType DEF ProvisionPromotes
  <2> QED  BY <1>4, <1>9, <2>1, <2>2 DEF ProvisionPromotes, Locks, worldVars
<1>10. ASSUME NEW t \in Tasks, ProvisionFlushes(t) PROVE DataOK'
  <2>1. task' \in [Tasks -> Task]
    BY <1>10, StageFields DEF ProvisionFlushes, Stage
  <2>2. registry.version \in 0..MaxVersion
    BY DEF Registry
  <2> QED  BY <1>10, <2>1, <2>2 DEF ProvisionFlushes, FlushState, worldVars, writerVars
<1>11. ASSUME NEW t \in Tasks, FlushSends(t) PROVE DataOK'
  BY <1>11 DEF FlushSends, FlushState, worldVars
<1>12. ASSUME NEW t \in Tasks, Flushed(t) PROVE DataOK'
  BY <1>12, FlushedFields DEF Flushed, worldVars, writerVars
<1>13. ASSUME NEW t \in Tasks, StoreKey(t) PROVE DataOK'
  <2>1. task' \in [Tasks -> Task]
    BY <1>13, EndFields DEF StoreKey
  <2>2. UNCHANGED <<names, registry, disk, slot, writer, ephemeral, flush, need, issued, last, inbox>>
    BY <1>13 DEF StoreKey, worldVars, writerVars
  <2>3. task[t].key \in Keys
    BY <1>13, BoundsAssumption DEF StoreKey, CredentialsOK, Task, Keys
  <2>4. stored' \in SUBSET Keys
    BY <1>13, <2>3 DEF StoreKey
  <2> QED  BY <2>1, <2>2, <2>4
<1>14. ASSUME NEW t \in Tasks, Abandon(t) PROVE DataOK'
  BY <1>14, EndFields DEF Abandon, worldVars, writerVars
<1>15. ASSUME NEW k \in Keys, Revoke(k) PROVE DataOK'
  BY <1>15 DEF Revoke, worldVars, writerVars
<1>16. CASE BluezRestarts
  <2>1. names' \in Namings
    BY <1>16 DEF BluezRestarts, Renumber
  <2> QED  BY <1>16, <2>1, IdleFacts DEF BluezRestarts, writerVars
<1>17. CASE Restart
  <2>1. names' \in Namings
    BY <1>17 DEF Restart, Renumber
  <2>2. 0 \in 0..MaxKeys /\ 0 \in 0..MaxVersion
    BY BoundsAssumption
  <2> QED  BY <1>17, <2>1, <2>2, IdleFacts DEF Restart, FlushState
<1>18. CASE UNCHANGED vars
  BY <1>18 DEF vars
<1> QED
  BY <1>1, <1>2, <1>3, <1>5, <1>6, <1>7, <1>8, <1>9, <1>10, <1>11, <1>12, <1>13, <1>14, <1>15,
     <1>16, <1>17, <1>18 DEF Next

-----------------------------------------------------------------------------
LEMMA FlushesStep ==
  ASSUME DataOK, VersionsOK, FlushesOK, [Next]_vars
  PROVE  FlushesOK'
<1> USE DEF FlushesOK, Pending
<1>a. /\ registry.version \in Nat /\ disk.version \in Nat /\ last \in Nat
      /\ \A r \in writer.taken : r.version \in Nat
      /\ \A t \in Tasks : need[t] \in Nat
      /\ writer.barriers \in SUBSET Tasks
  BY DEF DataOK, Registry, WriterState
<1>b. None \notin Tasks /\ Changed \notin Tasks /\ None # Changed
  BY DistinctAssumption
<1>1. CASE Wake
  BY <1>1, <1>a, <1>b DEF Wake, taskVars
<1>2. CASE Uses
  <2>1. /\ NewVersion \/ UNCHANGED <<registry, last, slot>>
        /\ UNCHANGED <<writer, disk, inbox, flush, need>>
    BY <1>2, UsesFields
  <2>2. registry.version <= registry'.version /\ registry'.version \in Nat
    BY <1>a, <2>1 DEF NewVersion, VersionsOK
  <2>3. \A t \in Tasks : \/ task'[t] = task[t] \/ task[t].stage = "pairing"
    BY <1>2, PromoteFields DEF Uses, Register, Snapshot, Present, ProvisionPromotes, taskVars,
                               Others, DataOK
  <2>4. \A t \in Tasks : Pending(t)' => need'[t] <= registry'.version
    BY <1>a, <2>1, <2>2
  <2> QED  BY <2>1, <2>3, <2>4
<1>3. ASSUME UNCHANGED <<registry, writer, disk, inbox, flush, need>>,
             NEW t \in Tasks, Others(t),
             task'[t].stage \in {"idle", "writing"} \/ ~Pending(t)
      PROVE  FlushesOK'
  BY <1>3 DEF Others
<1>4. CASE UNCHANGED <<registry, writer, disk, inbox, flush, need, task>>
  BY <1>4
<1>5. CASE Close \/ UNCHANGED vars \/ (\E c \in Controllers : Generate(c))
           \/ \E k \in Keys : Revoke(k)
  BY <1>4, <1>5 DEF Close, vars, Generate, Revoke, writerVars, taskVars
<1>6. ASSUME NEW t \in Tasks, NEW c \in Controllers, Provision(t, c) PROVE FlushesOK'
  BY <1>3, <1>6, BeginFields DEF Provision, writerVars, DataOK
<1>7. ASSUME NEW t \in Tasks, ProvisionFlushes(t) PROVE FlushesOK'
  <2>1. Others(t) /\ task'[t].stage = "flushing"
    BY <1>7, StageFields DEF ProvisionFlushes, Stage, DataOK
  <2>2. flush[t] # "waiting" /\ t \notin writer.barriers /\ inbox # t
    BY <1>7 DEF ProvisionFlushes
  <2>3. UNCHANGED <<registry, writer, disk, inbox>>
    BY <1>7 DEF ProvisionFlushes, writerVars
  <2>4. /\ flush'[t] = "sending" /\ need'[t] = registry.version
        /\ \A u \in Tasks : u # t => flush'[u] = flush[u] /\ need'[u] = need[u]
    BY <1>7 DEF ProvisionFlushes, DataOK
  <2> QED  BY <1>a, <2>1, <2>2, <2>3, <2>4 DEF Others
<1>8. ASSUME NEW t \in Tasks, FlushSends(t) PROVE FlushesOK'
  <2>1. t \notin writer.barriers
    BY <1>8 DEF FlushSends
  <2>2. /\ flush'[t] = "waiting" /\ \A u \in Tasks : u # t => flush'[u] = flush[u]
        /\ inbox' = t /\ UNCHANGED <<registry, writer, disk, need, task>>
    BY <1>8 DEF FlushSends, DataOK
  <2>3. flush[t] = "sending"
    BY <1>8 DEF FlushSends
  <2> QED  BY <1>a, <2>1, <2>2, <2>3
<1>9. ASSUME NEW t \in Tasks, Flushed(t) PROVE FlushesOK'
  BY <1>3, <1>9, FlushedFields DEF Flushed, writerVars, DataOK
<1>10. ASSUME NEW t \in Tasks, StoreKey(t) \/ Abandon(t) PROVE FlushesOK'
  BY <1>3, <1>10, EndFields DEF StoreKey, Abandon, writerVars, DataOK
<1>11. CASE BluezRestarts
  BY <1>11, IdleFacts DEF BluezRestarts, writerVars
<1>12. CASE Restart
  BY <1>12, <1>b, IdleFacts DEF Restart
<1>13. CASE WriterReceives
  <2>1. /\ writer'.barriers = {inbox} \ {Changed} /\ inbox' = None
        /\ writer'.taken = writer.taken /\ writer'.at = "drain"
        /\ inbox # None /\ writer.taken = {}
        /\ UNCHANGED <<registry, disk, flush, need, task>>
    BY <1>13 DEF WriterReceives, DataOK, WriterState, VersionsOK, taskVars
  <2> QED  BY <1>b, <2>1 DEF DataOK
<1>14. CASE WriterDrains
  <2>1. /\ writer.taken = {} /\ writer'.taken = {} /\ writer'.at # "reply"
        /\ inbox' = None /\ UNCHANGED <<registry, disk, flush, need, task>>
        /\ writer'.barriers \subseteq writer.barriers \cup ({inbox} \ {None, Changed})
    BY <1>14, <1>a, <1>b DEF WriterDrains, DataOK, WriterState, VersionsOK, taskVars
  <2>2. {inbox} \ {None, Changed} \subseteq Tasks
    BY DEF DataOK
  <2> QED  BY <1>a, <1>b, <2>1, <2>2
<1>15. CASE WriterTakes
  <2>1. /\ writer.at = "take" /\ writer'.taken = slot /\ writer'.result = writer.result
        /\ writer'.at = (IF slot = {} THEN "reply" ELSE "persist")
        /\ writer'.barriers = writer.barriers
        /\ UNCHANGED <<registry, disk, inbox, flush, need, task>>
    BY <1>15 DEF WriterTakes, DataOK, WriterState, taskVars
  <2>2. \A t \in writer.barriers : need[t] <= registry.version
    BY <1>a
  <2>3. \A t \in writer.barriers, r \in slot : need[t] <= r.version
    BY <2>2 DEF VersionsOK
  <2>4. slot = {} /\ writer.result = "ok" => \A t \in writer.barriers : need[t] <= disk.version
    BY <2>1, <2>2 DEF VersionsOK
  <2> QED  BY <2>1, <2>3, <2>4
<1>16. CASE WriterPersists
  <2>1. PICK result \in {"ok", "err"} :
          /\ writer' = [writer EXCEPT !.at = "reply", !.taken = {}, !.result = result]
          /\ disk' \in writer.taken \cup (IF result = "err" THEN {disk} ELSE {})
    BY <1>16 DEF WriterPersists
  <2>2. /\ writer'.taken = {} /\ writer'.result = result /\ writer'.barriers = writer.barriers
        /\ UNCHANGED <<registry, inbox, flush, need, task>>
    BY <1>16, <2>1 DEF WriterPersists, DataOK, WriterState, taskVars
  <2>3. result = "ok" => disk' \in writer.taken
    BY <2>1
  <2> QED  BY <2>2, <2>3
<1>17. CASE WriterReplies
  <2>1. /\ writer'.barriers = {} /\ UNCHANGED <<registry, inbox, task>>
        /\ \A t \in Tasks : IF t \in writer.barriers
             THEN flush'[t] \in {"ok", "failed"}
             ELSE flush'[t] = flush[t] /\ need'[t] = need[t]
    BY <1>17 DEF WriterReplies, DataOK, WriterState
  <2> QED  BY <2>1
<1>18. CASE WriterEnds
  <2>1. /\ writer'.barriers = writer.barriers /\ writer'.taken = writer.taken
        /\ writer'.at = "ended" /\ UNCHANGED <<registry, disk, inbox, flush, need, task>>
    BY <1>18 DEF WriterEnds, DataOK, WriterState, taskVars
  <2> QED  BY <2>1
<1> QED
  BY <1>1, <1>2, <1>5, <1>6, <1>7, <1>8, <1>9, <1>10, <1>11, <1>12, <1>13, <1>14, <1>15, <1>16,
     <1>17, <1>18 DEF Next, Uses, Writer

-----------------------------------------------------------------------------
(* Once every controller of the generation is registered, peers are told   *)
(* apart by their controllers, and nothing is left to be migrated.         *)
LEMMA AllNamed ==
  ASSUME DataOK, NamesOK, unnamed = {}, NEW c \in Controllers
  PROVE  Identity(c) = c /\ \A n \in Names : registry.devices[n] = 0
<1>1. Identity(c) = c
  BY DistinctAssumption DEF NamesOK, Identity
<1>2. ASSUME NEW n \in Names, registry.devices[n] # 0 PROVE FALSE
  <2>1. registry.adapters[n] = None /\ \E d \in Controllers : names[d] = n
    BY <1>2 DEF NamesOK, LegacyOK, Files
  <2> QED  BY <2>1, DistinctAssumption DEF NamesOK
<1> QED  BY <1>1, <1>2

LEMMA RegisterNames ==
  ASSUME DataOK, NamesOK, NEW c \in Controllers, Register(c)
  PROVE  /\ \A d \in Controllers \ unnamed' : registry'.adapters[names'[d]] = d
         /\ LegacyOK(registry)' /\ PeersOK(registry)' /\ LegacyWithin(registry', registry)
<1>a. /\ UNCHANGED <<names, issued>> /\ unnamed' = unnamed \ {c}
      /\ \A d \in Controllers \ unnamed : registry.adapters[names[d]] = d
      /\ LegacyOK(registry) /\ PeersOK(registry)
  BY DEF Register, NamesOK, Files
<1>1. CASE registry.adapters[names[c]] = c
  <2>1. UNCHANGED registry
    BY <1>1 DEF Register
  <2> QED  BY <1>1, <1>a, <2>1 DEF LegacyOK, PeersOK, LegacyWithin
<1>2. CASE registry.adapters[names[c]] # c
  <2>1. Persist(Registered(c)) /\ last < MaxVersion
    BY <1>2 DEF Register, Locks
  <2>2. /\ registry'.adapters = [registry.adapters EXCEPT ![names[c]] = c]
        /\ registry'.devices = [i \in Identities |->
              IF registry.adapters[names[c]] = None /\ i = names[c] THEN 0
              ELSE IF registry.adapters[names[c]] = None /\ i = c /\ registry.devices[c] = 0
                THEN registry.devices[names[c]]
              ELSE registry.devices[i]]
    BY <2>1, PersistFields, RegisteredFields DEF DataOK
  <2>3. /\ names \in [Controllers -> Names]
        /\ \A d, e \in Controllers : d # e => names[d] # names[e]
        /\ registry.adapters \in [Names -> Controllers \cup {None}]
        /\ Controllers \cap Names = {} /\ None \notin Controllers
        /\ Identities = Controllers \cup Names
    BY DistinctAssumption DEF DataOK, Namings, Registry, Identities
  <2>4. \A d \in Controllers \ unnamed' : registry'.adapters[names[d]] = d
    BY <1>a, <2>2, <2>3
  <2>5. \A n \in Names :
          /\ registry'.devices[n] = registry.devices[n] \/ registry'.devices[n] = 0
          /\ n = names[c] => registry'.devices[n] = 0
          /\ n # names[c] => registry'.adapters[n] = registry.adapters[n]
    <3>1. registry.devices[names[c]] # 0 => registry.adapters[names[c]] = None
      BY <1>a, <2>3 DEF LegacyOK
    <3> QED  BY <2>2, <2>3, <3>1
  <2>6. \A d \in Controllers : d # c => registry'.devices[d] = registry.devices[d]
    BY <2>2, <2>3
  <2>7. LegacyOK(registry)'
    <3> SUFFICES ASSUME NEW n \in Names, registry'.devices[n] # 0
                 PROVE  /\ registry'.adapters[n] = None
                        /\ \E d \in Controllers : /\ names[d] = n /\ registry'.devices[d] = 0
                                                  /\ issued[registry'.devices[n]] = {d}
      BY <1>a DEF LegacyOK
    <3>1. n # names[c] /\ registry'.devices[n] = registry.devices[n]
      BY <2>5
    <3>2. registry.adapters[n] = None
      BY <1>a, <3>1 DEF LegacyOK
    <3>3. PICK d \in Controllers : /\ names[d] = n /\ registry.devices[d] = 0
                                   /\ issued[registry.devices[n]] = {d}
      BY <1>a, <3>1 DEF LegacyOK
    <3> QED  BY <2>5, <2>6, <3>1, <3>2, <3>3
  <2>8. PeersOK(registry)'
    <3>1. \/ registry'.devices[c] = registry.devices[c]
          \/ registry'.devices[c] = registry.devices[names[c]]
      BY <2>2, <2>3
    <3>2. ASSUME registry.devices[names[c]] # 0 PROVE issued[registry.devices[names[c]]] = {c}
      BY <1>a, <2>3, <3>2 DEF LegacyOK
    <3> QED  BY <1>a, <2>6, <3>1, <3>2 DEF PeersOK
  <2>9. LegacyWithin(registry', registry)
    BY <2>5 DEF LegacyWithin
  <2> QED  BY <1>a, <2>4, <2>7, <2>8, <2>9
<1> QED  BY <1>1, <1>2

LEMMA PromoteNames ==
  ASSUME DataOK, NamesOK, unnamed = {}, NEW c \in Controllers, last < MaxVersion, Promoted(c),
         UNCHANGED <<names, unnamed, issued>>
  PROVE  /\ \A d \in Controllers \ unnamed' : registry'.adapters[names'[d]] = d
         /\ LegacyOK(registry)' /\ PeersOK(registry)' /\ LegacyWithin(registry', registry)
         /\ \A n \in Names : ephemeral'[n] = 0
         /\ \A d \in Controllers : ephemeral'[d] # 0 => issued[ephemeral'[d]] = {d}
<1>1. Identity(c) = c /\ \A n \in Names : registry.devices[n] = 0
  BY AllNamed
<1>2. /\ \A d \in Controllers \ unnamed : registry.adapters[names[d]] = d
      /\ LegacyOK(registry) /\ PeersOK(registry)
      /\ \A n \in Names : ephemeral[n] = 0
      /\ \A d \in Controllers : ephemeral[d] # 0 => issued[ephemeral[d]] = {d}
  BY DEF NamesOK, Files
<1>3. CASE UNCHANGED <<registry, ephemeral>>
  BY <1>2, <1>3 DEF LegacyOK, PeersOK, LegacyWithin
<1>4. CASE /\ ephemeral' = [ephemeral EXCEPT ![c] = 0]
           /\ registry'.adapters = registry.adapters
           /\ registry'.devices = [registry.devices EXCEPT ![c] = ephemeral[c]]
  <2>1. /\ c \in Identities /\ \A n \in Names : n # c
        /\ registry.devices \in [Identities -> 0..MaxKeys]
        /\ ephemeral \in [Identities -> 0..MaxKeys]
        /\ Identities = Controllers \cup Names
    BY DistinctAssumption DEF DataOK, Registry, Identities
  <2>2. \A n \in Names : registry'.devices[n] = 0 /\ ephemeral'[n] = 0
    BY <1>1, <1>2, <1>4, <2>1
  <2>3. \A d \in Controllers :
          /\ registry'.devices[d] = IF d = c THEN ephemeral[c] ELSE registry.devices[d]
          /\ ephemeral'[d] = IF d = c THEN 0 ELSE ephemeral[d]
    BY <1>4, <2>1
  <2> QED  BY <1>2, <1>4, <2>2, <2>3 DEF LegacyOK, PeersOK, LegacyWithin
<1> QED  BY <1>1, <1>3, <1>4, PromotedFields

(* A new key is nobody's yet.                                              *)
LEMMA GenerateNames ==
  ASSUME DataOK, NamesOK, NEW c \in Controllers, Generate(c)
  PROVE  /\ \A R \in Files : LegacyOK(R)' /\ PeersOK(R)'
         /\ \A n \in Names : ephemeral'[n] = 0
         /\ \A d \in Controllers : ephemeral'[d] # 0 => issued'[ephemeral'[d]] = {d}
<1>1. PICK k \in Keys :
        /\ issued[k] = {} /\ issued' = [issued EXCEPT ![k] = {c}]
        /\ \E kept : ephemeral' = [i \in Identities |->
             IF i = Identity(c) THEN k ELSE IF i \in kept THEN ephemeral[i] ELSE 0]
  BY DEF Generate, NewKey
<1>2. PICK kept : ephemeral' = [i \in Identities |->
             IF i = Identity(c) THEN k ELSE IF i \in kept THEN ephemeral[i] ELSE 0]
  BY <1>1
<1>3. Identity(c) = c /\ UNCHANGED names
  BY AllNamed DEF Generate, worldVars
<1>4. ASSUME NEW v \in 0..MaxKeys, NEW d \in Controllers, v # 0, issued[v] = {d}
      PROVE  issued'[v] = {d}
  <2>1. v \in Keys
    BY <1>4, BoundsAssumption DEF Keys
  <2>2. v # k
    BY <1>1, <1>4
  <2> QED  BY <1>1, <1>4, <2>1, <2>2 DEF DataOK
<1>5. ASSUME NEW R \in Files PROVE LegacyOK(R)' /\ PeersOK(R)'
  <2>1. LegacyOK(R) /\ PeersOK(R)
    BY DEF NamesOK
  <2>2. R.devices \in [Identities -> 0..MaxKeys]
    BY DEF DataOK, Files, Registry, WriterState
  <2>3. \A i \in Names \cup Controllers : R.devices[i] \in 0..MaxKeys
    BY <2>2 DEF Identities
  <2>4. LegacyOK(R)'
    BY <1>3, <1>4, <2>1, <2>3 DEF LegacyOK
  <2>5. PeersOK(R)'
    BY <1>4, <2>1, <2>3 DEF PeersOK
  <2> QED  BY <2>4, <2>5
<1>6. \A n \in Names : ephemeral'[n] = 0
  BY <1>2, <1>3, DistinctAssumption DEF NamesOK, Identities
<1>7. ASSUME NEW d \in Controllers, ephemeral'[d] # 0 PROVE issued'[ephemeral'[d]] = {d}
  <2>1. CASE d = c
    BY <1>1, <1>2, <1>3, <2>1 DEF DataOK, Identities
  <2>2. CASE d # c
    <3>1. ephemeral'[d] = ephemeral[d] /\ ephemeral[d] \in 0..MaxKeys
      BY <1>2, <1>3, <1>7, <2>2 DEF DataOK, Identities
    <3> QED  BY <1>4, <1>7, <3>1 DEF NamesOK
  <2> QED  BY <2>1, <2>2
<1> QED  BY <1>5, <1>6, <1>7

LEMMA OKStays ==
  ASSUME NEW R, LegacyOK(R), PeersOK(R), UNCHANGED <<names, issued>>
  PROVE  LegacyOK(R)' /\ PeersOK(R)'
BY DEF LegacyOK, PeersOK

LEMMA NamesStep ==
  ASSUME DataOK, VersionsOK, NamesOK, [Next]_vars
  PROVE  NamesOK'
<1>1. ASSUME UNCHANGED <<names, unnamed, registry, disk, ephemeral, issued>>,
             writer'.taken \subseteq writer.taken,
             \A t \in Tasks : task'[t].stage # "idle" => unnamed = {}
      PROVE  NamesOK'
  <2>1. Files' \subseteq Files
    BY <1>1 DEF Files
  <2>2. ASSUME NEW R \in Files PROVE LegacyOK(R)' /\ PeersOK(R)'
    BY <1>1, OKStays DEF NamesOK
  <2> QED  BY <1>1, <2>1, <2>2 DEF NamesOK, LegacyWithin
<1>2. ASSUME UNCHANGED <<names, issued, disk, writer>>,
             \A d \in Controllers \ unnamed' : registry'.adapters[names'[d]] = d,
             LegacyOK(registry)', PeersOK(registry)', LegacyWithin(registry', registry),
             \A n \in Names : ephemeral'[n] = 0,
             \A d \in Controllers : ephemeral'[d] # 0 => issued[ephemeral'[d]] = {d},
             \A t \in Tasks : task'[t].stage # "idle" => unnamed' = {}
      PROVE  NamesOK'
  <2>1. ASSUME NEW R \in {disk} \cup writer.taken PROVE LegacyOK(R)' /\ PeersOK(R)'
    BY <1>2, OKStays DEF NamesOK, Files
  <2>2. /\ LegacyWithin(registry', disk)
        /\ \A r \in writer.taken : LegacyWithin(registry', r) /\ LegacyWithin(r, disk)
    BY <1>2 DEF NamesOK, LegacyWithin
  <2>3. ASSUME NEW R \in Files' PROVE LegacyOK(R)' /\ PeersOK(R)'
    <3>1. CASE R = registry'
      BY <1>2, <3>1 DEF LegacyOK, PeersOK
    <3>2. CASE R \in {disk} \cup writer.taken
      BY <2>1, <3>2
    <3> QED  BY <1>2, <3>1, <3>2 DEF Files
  <2> QED  BY <1>2, <2>2, <2>3 DEF NamesOK, LegacyWithin
<1>3. ASSUME NEW c \in Controllers, Register(c) PROVE NamesOK'
  <2>1. /\ UNCHANGED <<names, issued, disk, writer, ephemeral, task>> /\ unnamed' \subseteq unnamed
    BY <1>3 DEF Register, taskVars
  <2> QED  BY <1>2, <1>3, <2>1, RegisterNames DEF NamesOK
<1>4. ASSUME NEW c \in Controllers, Snapshot(c) PROVE NamesOK'
  <2>1. /\ UNCHANGED <<names, unnamed, issued, disk, writer, task>>
        /\ unnamed = {} /\ last < MaxVersion /\ Promoted(c)
    BY <1>4 DEF Snapshot, Locks, taskVars, worldVars
  <2> QED  BY <1>2, <2>1, PromoteNames
<1>5. CASE Present
  <2>1. /\ UNCHANGED <<names, unnamed, issued, disk, writer, task, ephemeral>>
        /\ registry'.devices = registry.devices /\ registry'.adapters = registry.adapters
    BY <1>5, PersistFields DEF Present, Locks, taskVars, worldVars, DataOK
  <2>2. LegacyOK(registry) /\ PeersOK(registry)
    BY DEF NamesOK, Files
  <2>3. LegacyOK(registry)' /\ PeersOK(registry)'
    BY <2>1, <2>2 DEF LegacyOK, PeersOK
  <2>4. LegacyWithin(registry', registry)
    BY <2>1 DEF LegacyWithin
  <2> QED  BY <1>2, <2>1, <2>3, <2>4 DEF NamesOK
<1>6. ASSUME NEW t \in Tasks, ProvisionPromotes(t) PROVE NamesOK'
  <2>1. /\ UNCHANGED <<names, unnamed, issued, disk, writer>>
        /\ last < MaxVersion /\ Promoted(task[t].peer)
        /\ task[t].stage = "pairing" /\ task[t].peer \in Controllers
    BY <1>6 DEF ProvisionPromotes, Locks, worldVars, DataOK, Task
  <2>2. unnamed = {}
    BY <2>1 DEF NamesOK
  <2> QED  BY <1>2, <2>1, <2>2, PromoteNames
<1>7. ASSUME NEW c \in Controllers, Generate(c) PROVE NamesOK'
  <2>1. UNCHANGED <<names, unnamed, registry, disk, writer, task>>
    BY <1>7 DEF Generate, worldVars, writerVars, taskVars
  <2>2. /\ \A R \in Files : LegacyOK(R)' /\ PeersOK(R)'
        /\ \A n \in Names : ephemeral'[n] = 0
        /\ \A d \in Controllers : ephemeral'[d] # 0 => issued'[ephemeral'[d]] = {d}
    BY <1>7, GenerateNames
  <2>3. \A R \in Files' : LegacyOK(R)' /\ PeersOK(R)'
    BY <2>1, <2>2 DEF Files
  <2> QED  BY <2>1, <2>2, <2>3 DEF NamesOK, LegacyWithin
<1>8. CASE WriterTakes
  <2>1. /\ writer'.taken = slot
        /\ UNCHANGED <<names, unnamed, registry, disk, ephemeral, issued, task>>
    BY <1>8 DEF WriterTakes, DataOK, WriterState, worldVars, taskVars
  <2>2. Files' \subseteq {registry, disk} /\ writer'.taken \subseteq {registry}
    BY <2>1 DEF Files, VersionsOK
  <2>3. ASSUME NEW R \in Files PROVE LegacyOK(R)' /\ PeersOK(R)'
    BY <2>1, OKStays DEF NamesOK
  <2>4. Files' \subseteq Files
    BY <2>2 DEF Files
  <2> QED  BY <2>1, <2>2, <2>3, <2>4 DEF NamesOK, LegacyWithin
<1>9. CASE WriterPersists
  <2>1. /\ writer'.taken = {} /\ disk' \in writer.taken \cup {disk}
        /\ UNCHANGED <<names, unnamed, registry, ephemeral, issued, task>>
    <3>1. PICK result \in {"ok", "err"} :
            /\ writer' = [writer EXCEPT !.at = "reply", !.taken = {}, !.result = result]
            /\ disk' \in writer.taken \cup (IF result = "err" THEN {disk} ELSE {})
      BY <1>9 DEF WriterPersists
    <3>2. writer'.taken = {}
      BY <3>1 DEF DataOK, WriterState
    <3> QED  BY <1>9, <3>1, <3>2 DEF WriterPersists, worldVars, taskVars
  <2>2. Files' \subseteq Files
    BY <2>1 DEF Files
  <2>3. \A R \in Files' : LegacyOK(R)' /\ PeersOK(R)'
    BY <2>1, <2>2 DEF NamesOK, LegacyOK, PeersOK
  <2> QED  BY <2>1, <2>3 DEF NamesOK, LegacyWithin
<1>10. CASE WriterReceives \/ WriterDrains \/ WriterReplies \/ WriterEnds
  <2>1. /\ writer'.taken = writer.taken
        /\ UNCHANGED <<names, unnamed, registry, disk, ephemeral, issued, task>>
    BY <1>10 DEF WriterReceives, WriterDrains, WriterReplies, WriterEnds, DataOK, WriterState,
                 worldVars, taskVars
  <2> QED  BY <1>1, <2>1 DEF NamesOK
<1>11. ASSUME NEW t \in Tasks, Others(t), task'[t].stage # "idle" => unnamed = {},
              UNCHANGED <<names, unnamed, registry, disk, ephemeral, issued, writer>>
       PROVE  NamesOK'
  BY <1>1, <1>11 DEF NamesOK, Others
<1>12. CASE Wake \/ Close \/ UNCHANGED vars \/ (\E k \in Keys : Revoke(k))
            \/ \E t \in Tasks : FlushSends(t)
  <2>1. UNCHANGED <<names, unnamed, registry, disk, ephemeral, issued, writer, task>>
    BY <1>12 DEF Wake, Close, vars, Revoke, FlushSends, worldVars, writerVars, taskVars
  <2> QED  BY <1>1, <2>1 DEF NamesOK
<1>13. ASSUME NEW t \in Tasks, NEW c \in Controllers, Provision(t, c) PROVE NamesOK'
  BY <1>11, <1>13, BeginFields DEF Provision, worldVars, writerVars, DataOK
<1>14. ASSUME NEW t \in Tasks, ProvisionFlushes(t) PROVE NamesOK'
  <2>1. Others(t) /\ unnamed = {}
    BY <1>14, StageFields DEF ProvisionFlushes, Stage, DataOK, NamesOK
  <2> QED  BY <1>11, <1>14, <2>1 DEF ProvisionFlushes, worldVars, writerVars
<1>15. ASSUME NEW t \in Tasks, Flushed(t) PROVE NamesOK'
  <2>1. Others(t) /\ unnamed = {}
    BY <1>15, FlushedFields DEF Flushed, DataOK, NamesOK
  <2> QED  BY <1>11, <1>15, <2>1 DEF Flushed, worldVars, writerVars
<1>16. ASSUME NEW t \in Tasks, StoreKey(t) \/ Abandon(t) PROVE NamesOK'
  BY <1>11, <1>16, EndFields DEF StoreKey, Abandon, worldVars, writerVars, DataOK
<1>17. ASSUME BluezRestarts \/ Restart PROVE NamesOK'
  <2>1. /\ unnamed' = Controllers /\ UNCHANGED <<disk, issued>>
        /\ \A t \in Tasks : task'[t].stage = "idle"
        /\ \A n \in Names : ephemeral'[n] = 0
        /\ \A d \in Controllers : ephemeral'[d] # 0 => issued'[ephemeral'[d]] = {d}
    BY <1>17, IdleFacts DEF BluezRestarts, Restart, writerVars, NamesOK, Identities
  <2>2. /\ Files' \subseteq Files
        /\ LegacyWithin(registry, disk)'
        /\ \A r \in writer'.taken : LegacyWithin(registry', r) /\ LegacyWithin(r, disk')
    <3>1. CASE BluezRestarts
      BY <3>1 DEF BluezRestarts, writerVars, Files, NamesOK, LegacyWithin
    <3>2. CASE Restart
      BY <3>2, IdleFacts DEF Restart, Files, NamesOK, LegacyWithin
    <3> QED  BY <1>17, <3>1, <3>2
  <2>3. \A R \in Files : LegacyOK(R)' /\ PeersOK(R)'
    <3>1. CASE names' = names
      BY <2>1, <3>1 DEF NamesOK, LegacyOK, PeersOK
    <3>2. CASE ~ \E n \in Names : registry.devices[n] # 0 \/ disk.devices[n] # 0
      <4>1. \A R \in Files, n \in Names : R.devices[n] = 0
        BY <3>2 DEF Files, NamesOK, LegacyWithin
      <4> QED  BY <2>1, <4>1 DEF NamesOK, LegacyOK, PeersOK
    <3> QED  BY <1>17, <3>1, <3>2 DEF BluezRestarts, Restart, Renumber
  <2> QED  BY <2>1, <2>2, <2>3 DEF NamesOK
<1> QED
  BY <1>3, <1>4, <1>5, <1>6, <1>7, <1>8, <1>9, <1>10, <1>12, <1>13, <1>14, <1>15, <1>16, <1>17
  DEF Next, Writer

-----------------------------------------------------------------------------
(* No use of the registry loses a key.                                     *)
LEMMA UsesKeepKeys ==
  ASSUME DataOK, NamesOK, Uses, NEW k, k # 0, Holds(registry, k)
  PROVE  Holds(registry', k)
<1>1. ASSUME NEW c \in Controllers, Register(c) PROVE Holds(registry', k)
  <2>1. CASE registry.adapters[names[c]] = c
    BY <1>1, <2>1 DEF Register
  <2>2. CASE registry.adapters[names[c]] # c
    <3>1. Persist(Registered(c)) /\ last < MaxVersion
      BY <1>1, <2>2 DEF Register, Locks
    <3>2. registry'.devices = [i \in Identities |->
            IF registry.adapters[names[c]] = None /\ i = names[c] THEN 0
            ELSE IF registry.adapters[names[c]] = None /\ i = c /\ registry.devices[c] = 0
              THEN registry.devices[names[c]]
            ELSE registry.devices[i]]
      BY <3>1, PersistFields, RegisteredFields DEF DataOK
    <3>3. PICK i \in Identities : registry.devices[i] = k
      BY DEF Holds
    <3>4. names[c] \in Names /\ names[c] # c /\ c \in Identities
      BY DistinctAssumption DEF DataOK, Namings, Identities
    <3>5. CASE registry.adapters[names[c]] = None /\ i = names[c]
      <4>1. PICK d \in Controllers : names[d] = names[c] /\ registry.devices[d] = 0
        BY <3>3, <3>4, <3>5 DEF NamesOK, Files, LegacyOK
      <4>2. d = c
        BY <4>1 DEF DataOK, Namings
      <4>3. registry'.devices[c] = k
        BY <3>2, <3>3, <3>4, <3>5, <4>1, <4>2
      <4> QED  BY <3>4, <4>3 DEF Holds
    <3>6. CASE ~(registry.adapters[names[c]] = None /\ i = names[c])
      <4>1. registry'.devices[i] = k
        BY <3>2, <3>3, <3>6
      <4> QED  BY <4>1 DEF Holds
    <3> QED  BY <3>5, <3>6
  <2> QED  BY <2>1, <2>2
<1>2. ASSUME NEW c \in Controllers, last < MaxVersion, Promoted(c) PROVE Holds(registry', k)
  <2>1. CASE UNCHANGED registry
    BY <2>1
  <2>2. CASE /\ registry.devices[Identity(c)] = 0
             /\ registry'.devices = [registry.devices EXCEPT
                                       ![Identity(c)] = ephemeral[Identity(c)]]
    <3>1. PICK i \in Identities : registry.devices[i] = k
      BY DEF Holds
    <3>2. registry'.devices[i] = k
      BY <2>2, <3>1 DEF DataOK, Registry
    <3> QED  BY <3>2 DEF Holds
  <2> QED  BY <1>2, <2>1, <2>2, PromotedFields
<1>3. ASSUME NEW c \in Controllers, Snapshot(c) PROVE Holds(registry', k)
  BY <1>2, <1>3 DEF Snapshot, Locks
<1>4. CASE Present
  <2>1. registry'.devices = registry.devices
    BY <1>4, PersistFields DEF Present, Locks, DataOK
  <2> QED  BY <2>1 DEF Holds
<1>5. ASSUME NEW t \in Tasks, ProvisionPromotes(t) PROVE Holds(registry', k)
  BY <1>2, <1>5 DEF ProvisionPromotes, Locks, DataOK, Task
<1> QED  BY <1>1, <1>3, <1>4, <1>5 DEF Uses

(* promote_device leaves the key it returns in the registry.               *)
LEMMA PromoteHolds ==
  ASSUME DataOK, NEW c \in Controllers, last < MaxVersion, Promoted(c)
  PROVE  Holds(registry', KnownKey(c))
<1>1. Identity(c) \in Identities
  BY IdentityType
<1>2. CASE registry.devices[Identity(c)] # 0 /\ UNCHANGED registry
  BY <1>1, <1>2 DEF KnownKey, Holds
<1>3. CASE /\ registry.devices[Identity(c)] = 0
           /\ registry'.devices = [registry.devices EXCEPT
                                     ![Identity(c)] = ephemeral[Identity(c)]]
  <2>1. registry'.devices[Identity(c)] = KnownKey(c)
    BY <1>1, <1>3 DEF KnownKey, DataOK, Registry
  <2> QED  BY <1>1, <2>1 DEF Holds
<1> QED  BY <1>2, <1>3, PromotedFields

LEMMA CredentialsStep ==
  ASSUME DataOK, VersionsOK, FlushesOK, NamesOK, CredentialsOK, [Next]_vars
  PROVE  CredentialsOK'
<1>1. ASSUME Files' \subseteq Files, UNCHANGED <<registry, need>>, stored' \subseteq stored,
             \A t \in Tasks : task'[t] = task[t] \/ task'[t].stage \in {"idle", "pairing"},
             \A t \in Tasks : flush'[t] = flush[t] \/ (Pending(t) /\ flush'[t] = "waiting")
      PROVE  CredentialsOK'
  BY <1>1 DEF CredentialsOK, Pending, Holds
<1>2. ASSUME Uses PROVE CredentialsOK'
  <2>1. UNCHANGED <<disk, writer, stored, flush, need>>
    BY <1>2, UsesFields
  <2>2. ASSUME NEW k, k # 0, Holds(registry, k) PROVE Holds(registry', k)
    BY <1>2, <2>2, UsesKeepKeys
  <2>3. Files' \subseteq Files \cup {registry'}
    BY <2>1 DEF Files
  <2>4. ASSUME NEW t \in Tasks
        PROVE  \/ task'[t] = task[t]
               \/ /\ task'[t].stage = "promoted" /\ task'[t].key # 0
                  /\ Holds(registry', task'[t].key)
    <3>1. ASSUME NEW u \in Tasks, ProvisionPromotes(u)
          PROVE  /\ Others(u) /\ task'[u].stage = "promoted" /\ task'[u].key # 0
                 /\ Holds(registry', task'[u].key)
      <4>1. /\ task[u].peer \in Controllers /\ last < MaxVersion
            /\ Promoted(task[u].peer) /\ KnownKey(task[u].peer) # 0
            /\ task' = [task EXCEPT ![u].stage = "promoted", ![u].key = KnownKey(task[u].peer)]
        BY <3>1 DEF ProvisionPromotes, Locks, DataOK, Task
      <4>2. /\ Others(u) /\ task'[u].stage = "promoted"
            /\ task'[u].key = KnownKey(task[u].peer)
        BY <4>1, PromoteFields, KnownKeyType DEF DataOK
      <4> QED  BY <4>1, <4>2, PromoteHolds
    <3>2. \/ UNCHANGED task
          \/ \E u \in Tasks : ProvisionPromotes(u)
      BY <1>2 DEF Uses, Register, Snapshot, Present, taskVars
    <3> QED  BY <3>1, <3>2 DEF Others
  <2>5. \A k \in stored' : k # 0 /\ \A R \in Files' : Holds(R, k)
    BY <2>1, <2>2, <2>3 DEF CredentialsOK, Files
  <2>6. ASSUME NEW t \in Tasks, task'[t].stage \in {"promoted", "flushing", "writing"}
        PROVE  task'[t].key # 0 /\ Holds(registry', task'[t].key)
    BY <2>2, <2>4, <2>6 DEF CredentialsOK
  <2>7. ASSUME NEW t \in Tasks, task'[t].stage = "flushing", Pending(t)'
        PROVE  \A R \in Files' : need'[t] <= R.version => Holds(R, task'[t].key)
    BY <2>1, <2>3, <2>4, <2>6, <2>7 DEF CredentialsOK, Pending
  <2>8. ASSUME NEW t \in Tasks,
               task'[t].stage = "writing" \/ (task'[t].stage = "flushing" /\ flush'[t] = "ok")
        PROVE  \A R \in Files' : Holds(R, task'[t].key)
    BY <2>1, <2>3, <2>4, <2>6, <2>8 DEF CredentialsOK
  <2> QED  BY <2>5, <2>6, <2>7, <2>8 DEF CredentialsOK, Holds
<1>3. CASE Wake \/ Close \/ UNCHANGED vars \/ (\E k \in Keys : Revoke(k))
           \/ \E c \in Controllers : Generate(c)
  <2>1. UNCHANGED <<registry, disk, writer, need, task, flush>> /\ stored' \subseteq stored
    BY <1>3 DEF Wake, Close, vars, Revoke, Generate, writerVars, taskVars
  <2> QED  BY <1>1, <2>1 DEF Files
<1>4. CASE \E t \in Tasks : FlushSends(t)
  <2>1. UNCHANGED <<registry, disk, writer, need, task, stored>>
    BY <1>4 DEF FlushSends
  <2>2. \A t \in Tasks : flush'[t] = flush[t] \/ (Pending(t) /\ flush'[t] = "waiting")
    BY <1>4 DEF FlushSends, Pending, DataOK
  <2> QED  BY <1>1, <2>1, <2>2 DEF Files
<1>5. CASE WriterReceives \/ WriterDrains \/ WriterEnds
  <2>1. /\ writer'.taken = writer.taken
        /\ UNCHANGED <<registry, disk, need, task, flush, stored>>
    BY <1>5 DEF WriterReceives, WriterDrains, WriterEnds, DataOK, WriterState, taskVars
  <2> QED  BY <1>1, <2>1 DEF Files
<1>6. CASE WriterTakes
  <2>1. writer'.taken = slot /\ UNCHANGED <<registry, disk, need, task, flush, stored>>
    BY <1>6 DEF WriterTakes, DataOK, WriterState, taskVars
  <2>2. Files' \subseteq Files
    BY <2>1 DEF Files, VersionsOK
  <2> QED  BY <1>1, <2>1, <2>2
<1>7. CASE WriterPersists
  <2>1. PICK result \in {"ok", "err"} :
          /\ writer' = [writer EXCEPT !.at = "reply", !.taken = {}, !.result = result]
          /\ disk' \in writer.taken \cup (IF result = "err" THEN {disk} ELSE {})
    BY <1>7 DEF WriterPersists
  <2>2. writer'.taken = {} /\ UNCHANGED <<registry, need, task, flush, stored>>
    BY <1>7, <2>1 DEF WriterPersists, DataOK, WriterState, taskVars
  <2>3. Files' \subseteq Files
    BY <2>1, <2>2 DEF Files
  <2> QED  BY <1>1, <2>2, <2>3
<1>8. CASE WriterReplies
  <2>1. /\ writer.at = "reply" /\ writer'.taken = writer.taken
        /\ UNCHANGED <<registry, disk, task, stored>>
        /\ \A t \in Tasks : IF t \in writer.barriers
             THEN flush'[t] = IF writer.result = "err" THEN "failed" ELSE "ok"
             ELSE flush'[t] = flush[t] /\ need'[t] = need[t]
    BY <1>8 DEF WriterReplies, DataOK, WriterState
  <2>2. writer.taken = {} /\ Files = {registry, disk} /\ Files' = Files
    BY <2>1 DEF Files, VersionsOK
  <2>3. /\ writer.result \in {"ok", "err"}
        /\ registry.version \in Nat /\ disk.version \in Nat /\ \A t \in Tasks : need[t] \in Nat
    BY DEF DataOK, WriterState, Registry
  <2>4. ASSUME NEW t \in writer.barriers, writer.result = "ok", task[t].stage = "flushing",
               t \in Tasks
        PROVE  \A R \in Files : Holds(R, task[t].key)
    <3>1. flush[t] = "waiting" /\ need[t] <= disk.version /\ disk.version <= registry.version
      BY <2>1, <2>4 DEF FlushesOK, VersionsOK
    <3>2. need[t] <= registry.version
      BY <2>3, <2>4, <3>1
    <3> QED  BY <2>2, <2>4, <3>1, <3>2 DEF CredentialsOK, Pending
  <2>5. ASSUME NEW t \in Tasks, task[t].stage = "flushing", Pending(t)'
        PROVE  Pending(t) /\ need'[t] = need[t]
    BY <2>1, <2>5 DEF Pending
  <2>6. ASSUME NEW t \in Tasks, task[t].stage = "flushing", flush'[t] = "ok"
        PROVE  \A R \in Files : Holds(R, task[t].key)
    <3>1. CASE t \in writer.barriers
      BY <2>1, <2>3, <2>4, <2>6, <3>1
    <3>2. CASE t \notin writer.barriers
      BY <2>1, <2>6, <3>2 DEF CredentialsOK
    <3> QED  BY <3>1, <3>2
  <2> QED  BY <2>1, <2>2, <2>5, <2>6 DEF CredentialsOK, Holds
<1>9. ASSUME NEW t \in Tasks, NEW c \in Controllers, Provision(t, c) PROVE CredentialsOK'
  <2>1. UNCHANGED <<registry, disk, writer, need, flush, stored>>
    BY <1>9 DEF Provision, writerVars
  <2>2. \A u \in Tasks : task'[u] = task[u] \/ task'[u].stage \in {"idle", "pairing"}
    BY <1>9, BeginFields DEF Provision, DataOK, Others
  <2> QED  BY <1>1, <2>1, <2>2 DEF Files
<1>10. ASSUME NEW t \in Tasks, Abandon(t) PROVE CredentialsOK'
  <2>1. UNCHANGED <<registry, disk, writer, need, flush, stored>>
    BY <1>10 DEF Abandon, writerVars
  <2>2. \A u \in Tasks : task'[u] = task[u] \/ task'[u].stage \in {"idle", "pairing"}
    BY <1>10, EndFields DEF Abandon, DataOK, Others
  <2> QED  BY <1>1, <2>1, <2>2 DEF Files
<1>11. ASSUME NEW t \in Tasks, ProvisionFlushes(t) PROVE CredentialsOK'
  <2>1. UNCHANGED <<registry, disk, writer, stored>> /\ Files' = Files
    BY <1>11 DEF ProvisionFlushes, writerVars, Files
  <2>2. /\ Others(t) /\ task'[t].stage = "flushing" /\ task'[t].key = task[t].key
        /\ task[t].stage = "promoted"
    BY <1>11, StageFields DEF ProvisionFlushes, Stage, DataOK
  <2>3. /\ flush'[t] = "sending" /\ need'[t] = registry.version
        /\ \A u \in Tasks : u # t => flush'[u] = flush[u] /\ need'[u] = need[u]
    BY <1>11 DEF ProvisionFlushes, DataOK
  <2>4. \A R \in Files : R.version \in Nat /\ (registry.version <= R.version => R = registry)
    <3>1. /\ registry.version \in Nat /\ disk.version \in Nat
          /\ \A r \in writer.taken : r.version \in Nat
      BY DEF DataOK, Registry, WriterState
    <3> QED  BY <3>1 DEF Files, VersionsOK
  <2>5. \A R \in Files : need'[t] <= R.version => Holds(R, task'[t].key)
    BY <2>2, <2>3, <2>4 DEF CredentialsOK
  <2> QED  BY <2>1, <2>2, <2>3, <2>5 DEF CredentialsOK, Others, Pending, Holds
<1>12. ASSUME NEW t \in Tasks, Flushed(t) PROVE CredentialsOK'
  <2>1. UNCHANGED <<registry, disk, writer, stored, flush, need>> /\ Files' = Files
    BY <1>12 DEF Flushed, writerVars, Files
  <2>2. /\ Others(t) /\ task[t].stage = "flushing"
        /\ \/ flush[t] = "ok" /\ task'[t].stage = "writing" /\ task'[t].key = task[t].key
           \/ task'[t].stage = "idle"
    BY <1>12, FlushedFields DEF Flushed, DataOK
  <2> QED  BY <2>1, <2>2 DEF CredentialsOK, Others, Pending, Holds
<1>13. ASSUME NEW t \in Tasks, StoreKey(t) PROVE CredentialsOK'
  <2>1. UNCHANGED <<registry, disk, writer, flush, need>> /\ Files' = Files
    BY <1>13 DEF StoreKey, writerVars, Files
  <2>2. Others(t) /\ task'[t].stage = "idle" /\ task[t].stage = "writing"
    BY <1>13, EndFields DEF StoreKey, DataOK
  <2>3. \A k \in stored' : k # 0 /\ \A R \in Files : Holds(R, k)
    BY <1>13, <2>2 DEF StoreKey, CredentialsOK
  <2> QED  BY <2>1, <2>2, <2>3 DEF CredentialsOK, Others, Pending, Holds
<1>14. CASE BluezRestarts
  <2>1. UNCHANGED <<registry, disk, writer, need, flush, stored>>
    BY <1>14 DEF BluezRestarts, writerVars
  <2> QED  BY <1>1, <1>14, <2>1, IdleFacts DEF BluezRestarts, Files
<1>15. CASE Restart
  <2>1. /\ Files' \subseteq {disk} /\ UNCHANGED stored
        /\ \A t \in Tasks : task'[t].stage = "idle"
    BY <1>15, IdleFacts DEF Restart, Files
  <2>2. \A k \in stored' : k # 0 /\ \A R \in Files' : Holds(R, k)
    BY <2>1 DEF CredentialsOK, Files
  <2> QED  BY <2>1, <2>2 DEF CredentialsOK, Holds
<1> QED
  BY <1>2, <1>3, <1>4, <1>5, <1>6, <1>7, <1>8, <1>9, <1>10, <1>11, <1>12, <1>13, <1>14, <1>15
  DEF Next, Uses, Writer

-----------------------------------------------------------------------------
LEMMA InitIInv == Init => IInv
<1> SUFFICES ASSUME Init PROVE IInv
  OBVIOUS
<1>a. /\ 1 \in Keys /\ 0 \in 0..MaxKeys /\ 1 \in 0..MaxKeys /\ 0 \in 0..MaxVersion
  BY BoundsAssumption DEF Keys
<1>b. PICK legacy \in {{}} \cup {{c} : c \in Controllers} :
        /\ registry = FileOf({names[c] : c \in legacy})
        /\ issued = [k \in Keys |-> IF k = 1 THEN legacy ELSE {}]
        /\ stored \in SUBSET {k \in Keys : k = 1 /\ legacy # {}}
  BY DEF Init
<1>c. /\ names \in Namings /\ unnamed = Controllers /\ disk = registry
      /\ ephemeral = [i \in Identities |-> 0] /\ slot = {} /\ inbox = None
      /\ task = [t \in Tasks |-> IdleTask] /\ flush = [t \in Tasks |-> "none"]
      /\ need = [t \in Tasks |-> 0] /\ last = 0 /\ writer = IdleWriter
  BY DEF Init
<1>d. /\ registry.adapters = [n \in Names |-> None] /\ registry.version = 0
      /\ registry.devices = [i \in Identities |->
           IF i \in {names[c] : c \in legacy} THEN 1 ELSE 0]
      /\ registry \in Registry
  <2>1. [i \in Identities |-> IF i \in {names[c] : c \in legacy} THEN 1 ELSE 0]
          \in [Identities -> 0..MaxKeys]
    BY <1>a
  <2> QED  BY <1>a, <1>b, <2>1 DEF FileOf, Registry
<1>e. /\ \A c \in Controllers : names[c] \in Names
      /\ \A c, d \in Controllers : names[c] = names[d] => c = d
      /\ Controllers \cap Names = {} /\ Identities = Controllers \cup Names
  BY <1>c, DistinctAssumption DEF Namings, Identities
<1>f. Files = {registry} /\ writer.taken = {} /\ writer.barriers = {} /\ writer.at = "recv"
      /\ writer \in WriterState /\ \A t \in Tasks : task[t].stage = "idle"
  BY <1>c, IdleFacts DEF Files
<1>1. DataOK
  <2>1. task \in [Tasks -> Task] /\ flush \in [Tasks -> FlushState] /\ need \in [Tasks -> 0..MaxVersion]
    BY <1>a, <1>c, IdleFacts DEF FlushState
  <2>2. issued \in [Keys -> SUBSET Controllers]
    BY <1>b
  <2>3. stored \in SUBSET Keys
    BY <1>b
  <2> QED  BY <1>a, <1>c, <1>d, <1>f, <2>1, <2>2, <2>3 DEF DataOK
<1>2. VersionsOK
  BY <1>c, <1>d, <1>f DEF VersionsOK
<1>3. FlushesOK
  BY <1>c, <1>f, DistinctAssumption DEF FlushesOK, Pending
<1>4. \A c \in Controllers : registry.devices[c] = 0
  BY <1>d, <1>e
<1>5. NamesOK
  <2>1. LegacyOK(registry)
    <3> SUFFICES ASSUME NEW n \in Names, registry.devices[n] # 0
                 PROVE  /\ registry.adapters[n] = None
                        /\ \E c \in Controllers : /\ names[c] = n /\ registry.devices[c] = 0
                                                  /\ issued[registry.devices[n]] = {c}
      BY DEF LegacyOK
    <3>1. PICK c \in legacy : names[c] = n
      BY <1>d, <1>e
    <3>2. c \in Controllers /\ legacy = {c}
      BY <3>1
    <3>3. registry.devices[n] = 1
      BY <1>d, <1>e, <3>1
    <3>4. issued[registry.devices[n]] = {c}
      BY <1>a, <1>b, <3>2, <3>3
    <3> QED  BY <1>4, <1>d, <3>1, <3>2, <3>4
  <2>2. PeersOK(registry)
    BY <1>4 DEF PeersOK
  <2> QED  BY <1>c, <1>e, <1>f, <2>1, <2>2 DEF NamesOK, LegacyWithin
<1>6. CredentialsOK
  <2>1. ASSUME NEW k \in stored PROVE k # 0 /\ Holds(registry, k)
    <3>1. k = 1 /\ legacy # {}
      BY <1>b
    <3>2. PICK c \in legacy : c \in Controllers
      BY <3>1
    <3>3. names[c] \in Identities /\ registry.devices[names[c]] = 1
      BY <1>d, <1>e, <3>2
    <3> QED  BY <3>1, <3>3 DEF Holds
  <2> QED  BY <1>f, <2>1 DEF CredentialsOK
<1> QED  BY <1>1, <1>2, <1>3, <1>5, <1>6 DEF IInv

(***************************************************************************)
(* The inductive invariant holds in every reachable state.                 *)
(***************************************************************************)
THEOREM Invariance == Spec => []IInv
<1>1. IInv /\ [Next]_vars => IInv'
  BY DataStep, VersionsStep, FlushesStep, NamesStep, CredentialsStep DEF IInv
<1> QED  BY <1>1, InitIInv, PTL DEF Spec

(***************************************************************************)
(* Whatever a crash of the daemon loses, every account key in              *)
(* fast-pair-keys.json is under a device key that device-identities.json   *)
(* still names.                                                            *)
(***************************************************************************)
THEOREM CredentialsAreNamed == Spec => []CredentialsNamed
<1>1. IInv => CredentialsNamed
  BY DEF IInv, CredentialsOK, CredentialsNamed, Files, Holds
<1> QED  BY <1>1, Invariance, PTL

(***************************************************************************)
(* A device key stays with the peer it was generated for, however hciN     *)
(* names move between controllers.                                         *)
(***************************************************************************)
THEOREM KeysNameOnePeer == Spec => []KeyNamesOnePeer
<1>1. ASSUME IInv, unnamed = {}, NEW c \in Controllers, KnownKey(c) # 0
      PROVE  issued[KnownKey(c)] = {c}
  <2>1. Identity(c) = c
    BY <1>1, AllNamed DEF IInv
  <2>2. KnownKey(c) = IF registry.devices[c] # 0 THEN registry.devices[c] ELSE ephemeral[c]
    BY <2>1 DEF KnownKey
  <2> QED  BY <1>1, <2>2 DEF IInv, NamesOK, Files, PeersOK
<1>2. IInv => KeyNamesOnePeer
  BY <1>1 DEF KeyNamesOnePeer
<1> QED  BY <1>2, Invariance, PTL

(***************************************************************************)
(* The registry with its slot, its channel of one message, its writer      *)
(* thread and its failing writes is a DurableStore: a flush that succeeds  *)
(* covers what was changed before it, and nothing newer is overwritten.    *)
(***************************************************************************)
THEOREM RegistryIsDurable == Spec => ImplementsDurableStore
<1>1. Init => Durable!Init
  <2> SUFFICES ASSUME Init PROVE Durable!Init
    OBVIOUS
  <2>1. registry.version = 0 /\ disk = registry
    BY DEF Init, FileOf
  <2>2. FlushAnswer = [t \in Tasks |-> "none"] /\ need = [t \in Tasks |-> 0]
    BY DEF Init, FlushAnswer
  <2> QED  BY <2>1, <2>2 DEF Durable!Init
<1>2. ASSUME IInv, [Next]_vars PROVE [Durable!Next]_(Durable!vars)
  <2>a. /\ registry.version \in Nat /\ disk.version \in Nat /\ last \in Nat
        /\ \A r \in writer.taken : r.version \in Nat
        /\ registry.version <= last /\ disk.version <= registry.version
        /\ flush \in [Tasks -> FlushState] /\ need \in [Tasks -> 0..MaxVersion]
        /\ writer.barriers \in SUBSET Tasks /\ writer.result \in {"ok", "err"}
    BY <1>2 DEF IInv, DataOK, VersionsOK, Registry, WriterState
  <2>1. ASSUME UNCHANGED <<registry, disk, need, flush>> PROVE UNCHANGED Durable!vars
    BY <2>1 DEF Durable!vars, FlushAnswer
  <2>2. CASE Uses
    <3>1. /\ NewVersion \/ UNCHANGED <<registry, last, slot>>
          /\ UNCHANGED <<disk, flush, need>>
      BY <1>2, <2>2, UsesFields DEF IInv
    <3>2. CASE NewVersion
      <4>1. registry'.version \in Nat /\ registry'.version > registry.version
        BY <2>a, <3>2 DEF NewVersion
      <4>2. Durable!Change
        BY <3>1, <4>1 DEF Durable!Change, FlushAnswer
      <4> QED  BY <4>2 DEF Durable!Next
    <3> QED  BY <2>1, <3>1, <3>2
  <2>3. CASE WriterPersists
    <3>1. disk' \in writer.taken \cup {disk} /\ UNCHANGED <<registry, need, flush>>
      BY <2>3 DEF WriterPersists, taskVars
    <3>2. /\ disk'.version \in Nat /\ disk.version <= disk'.version
          /\ disk'.version <= registry.version
      BY <1>2, <2>a, <3>1 DEF IInv, VersionsOK
    <3>3. Durable!Write
      BY <3>1, <3>2 DEF Durable!Write, FlushAnswer
    <3> QED  BY <3>3 DEF Durable!Next
  <2>4. ASSUME NEW t \in Tasks, ProvisionFlushes(t) PROVE Durable!Call(t)
    <3>1. /\ flush' = [flush EXCEPT ![t] = "sending"] /\ need' = [need EXCEPT ![t] = registry.version]
          /\ UNCHANGED <<registry, disk>> /\ flush[t] \notin {"sending", "waiting"}
      BY <1>2, <2>4 DEF ProvisionFlushes, writerVars, IInv, FlushesOK, Pending
    <3>2. FlushAnswer[t] # "pending" /\ FlushAnswer' = [FlushAnswer EXCEPT ![t] = "pending"]
      BY <2>a, <3>1 DEF FlushAnswer, FlushState
    <3> QED  BY <3>1, <3>2 DEF Durable!Call
  <2>5. CASE WriterReplies
    <3> DEFINE result == IF writer.result = "err" THEN "failed" ELSE "ok"
    <3>1. /\ writer.at = "reply" /\ UNCHANGED <<registry, disk>>
          /\ flush' = [t \in Tasks |-> IF t \notin writer.barriers THEN flush[t] ELSE result]
          /\ need' = [t \in Tasks |-> IF t \in writer.barriers THEN 0 ELSE need[t]]
      BY <2>5 DEF WriterReplies
    <3>2. \A t \in writer.barriers : FlushAnswer[t] = "pending"
      BY <1>2, <2>a DEF IInv, FlushesOK, FlushAnswer
    <3>3. result = "ok" => \A t \in writer.barriers : need[t] <= disk.version
      BY <1>2, <2>a, <3>1 DEF IInv, FlushesOK
    <3>4. FlushAnswer' = [t \in Tasks |-> IF t \in writer.barriers THEN result ELSE FlushAnswer[t]]
      BY <2>a, <3>1 DEF FlushAnswer
    <3>5. result \in {"ok", "failed"}
      OBVIOUS
    <3> HIDE DEF result
    <3>6. Durable!Reply(writer.barriers)
      BY <3>1, <3>2, <3>3, <3>4, <3>5 DEF Durable!Reply
    <3> QED  BY <2>a, <3>6 DEF Durable!Next
  <2>6. CASE Restart
    <3>1. FlushAnswer' = [t \in Tasks |-> "none"]
      BY <2>6 DEF Restart, FlushAnswer
    <3>2. Durable!Crash
      BY <2>6, <3>1 DEF Restart, Durable!Crash
    <3> QED  BY <3>2 DEF Durable!Next
  <2>7. ASSUME NEW t \in Tasks, FlushSends(t) PROVE UNCHANGED Durable!vars
    <3>1. FlushAnswer' = FlushAnswer
      BY <2>7, <2>a DEF FlushSends, FlushAnswer
    <3> QED  BY <2>7, <3>1 DEF FlushSends, Durable!vars
  <2>8. CASE \/ Wake \/ Close \/ BluezRestarts \/ UNCHANGED vars
             \/ WriterReceives \/ WriterDrains \/ WriterTakes \/ WriterEnds
             \/ \E c \in Controllers : Generate(c)
             \/ \E t \in Tasks, c \in Controllers : Provision(t, c)
             \/ \E t \in Tasks : Flushed(t) \/ StoreKey(t) \/ Abandon(t)
             \/ \E k \in Keys : Revoke(k)
    <3>1. UNCHANGED <<registry, disk, need, flush>>
      BY <2>8 DEF Wake, Close, BluezRestarts, vars, WriterReceives, WriterDrains, WriterTakes,
                  WriterEnds, Generate, Provision, Flushed, StoreKey, Abandon, Revoke,
                  writerVars, taskVars
    <3> QED  BY <2>1, <3>1
  <2> QED
    BY <1>2, <2>2, <2>3, <2>4, <2>5, <2>6, <2>7, <2>8 DEF Next, Uses, Writer, Durable!Next
<1> QED  BY <1>1, <1>2, Invariance, PTL DEF Spec, ImplementsDurableStore, Durable!Spec
=============================================================================
