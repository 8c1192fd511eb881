------------------------------ MODULE Identity ------------------------------
(***************************************************************************)
(* Opaque device keys and the credentials stored under them: the identity  *)
(* registry (src/src/identity.rs), its writer thread                       *)
(* (src/src/identity/persistence.rs), the Fast Pair account key store      *)
(* (src/src/fast_pair/keys.rs) and the provisioning that ties them         *)
(* together (provision_account_key in src/src/fast_pair.rs).               *)
(*                                                                         *)
(* Every controller has one peer.  A peer is registered under the stable   *)
(* address of its controller, or under the controller's current hciN name  *)
(* while that name has not been registered (files of older versions).      *)
(* The names change from boot to boot.                                     *)
(*                                                                         *)
(* Abstracted: batteries, icons and types of a presentation (present or    *)
(* not), the GATT exchange of provisioning, the contents of credentials.   *)
(* Adapters plugged in while a backend generation runs are not modelled.   *)
(***************************************************************************)
EXTENDS Naturals, FiniteSets

CONSTANTS
  Controllers,     \* stable adapter identities, each with one peer
  Names,           \* hciN names
  Tasks,           \* provisioning operations
  None, Changed,   \* an empty inbox or entry; Message::Changed
  EphemeralLimit,  \* EPHEMERAL_LIMIT
  MaxKeys,         \* bound on the keys generated
  MaxVersion,      \* bound on the changes of the registry
  MaxBoots         \* bound on daemon starts

ASSUME BoundsAssumption ==
  /\ EphemeralLimit \in Nat \ {0}
  /\ MaxKeys \in Nat \ {0}
  /\ MaxVersion \in Nat
  /\ MaxBoots \in Nat

ASSUME DistinctAssumption ==
  /\ Controllers # {}
  /\ Controllers \cap Names = {}
  /\ None \notin Controllers
  /\ None \notin Tasks /\ Changed \notin Tasks /\ None # Changed

VARIABLES
  names,      \* names[c]: what BlueZ calls controller c since it was started
  unnamed,    \* controllers that this backend generation has yet to register
  registry,   \* DeviceIdentityRegistry::state, the part that is persisted
  ephemeral,  \* ephemeral[i]: the key of an identity that was only seen, or 0
  waking,     \* a registry user has filled the slot and not yet sent Changed
  slot,       \* Writer::pending, the empty set or one registry
  inbox,      \* the channel to the writer, of capacity one
  closed,     \* Writer::wake has been dropped
  writer,     \* the writer thread
  disk,       \* device-identities.json
  stored,     \* the device keys with an account key, in memory and on disk
  task,       \* task[t]: provision_account_key
  flush,      \* flush[t]: its flush, on a thread that survives its caller
  need,       \* need[t]: the version that flush has to cover
  issued,     \* issued[k]: the peer that key k was generated for
  last,       \* the newest version
  boots

vars == <<names, unnamed, registry, ephemeral, waking, slot, inbox, closed,
          writer, disk, stored, task, flush, need, issued, last,
          boots>>
worldVars == <<names, unnamed, boots>>
writerVars == <<slot, inbox, closed, writer, disk>>
taskVars == <<stored, task, flush, need>>

Identities == Controllers \cup Names
Keys == 1..MaxKeys

(* RegistryFile.  The version is not in the file: it names the contents,   *)
(* the presentations of the peers included.                                *)
Registry ==
  [adapters : [Names -> Controllers \cup {None}],
   devices  : [Identities -> 0..MaxKeys],  \* 0: no entry
   version  : 0..MaxVersion]

Stage == {"idle", "pairing", "promoted", "flushing", "writing"}
FlushState == {"none", "sending", "waiting", "ok", "failed"}

Task == [stage : Stage, peer : Controllers, key : 0..MaxKeys]
WriterState ==
  [at       : {"recv", "drain", "take", "persist", "reply", "ended"},
   taken    : SUBSET Registry,  \* what is being written, if anything
   barriers : SUBSET Tasks,     \* flushes to be answered in this round
   result   : {"ok", "err"}]    \* last_error

IdleTask == [stage |-> "idle", peer |-> CHOOSE c \in Controllers : TRUE, key |-> 0]
IdleWriter == [at |-> "recv", taken |-> {}, barriers |-> {}, result |-> "ok"]

Namings == {f \in [Controllers -> Names] :
              \A c, d \in Controllers : c # d => f[c] # f[d]}

(* An empty file, or one of a version that named peers after hciN.         *)
FileOf(known) ==
  [adapters |-> [n \in Names |-> None],
   devices  |-> [i \in Identities |-> IF i \in known THEN 1 ELSE 0],
   version  |-> 0]

Init ==
  /\ names \in Namings
  /\ unnamed = Controllers
  /\ \E legacy \in {{}} \cup {{c} : c \in Controllers} :
       /\ registry = FileOf({names[c] : c \in legacy})
       /\ issued = [k \in Keys |-> IF k = 1 THEN legacy ELSE {}]
       /\ stored \in SUBSET {k \in Keys : k = 1 /\ legacy # {}}
  /\ disk = registry
  /\ ephemeral = [i \in Identities |-> 0]
  /\ waking = FALSE
  /\ slot = {}
  /\ inbox = None
  /\ closed = FALSE
  /\ writer = IdleWriter
  /\ task = [t \in Tasks |-> IdleTask]
  /\ flush = [t \in Tasks |-> "none"]
  /\ need = [t \in Tasks |-> 0]
  /\ last = 0
  /\ boots = 1

-----------------------------------------------------------------------------
(* persist: schedule fills the slot; the wake-up is sent by Wake.  The     *)
(* registry stays locked until then.                                       *)
Persist(changed) ==
  /\ last' = last + 1
  /\ registry' = [changed EXCEPT !.version = last + 1]
  /\ slot' = {registry'}
  /\ waking' = TRUE

(* A user of the registry: the lock is free, the bounds are not exhausted. *)
Locks ==
  /\ ~waking
  /\ ~closed
  /\ last < MaxVersion

(* try_send: a message that is already there will wake the writer as well. *)
Wake ==
  /\ waking
  /\ waking' = FALSE
  /\ inbox' = IF inbox = None THEN Changed ELSE inbox
  /\ UNCHANGED <<worldVars, registry, ephemeral, slot, closed, writer, disk, taskVars,
                 issued, last>>

(* Mutant: peers are told apart by the current name of their controller.   *)
IdentityByName(c) == names[c]

(* device_identity                                                         *)
Identity(c) ==
  IF registry.adapters[names[c]] # None
    THEN registry.adapters[names[c]] ELSE names[c]

(* register_adapter and migrate_legacy_devices.                            *)
Registered(c) ==
  LET n == names[c]
      first == registry.adapters[n] = None
  IN  [registry EXCEPT
         !.adapters = [@ EXCEPT ![n] = c],
         !.devices = [i \in Identities |->
            CASE first /\ i = n -> 0
              [] first /\ i = c /\ registry.devices[c] = 0 -> registry.devices[n]
              [] OTHER -> registry.devices[i]]]

(* BluezBackend::with_state, one adapter of the loop.                      *)
Register(c) ==
  /\ Locks
  /\ c \in unnamed
  /\ unnamed' = unnamed \ {c}
  /\ IF registry.adapters[names[c]] = c
       THEN UNCHANGED <<registry, slot, waking, last>>
       ELSE Persist(Registered(c))
  /\ UNCHANGED <<names, boots, ephemeral, inbox, closed, writer, disk, taskVars, issued>>

(* device_key: the durable key, the remembered one, or a new one, which    *)
(* may push out keys of the last five minutes.                             *)
KnownKey(c) ==
  LET i == Identity(c)
  IN  IF registry.devices[i] # 0 THEN registry.devices[i] ELSE ephemeral[i]

Remembered == {i \in Identities : ephemeral[i] # 0}

NewKey(c, k) ==
  /\ issued[k] = {}
  /\ \A j \in Keys : j < k => issued[j] # {}
  /\ issued' = [issued EXCEPT ![k] = {c}]

Generate(c) ==
  /\ ~waking
  /\ ~closed
  /\ unnamed = {}
  /\ KnownKey(c) = 0
  /\ \E k \in Keys, recent \in SUBSET Remembered :
       /\ NewKey(c, k)
       /\ \E kept \in SUBSET recent :
            /\ Cardinality(recent) < EphemeralLimit => kept = recent
            /\ Cardinality(recent) >= EphemeralLimit =>
                 Cardinality(kept) = Cardinality(recent) - 1
            /\ ephemeral' = [i \in Identities |->
                 IF i = Identity(c) THEN k ELSE IF i \in kept THEN ephemeral[i] ELSE 0]
  /\ UNCHANGED <<worldVars, registry, waking, writerVars, taskVars, last>>

(* promote_device, for a peer whose key is known: move it to the file.     *)
Promoted(c) ==
  LET i == Identity(c)
  IN  IF registry.devices[i] # 0
        THEN UNCHANGED <<registry, ephemeral, slot, waking, last>>
        ELSE /\ ephemeral' = [ephemeral EXCEPT ![i] = 0]
             /\ Persist([registry EXCEPT !.devices = [@ EXCEPT ![i] = ephemeral[i]]])

(* device_snapshot of a paired peer.                                       *)
Snapshot(c) ==
  /\ Locks
  /\ unnamed = {}
  /\ KnownKey(c) # 0
  /\ registry.devices[Identity(c)] = 0
  /\ Promoted(c)
  /\ UNCHANGED <<worldVars, inbox, closed, writer, disk, taskVars, issued>>

(* remember_presentation and forget_presentation, when they change it.     *)
Present ==
  /\ Locks
  /\ unnamed = {}
  /\ Persist(registry)
  /\ UNCHANGED <<worldVars, ephemeral, inbox, closed, writer, disk, taskVars, issued>>

-----------------------------------------------------------------------------
(* run_writer: messages.recv.                                              *)
WriterReceives ==
  /\ writer.at = "recv"
  /\ inbox # None
  /\ inbox' = None
  /\ writer' = [writer EXCEPT !.at = "drain", !.barriers = {inbox} \ {Changed}]
  /\ UNCHANGED <<worldVars, registry, ephemeral, waking, slot, closed, disk, taskVars,
                 issued, last>>

(* collect_barriers: what arrived while the writer slept off a burst.      *)
WriterDrains ==
  /\ writer.at = "drain"
  /\ IF inbox = None
       THEN /\ writer' = [writer EXCEPT !.at = "take"]
            /\ UNCHANGED inbox
       ELSE /\ writer' = [writer EXCEPT !.barriers = @ \cup ({inbox} \ {Changed})]
            /\ inbox' = None
  /\ UNCHANGED <<worldVars, registry, ephemeral, waking, slot, closed, disk, taskVars,
                 issued, last>>

(* Mutant: an error lasts only for the flushes of the round it happened in.*)
WriterTakesForgets ==
  /\ writer.at = "take"
  /\ writer' = [writer EXCEPT !.at = IF slot = {} THEN "reply" ELSE "persist", !.taken = slot,
                              !.result = "ok"]
  /\ slot' = {}
  /\ UNCHANGED <<worldVars, registry, ephemeral, waking, inbox, closed, disk, taskVars,
                 issued, last>>

(* The latest value, if there is one that no round has taken yet.          *)
WriterTakes ==
  /\ writer.at = "take"
  /\ writer' = [writer EXCEPT !.at = IF slot = {} THEN "reply" ELSE "persist", !.taken = slot]
  /\ slot' = {}
  /\ UNCHANGED <<worldVars, registry, ephemeral, waking, inbox, closed, disk, taskVars,
                 issued, last>>

(* write_json replaces the file in one step.  A failure is of unknown      *)
(* extent: the file is the old one or, when only the last sync failed, the *)
(* new one.                                                                *)
WriterPersists ==
  /\ writer.at = "persist"
  /\ \E result \in {"ok", "err"} :
       /\ writer' = [writer EXCEPT !.at = "reply", !.taken = {}, !.result = result]
       /\ disk' \in writer.taken \cup (IF result = "err" THEN {disk} ELSE {})
  /\ UNCHANGED <<worldVars, registry, ephemeral, waking, slot, inbox, closed, taskVars,
                 issued, last>>

(* Mutant: the writer discards the wake-ups that came while it wrote.      *)
WriterRepliesDrains ==
  /\ writer.at = "reply"
  /\ writer' = [writer EXCEPT !.at = "recv", !.barriers = {}]
  /\ inbox' = IF inbox = Changed THEN None ELSE inbox
  /\ flush' = [t \in Tasks |-> IF t \notin writer.barriers THEN flush[t]
                               ELSE IF writer.result = "err" THEN "failed" ELSE "ok"]
  /\ need' = [t \in Tasks |-> IF t \in writer.barriers THEN 0 ELSE need[t]]
  /\ UNCHANGED <<worldVars, registry, ephemeral, waking, slot, closed, disk,
                 stored, task, issued, last>>

(* Every barrier of the round gets the last result, a failure of an        *)
(* earlier round included.                                                 *)
WriterReplies ==
  /\ writer.at = "reply"
  /\ writer' = [writer EXCEPT !.at = "recv", !.barriers = {}]
  /\ flush' = [t \in Tasks |-> IF t \notin writer.barriers THEN flush[t]
                               ELSE IF writer.result = "err" THEN "failed" ELSE "ok"]
  /\ need' = [t \in Tasks |-> IF t \in writer.barriers THEN 0 ELSE need[t]]
  /\ UNCHANGED <<worldVars, registry, ephemeral, waking, slot, inbox, closed, disk,
                 stored, task, issued, last>>

(* The channel is closed and empty.                                        *)
WriterEnds ==
  /\ writer.at = "recv"
  /\ inbox = None
  /\ closed
  /\ writer' = [writer EXCEPT !.at = "ended"]
  /\ UNCHANGED <<worldVars, registry, ephemeral, waking, slot, inbox, closed, disk, taskVars,
                 issued, last>>

Writer ==
  \/ WriterReceives \/ WriterDrains \/ WriterTakes \/ WriterPersists
  \/ WriterReplies \/ WriterEnds

(* Writer::drop; the registry has no user left.                            *)
Close ==
  /\ ~waking
  /\ ~closed
  /\ unnamed = {}
  /\ \A t \in Tasks : task[t].stage = "idle" /\ flush[t] \notin {"sending", "waiting"}
  /\ closed' = TRUE
  /\ UNCHANGED <<worldVars, registry, ephemeral, waking, slot, inbox, writer, disk, taskVars,
                 issued, last>>

-----------------------------------------------------------------------------
(* provision_account_key: paired, no account key yet, key pairing starts.  *)
Provision(t, c) ==
  /\ ~waking
  /\ ~closed
  /\ unnamed = {}
  /\ task[t].stage = "idle"
  /\ flush[t] \notin {"sending", "waiting"}
  /\ KnownKey(c) # 0
  /\ KnownKey(c) \notin stored
  /\ task' = [task EXCEPT ![t] = [IdleTask EXCEPT !.stage = "pairing", !.peer = c]]
  /\ UNCHANGED <<worldVars, registry, ephemeral, waking, writerVars, stored, flush, need,
                 issued, last>>

(* promote_device.  The key may have been evicted since it was looked up:  *)
(* then it is preceded by Generate, in the same call.                      *)
ProvisionPromotes(t) ==
  /\ Locks
  /\ task[t].stage = "pairing"
  /\ KnownKey(task[t].peer) # 0
  /\ Promoted(task[t].peer)
  /\ task' = [task EXCEPT ![t].stage = "promoted", ![t].key = KnownKey(task[t].peer)]
  /\ UNCHANGED <<worldVars, inbox, closed, writer, disk, stored, flush, need, issued>>

(* Mutant: the account key is written without waiting for the registry.    *)
ProvisionSkipsFlush(t) ==
  /\ task[t].stage = "promoted"
  /\ task' = [task EXCEPT ![t].stage = "writing"]
  /\ UNCHANGED <<worldVars, registry, ephemeral, waking, writerVars, stored, flush, need, issued,
                 last>>

(* flush is called on a blocking thread, which sends when there is room.   *)
ProvisionFlushes(t) ==
  /\ task[t].stage = "promoted"
  /\ task' = [task EXCEPT ![t].stage = "flushing"]
  /\ flush' = [flush EXCEPT ![t] = "sending"]
  /\ need' = [need EXCEPT ![t] = registry.version]
  /\ UNCHANGED <<worldVars, registry, ephemeral, waking, writerVars, stored, issued, last>>

FlushSends(t) ==
  /\ flush[t] = "sending"
  /\ inbox = None
  /\ inbox' = t
  /\ flush' = [flush EXCEPT ![t] = "waiting"]
  /\ UNCHANGED <<worldVars, registry, ephemeral, waking, slot, closed, writer, disk,
                 stored, task, need, issued, last>>

Flushed(t) ==
  /\ task[t].stage = "flushing"
  /\ flush[t] \in {"ok", "failed"}
  /\ task' = [task EXCEPT ![t] = IF flush[t] = "ok" THEN [@ EXCEPT !.stage = "writing"]
                                                   ELSE IdleTask]
  /\ UNCHANGED <<worldVars, registry, ephemeral, waking, writerVars, stored, flush, need, issued,
                 last>>

(* AccountKeyStore::insert persists before it commits, or does neither.    *)
StoreKey(t) ==
  /\ task[t].stage = "writing"
  /\ task' = [task EXCEPT ![t] = IdleTask]
  /\ stored' \in {stored, stored \cup {task[t].key}}
  /\ UNCHANGED <<worldVars, registry, ephemeral, waking, writerVars, flush, need, issued,
                 last>>

(* The operation fails or is cancelled; a flush already called goes on.    *)
Abandon(t) ==
  /\ task[t].stage # "idle"
  /\ task' = [task EXCEPT ![t] = IdleTask]
  /\ UNCHANGED <<worldVars, registry, ephemeral, waking, writerVars, stored, flush, need, issued,
                 last>>

(* forget_account_key, on removal of the device.                           *)
Revoke(k) ==
  /\ k \in stored
  /\ ~closed
  /\ stored' = stored \ {k}
  /\ UNCHANGED <<worldVars, registry, ephemeral, waking, writerVars, task, flush, need, issued,
                 last>>

-----------------------------------------------------------------------------
(* Controllers are renumbered, except that a file of an older version is    *)
(* read, and its migration written, under the names it was made with.      *)
Renumber ==
  names' \in IF \E n \in Names : registry.devices[n] # 0 \/ disk.devices[n] # 0
              THEN {names} ELSE Namings

(* BlueZ restarts: a new backend generation registers its adapters again.  *)
BluezRestarts ==
  /\ ~waking
  /\ ~closed
  /\ boots < MaxBoots
  /\ boots' = boots + 1
  /\ Renumber
  /\ unnamed' = Controllers
  /\ task' = [t \in Tasks |-> IdleTask]
  /\ UNCHANGED <<registry, ephemeral, waking, writerVars, stored, flush, need, issued,
                 last>>

(* The daemon dies, at any moment, or has stopped; the next one loads what *)
(* is on the disk.                                                         *)
Restart ==
  /\ boots < MaxBoots
  /\ boots' = boots + 1
  /\ Renumber
  /\ unnamed' = Controllers
  /\ registry' = disk
  /\ ephemeral' = [i \in Identities |-> 0]
  /\ waking' = FALSE
  /\ slot' = {}
  /\ inbox' = None
  /\ closed' = FALSE
  /\ writer' = IdleWriter
  /\ task' = [t \in Tasks |-> IdleTask]
  /\ flush' = [t \in Tasks |-> "none"]
  /\ need' = [t \in Tasks |-> 0]
  /\ UNCHANGED <<disk, stored, issued, last>>

Next ==
  \/ Wake
  \/ \E c \in Controllers : Register(c)
  \/ \E c \in Controllers : Generate(c)
  \/ \E c \in Controllers : Snapshot(c)
  \/ Present
  \/ Writer
  \/ Close
  \/ \E t \in Tasks, c \in Controllers : Provision(t, c)
  \/ \E t \in Tasks : ProvisionPromotes(t)
  \/ \E t \in Tasks : ProvisionFlushes(t)
  \/ \E t \in Tasks : FlushSends(t)
  \/ \E t \in Tasks : Flushed(t)
  \/ \E t \in Tasks : StoreKey(t)
  \/ \E t \in Tasks : Abandon(t)
  \/ \E k \in Keys : Revoke(k)
  \/ BluezRestarts
  \/ Restart

(* The writer thread runs, and a caller that holds the lock goes on.       *)
Fairness == WF_vars(Writer) /\ WF_vars(Wake)

Spec == Init /\ [][Next]_vars

FairSpec == Spec /\ Fairness

-----------------------------------------------------------------------------
TypeOK ==
  /\ names \in Namings
  /\ unnamed \in SUBSET Controllers
  /\ registry \in Registry
  /\ ephemeral \in [Identities -> 0..MaxKeys]
  /\ waking \in BOOLEAN
  /\ slot \in SUBSET Registry
  /\ inbox \in Tasks \cup {None, Changed}
  /\ closed \in BOOLEAN
  /\ writer \in WriterState
  /\ disk \in Registry
  /\ stored \in SUBSET Keys
  /\ task \in [Tasks -> Task]
  /\ flush \in [Tasks -> FlushState]
  /\ need \in [Tasks -> 0..MaxVersion]
  /\ issued \in [Keys -> SUBSET Controllers]
  /\ last \in 0..MaxVersion

(***************************************************************************)
(* Every stored account key can be found again: whatever is lost in a      *)
(* crash, the registry file maps an identity to the key it is stored under.*)
(* This is what provision_account_key flushes for, and it rests on the     *)
(* writer's answers also when the file could not be written.               *)
(***************************************************************************)
CredentialsNamed ==
  \A k \in stored : \E i \in Identities : disk.devices[i] = k

(***************************************************************************)
(* A key never comes to name another peer, whichever hciN names the        *)
(* controllers get after a restart of BlueZ, the daemon or the machine.    *)
(***************************************************************************)
KeyNamesOnePeer ==
  unnamed = {} =>
    \A c \in Controllers : KnownKey(c) # 0 => issued[KnownKey(c)] = {c}

(***************************************************************************)
(* A change is not left in the slot for ever: it is written, or a write    *)
(* has failed and flush says so; also when the daemon stops just after it  *)
(* was made.                                                               *)
(***************************************************************************)
ChangeReachesDisk ==
  (disk.version < registry.version) ~>
    (disk.version = registry.version \/ writer.result = "err")

(* What a caller of flush sees of it.                                      *)
FlushAnswer ==
  [t \in Tasks |-> IF flush[t] \in {"sending", "waiting"} THEN "pending" ELSE flush[t]]

Durable == INSTANCE DurableStore WITH
  Callers <- Tasks,
  current <- registry.version,
  durable <- disk.version,
  need    <- need,
  answer  <- FlushAnswer

(***************************************************************************)
(* The registry with its writer is a DurableStore: in particular a flush   *)
(* that reports success covers every change made before it was called.     *)
(***************************************************************************)
ImplementsDurableStore == Durable!Spec
=============================================================================
