----------------------------- MODULE PeerProofs -----------------------------
(***************************************************************************)
(* Theorems about connections to a peer: the message streams of Fast Pair  *)
(* (FastPairLinks) and the changes of its audio (Audio).                   *)
(***************************************************************************)
EXTENDS FastPairLinks, Audio, FiniteSetTheorems, TLAPS

-----------------------------------------------------------------------------
(***************************************************************************)
(* Fast Pair.  For any number of attempts, streams and commands: a link    *)
(* has one owner, and the pending slot belongs to the command that waits.  *)
(***************************************************************************)

(***************************************************************************)
(* A connected link has one stream that owns it, and no other link has.    *)
(***************************************************************************)
OwnersOK ==
  /\ \A r, s \in Readers : readers[r] \in Owning /\ readers[s] \in Owning => r = s
  /\ link.kind = "connected" <=> \E r \in Readers : readers[r] \in Owning
  /\ writer # 0 => writer \in Readers /\ readers[writer] \in Owning

(* What a stream has reported is cleared before it is gone.                *)
ReportsOK ==
  \A r \in Readers :
    /\ readers[r] \in {"absent", "forgotten"} => r \notin runtime
    /\ readers[r] = "absent" => report # r

(* The values of the maps that are kept by address.                        *)
LinkStates ==
  [kind : {"none", "connecting", "connected"}, attempt : 0 .. MaxAttempts, stale : BOOLEAN]
RetryStates ==
  [waiting : BOOLEAN, busy : 0 .. QuickRetries, psm : 0 .. UnknownLimit]
ConnectStates == {"absent", "rfcomm", "l2cap", "refused"}

(* The life of a stream's reader.                                          *)
ReaderStates ==
  {"absent", "spawned", "wired", "running", "closed", "released", "drained", "forgotten"}

(* The parts of TypeOK.                                                    *)
PeerTypes ==
  /\ peer \in BOOLEAN /\ notices \in Seq(BOOLEAN)
  /\ recon \in {"idle", "connected", "gone", "unreported"}
LinkTypes ==
  /\ link \in LinkStates
  /\ retry \in RetryStates
  /\ connects \in [Attempts -> ConnectStates]
StreamTypes ==
  /\ readers \in [Readers -> ReaderStates]
  /\ handler \in 0 .. MaxReaders /\ writer \in 0 .. MaxReaders
  /\ runtime \subseteq Readers /\ report \in 0 .. MaxReaders
CommandTypes ==
  /\ slot \in 0 .. MaxCommands
  /\ commands \in [Commands -> {"absent", "ready", "held", "settled"}]

(* TypeOK is the conjunction of its parts.                                 *)
LEMMA TypeParts == TypeOK <=> PeerTypes /\ LinkTypes /\ StreamTypes /\ CommandTypes
BY DEF TypeOK, PeerTypes, LinkTypes, StreamTypes, CommandTypes, LinkStates, RetryStates,
       ConnectStates, ReaderStates

(* The values that the code assigns.                                       *)
LEMMA LinkValues ==
  /\ NoLink \in LinkStates /\ Connected \in LinkStates /\ NoRetry \in RetryStates
  /\ \A a \in Attempts : Connecting(a) \in LinkStates
  /\ \A r \in RetryStates : Failed(r) \in RetryStates
<1> USE FastPairBounds
<1>1. NoLink \in LinkStates /\ Connected \in LinkStates
  BY DEF NoLink, Connected, LinkStates
<1>2. NoRetry \in RetryStates
  BY DEF NoRetry, RetryStates
<1>3. \A a \in Attempts : Connecting(a) \in LinkStates
  BY DEF Connecting, LinkStates, Attempts
<1>4. \A r \in RetryStates : Failed(r) \in RetryStates
  BY DEF Failed, RetryStates
<1> QED  BY <1>1, <1>2, <1>3, <1>4

(* Each part is kept by every step.                                        *)
LEMMA KeepsPeerTypes ==
  ASSUME PeerTypes, [Next]_vars
  PROVE  PeerTypes'
<1>1. CASE PeerChanges
  <2> DEFINE p == ~peer
  <2>1. p \in BOOLEAN
    OBVIOUS
  <2>2. peer' = p /\ notices' = Append(notices, p) /\ recon' = recon
    BY <1>1 DEF PeerChanges
  <2> HIDE DEF p
  <2>3. notices' \in Seq(BOOLEAN)
    BY <2>1, <2>2 DEF PeerTypes
  <2> QED  BY <2>1, <2>2, <2>3, Zenon DEF PeerTypes
<1>2. CASE Notice
  <2>1. notices' \in Seq(BOOLEAN)
    BY <1>2 DEF Notice, PeerTypes
  <2> QED  BY <1>2, <2>1, Zenon DEF Notice, PeerTypes
<1>3. CASE \/ ReconcileReads \/ ReconcileGone \/ ReconcileForgets
            \/ ReconcileSkips \/ ReconcileBegins
  BY <1>3, Zenon DEF PeerTypes, ReconcileReads, ReconcileGone, ReconcileForgets, ReconcileSkips,
       ReconcileBegins, peerVars
<1>4. CASE UNCHANGED <<peer, notices, recon>>
  BY <1>4, Zenon DEF PeerTypes
<1>5. CASE DeadlinePasses \/ AttemptGrowsStale \/ StreamArrives \/ UNCHANGED vars
  BY <1>5, <1>4, Zenon DEF DeadlinePasses, AttemptGrowsStale, StreamArrives, peerVars, vars
<1>6. CASE Connects
  BY <1>6, <1>4, Zenon DEF Connects, ProfileConnected, L2capConnected, PsmRefused, ConnectFails, peerVars
<1>7. CASE Streams
  BY <1>7, <1>4, Zenon DEF Streams, InstallWriter, InstallRuntime, FrameApplied, Acknowledged,
       StreamCloses, Release, DisconnectCommands, RemoveRuntime, RemoveReport, peerVars
<1>8. CASE \E c \in Commands : ReadRuntime(c) \/ Reserve(c) \/ GivesUp(c) \/ CommandReturns(c)
  BY <1>8, <1>4, Zenon DEF ReadRuntime, Reserve, GivesUp, CommandReturns, peerVars
<1> QED  BY <1>1, <1>2, <1>3, <1>5, <1>6, <1>7, <1>8 DEF Next, Reconciler

(* The link, the retry budget and the attempts to connect.                 *)
LEMMA KeepsLinkTypes ==
  ASSUME LinkTypes, [Next]_vars
  PROVE  LinkTypes'
<1> USE FastPairBounds
<1>1. CASE UNCHANGED <<link, retry, connects>>
  BY <1>1 DEF LinkTypes
<1>2. CASE DeadlinePasses \/ AttemptGrowsStale
  BY <1>2 DEF LinkTypes, DeadlinePasses, AttemptGrowsStale, LinkStates, RetryStates
<1>3. ASSUME NEW b, note_connection_change(b), UNCHANGED connects PROVE LinkTypes'
  BY <1>3, LinkValues DEF LinkTypes, note_connection_change
<1>4. CASE ReconcileBegins
  <2>1. PICK t \in Transports : begin(t)
    BY <1>4 DEF ReconcileBegins
  <2>2. CASE Expired /\ link' = NoLink /\ retry' = Failed(retry) /\ UNCHANGED connects
    BY <2>2, LinkValues DEF LinkTypes
  <2>3. CASE \E a \in Attempts : /\ link' = Connecting(a)
                                 /\ connects' = [connects EXCEPT ![a] = t]
                                 /\ UNCHANGED retry
    BY <2>3, LinkValues DEF LinkTypes, Transports, ConnectStates
  <2> QED  BY <2>1, <2>2, <2>3, <1>1 DEF begin, linkVars
<1>5. mark_connected => link' \in LinkStates /\ retry' \in RetryStates
  BY LinkValues DEF LinkTypes, mark_connected, RetryStates
<1>6. CASE StreamArrives
  BY <1>6, <1>5 DEF LinkTypes, StreamArrives
<1>7. ASSUME NEW a \in Attempts, ProfileConnected(a) \/ L2capConnected(a)
      PROVE  LinkTypes'
  BY <1>7, <1>5 DEF LinkTypes, ProfileConnected, L2capConnected, ConnectStates
<1>8. ASSUME NEW a \in Attempts, PsmRefused(a)
      PROVE  LinkTypes'
  <2>1. retry \in RetryStates /\ retry.psm \in 0 .. UnknownLimit
    BY DEF LinkTypes, RetryStates
  <2>2. ASSUME NEW n \in 0 .. UnknownLimit, retry' = [retry EXCEPT !.psm = n]
        PROVE  retry' \in RetryStates
    BY <2>1, <2>2 DEF RetryStates
  <2>3. UnknownLimit \in 0 .. UnknownLimit
    OBVIOUS
  <2>4. (IF retry.psm < UnknownLimit THEN retry.psm + 1 ELSE retry.psm) \in 0 .. UnknownLimit
    BY <2>1
  <2>5. retry' \in RetryStates
    BY <1>8, <2>2, <2>3, <2>4 DEF PsmRefused
  <2> QED  BY <1>8, <2>5 DEF LinkTypes, PsmRefused, ConnectStates
<1>9. ASSUME NEW a \in Attempts, ConnectFails(a)
      PROVE  LinkTypes'
  <2>1. PICK busy \in BOOLEAN : IF is_current_attempt(a)
                                  THEN link' = NoLink /\ connection_failed(busy)
                                  ELSE UNCHANGED <<link, retry>>
    BY <1>9 DEF ConnectFails
  <2>2. ASSUME connection_failed(busy) PROVE retry' \in RetryStates
    <3>1. retry \in RetryStates /\ retry.busy \in 0 .. QuickRetries
      BY DEF LinkTypes, RetryStates
    <3>2. CASE retry' = Failed(retry)
      BY <3>1, <3>2, LinkValues
    <3>3. CASE retry.busy < QuickRetries /\ retry' = [retry EXCEPT !.waiting = TRUE, !.busy = @ + 1]
      <4> DEFINE n == retry.busy + 1
      <4>1. n \in 0 .. QuickRetries
        BY <3>1, <3>3
      <4>2. retry' = [retry EXCEPT !.waiting = TRUE, !.busy = n]
        BY <3>3
      <4> HIDE DEF n
      <4> QED  BY <3>1, <4>1, <4>2 DEF RetryStates
    <3> QED  BY <2>2, <3>2, <3>3 DEF connection_failed
  <2>3. link' \in LinkStates /\ retry' \in RetryStates
    BY <2>1, <2>2, LinkValues DEF LinkTypes
  <2> QED  BY <1>9, <2>3 DEF LinkTypes, ConnectFails, ConnectStates
<1>10. ASSUME NEW r \in Readers, Release(r)
       PROVE  LinkTypes'
  <2>1. link' = NoLink /\ retry' \in {Failed(NoRetry), Failed(retry)} /\ UNCHANGED connects
    BY <1>10 DEF Release
  <2> QED  BY <2>1, LinkValues DEF LinkTypes
<1>11. CASE PeerChanges \/ ReconcileReads \/ ReconcileGone \/ ReconcileSkips \/ UNCHANGED vars
            \/ \E c \in Commands : ReadRuntime(c) \/ Reserve(c) \/ GivesUp(c) \/ CommandReturns(c)
  BY <1>11, <1>1 DEF PeerChanges, ReconcileReads, ReconcileGone, ReconcileSkips, vars,
       ReadRuntime, Reserve, GivesUp, CommandReturns, linkVars
<1>12. CASE Streams
  <2> SUFFICES ASSUME NEW r \in Readers,
                      \/ InstallWriter(r) \/ InstallRuntime(r) \/ FrameApplied(r) \/ Acknowledged(r)
                      \/ StreamCloses(r) \/ DisconnectCommands(r)
                      \/ RemoveRuntime(r) \/ RemoveReport(r)
               PROVE  LinkTypes'
    BY <1>12, <1>10 DEF Streams
  <2> QED  BY <1>1 DEF InstallWriter, InstallRuntime, FrameApplied, Acknowledged,
             StreamCloses, DisconnectCommands, RemoveRuntime, RemoveReport, linkVars
<1> QED  BY <1>2, <1>3, <1>4, <1>6, <1>7, <1>8, <1>9, <1>11, <1>12
         DEF Next, Reconciler, Connects, Notice, ReconcileForgets

(* The streams and what they report.                                       *)
LEMMA KeepsStreamTypes ==
  ASSUME StreamTypes, [Next]_vars
  PROVE  StreamTypes'
<1> USE FastPairBounds DEF Readers
<1>1. CASE UNCHANGED streamVars
  BY <1>1 DEF StreamTypes, streamVars
<1>2. CASE ReconcileGone
  BY <1>2 DEF StreamTypes, ReconcileGone
<1>3. CASE StreamArrives
  BY <1>3 DEF StreamTypes, StreamArrives, ReaderStates
<1>4. ASSUME NEW a \in Attempts, L2capConnected(a) PROVE StreamTypes'
  BY <1>4 DEF StreamTypes, L2capConnected, ReaderStates
<1>5. ASSUME NEW r \in Readers, NEW to \in ReaderStates,
             readers' = [readers EXCEPT ![r] = to],
             handler' \in {0, handler}, writer' \in {0, r, writer},
             runtime' \in {{}, runtime, runtime \cup {r}}, report' \in {0, report}
      PROVE  StreamTypes'
  <2>1. readers' \in [Readers -> ReaderStates]
    BY <1>5 DEF StreamTypes
  <2>2. handler' \in 0 .. MaxReaders /\ writer' \in 0 .. MaxReaders /\ report' \in 0 .. MaxReaders
    BY <1>5 DEF StreamTypes
  <2>3. runtime' \subseteq Readers
    BY <1>5 DEF StreamTypes
  <2> QED  BY <2>1, <2>2, <2>3 DEF StreamTypes
<1>6. ASSUME NEW r \in Readers, FrameApplied(r) PROVE StreamTypes'
  <2>1. UNCHANGED <<readers, handler, writer>> /\ runtime' \in {runtime, runtime \cup {r}}
        /\ report' \in {r, report}
    BY <1>6 DEF FrameApplied, update_runtime, update_report
  <2> QED  BY <2>1 DEF StreamTypes
<1>7. ASSUME NEW r \in Readers,
             InstallWriter(r) \/ InstallRuntime(r) \/ StreamCloses(r) \/ Release(r)
      PROVE  StreamTypes'
  BY <1>7, <1>5 DEF InstallWriter, InstallRuntime, StreamCloses, Release, Step, ReaderStates
<1>8. ASSUME NEW r \in Readers, DisconnectCommands(r) \/ RemoveRuntime(r) \/ RemoveReport(r)
      PROVE  StreamTypes'
  BY <1>8, <1>5 DEF DisconnectCommands, RemoveRuntime, RemoveReport, Step, ReaderStates
<1>9. ASSUME NEW r \in Readers, Acknowledged(r) PROVE StreamTypes'
  BY <1>9, <1>1 DEF Acknowledged
<1>10. CASE PeerChanges \/ DeadlinePasses \/ AttemptGrowsStale \/ Notice \/ ReconcileReads
            \/ ReconcileForgets \/ ReconcileSkips \/ ReconcileBegins \/ UNCHANGED vars
            \/ \E c \in Commands : ReadRuntime(c) \/ Reserve(c) \/ GivesUp(c) \/ CommandReturns(c)
  BY <1>10, <1>1 DEF PeerChanges, DeadlinePasses, AttemptGrowsStale, Notice, ReconcileReads,
       ReconcileForgets, ReconcileSkips, ReconcileBegins, vars, streamVars,
       ReadRuntime, Reserve, GivesUp, CommandReturns
<1>11. ASSUME NEW a \in Attempts, ProfileConnected(a) \/ PsmRefused(a) \/ ConnectFails(a)
       PROVE  StreamTypes'
  BY <1>11, <1>1 DEF ProfileConnected, PsmRefused, ConnectFails
<1> HIDE DEF Readers
<1> QED  BY <1>2, <1>3, <1>4, <1>5, <1>6, <1>7, <1>8, <1>9, <1>10, <1>11
         DEF Next, Reconciler, Connects, Streams

(* The key's slot and the commands change together.                        *)
LEMMA KeepsCommands ==
  ASSUME CommandTypes, SlotMatchesCommand, [Next]_vars
  PROVE  CommandTypes' /\ SlotMatchesCommand'
<1> USE FastPairBounds DEF Commands
<1>1. CASE UNCHANGED commandVars
  BY <1>1 DEF CommandTypes, SlotMatchesCommand, commandVars
<1>2. ASSUME NEW r \in Readers, Acknowledged(r) PROVE CommandTypes' /\ SlotMatchesCommand'
  BY <1>2 DEF CommandTypes, SlotMatchesCommand, Acknowledged
<1>3. ASSUME NEW r \in Readers, DisconnectCommands(r)
      PROVE  CommandTypes' /\ SlotMatchesCommand'
  BY <1>3 DEF CommandTypes, SlotMatchesCommand, DisconnectCommands
<1>4. ASSUME NEW c \in Commands, ReadRuntime(c) \/ Reserve(c) \/ GivesUp(c)
      PROVE  CommandTypes' /\ SlotMatchesCommand'
  BY <1>4 DEF CommandTypes, SlotMatchesCommand, ReadRuntime, Reserve, GivesUp, Free
<1>5. ASSUME NEW c \in Commands, CommandReturns(c) PROVE CommandTypes' /\ SlotMatchesCommand'
  BY <1>5 DEF CommandTypes, SlotMatchesCommand, CommandReturns, Drop
<1>6. CASE PeerChanges \/ DeadlinePasses \/ AttemptGrowsStale \/ Notice \/ ReconcileReads
            \/ ReconcileGone \/ ReconcileForgets \/ ReconcileSkips \/ ReconcileBegins
            \/ StreamArrives \/ UNCHANGED vars
  BY <1>6, <1>1 DEF PeerChanges, DeadlinePasses, AttemptGrowsStale, Notice, ReconcileReads,
       ReconcileGone, ReconcileForgets, ReconcileSkips, ReconcileBegins, StreamArrives, vars, commandVars
<1>7. CASE Connects
  BY <1>7, <1>1 DEF Connects, ProfileConnected, L2capConnected, PsmRefused, ConnectFails
<1>8. ASSUME NEW r \in Readers,
             \/ InstallWriter(r) \/ InstallRuntime(r) \/ FrameApplied(r) \/ StreamCloses(r)
             \/ Release(r) \/ RemoveRuntime(r) \/ RemoveReport(r)
      PROVE  CommandTypes' /\ SlotMatchesCommand'
  BY <1>8, <1>1 DEF InstallWriter, InstallRuntime, FrameApplied, StreamCloses, Release,
       RemoveRuntime, RemoveReport
<1> HIDE DEF Commands
<1> QED  BY <1>2, <1>3, <1>4, <1>5, <1>6, <1>7, <1>8 DEF Next, Reconciler, Streams

(* A link leaves "connected" in the owner's release only, and becomes it   *)
(* together with a new owner.                                              *)
LEMMA KeepsOwners ==
  ASSUME LinkTypes, StreamTypes, OwnersOK, [Next]_vars
  PROVE  OwnersOK'
<1> USE FastPairBounds DEF Readers
<1>1. CASE UNCHANGED <<link, readers, writer>>
  BY <1>1 DEF OwnersOK
<1>2. ASSUME link.kind # "connected" <=> link'.kind # "connected", UNCHANGED <<readers, writer>>
      PROVE  OwnersOK'
  BY <1>2 DEF OwnersOK
<1>3. CASE AttemptGrowsStale \/ Notice \/ ReconcileForgets \/ ReconcileBegins
  <2>1. ASSUME AttemptGrowsStale
        PROVE  link.kind # "connected" <=> link'.kind # "connected"
    BY <2>1 DEF AttemptGrowsStale, LinkTypes, LinkStates
  <2>2. ASSUME NEW b, note_connection_change(b)
        PROVE  link.kind # "connected" <=> link'.kind # "connected"
    <3>1. link' = link \/ (link.kind = "connecting" /\ link' = NoLink)
      BY <2>2, Zenon DEF note_connection_change
    <3> QED  BY <3>1 DEF NoLink
  <2>3. ASSUME ReconcileBegins
        PROVE  link.kind # "connected" <=> link'.kind # "connected"
    BY <2>3 DEF ReconcileBegins, begin, Expired, CanBegin, NoLink, Connecting, linkVars
  <2>4. link.kind # "connected" <=> link'.kind # "connected"
    BY <1>3, <2>1, <2>2, <2>3 DEF Notice, ReconcileForgets
  <2> QED  BY <2>4, <1>2, <1>3 DEF AttemptGrowsStale, Notice, ReconcileForgets, ReconcileBegins, streamVars
<1>4. ASSUME NEW a \in Attempts, ConnectFails(a) PROVE OwnersOK'
  <2>1. link.kind # "connected" <=> link'.kind # "connected"
    BY <1>4 DEF ConnectFails, is_current_attempt, NoLink
  <2> QED  BY <2>1, <1>2, <1>4 DEF ConnectFails, streamVars
<1>5. ASSUME link.kind # "connected", link' = Connected, UNCHANGED writer,
             NEW r \in Readers, NEW s \in {"spawned", "closed"},
             readers[r] = "absent", readers' = [readers EXCEPT ![r] = s]
      PROVE  OwnersOK'
  <2>1. \A q \in Readers : readers[q] \notin Owning
    BY <1>5 DEF OwnersOK
  <2>2. link'.kind = "connected" /\ readers'[r] \in Owning
    BY <1>5 DEF Connected, StreamTypes, Owning
  <2>3. \A q \in Readers : q # r => readers'[q] \notin Owning
    BY <1>5, <2>1 DEF StreamTypes
  <2>4. writer' = 0
    BY <1>5, <2>1 DEF OwnersOK
  <2> QED  BY <2>2, <2>3, <2>4 DEF OwnersOK
<1>6. CASE StreamArrives
  BY <1>6, <1>5 DEF StreamArrives, mark_connected, NewReader, Free
<1>7. ASSUME NEW a \in Attempts, L2capConnected(a) PROVE OwnersOK'
  BY <1>7, <1>5, <1>1 DEF L2capConnected, mark_connected, NewReader, Free, is_current_attempt
<1>8. ASSUME NEW r \in Readers, InstallWriter(r) \/ InstallRuntime(r) \/ StreamCloses(r)
      PROVE OwnersOK'
  <2>1. \A q \in Readers : readers'[q] \in Owning <=> readers[q] \in Owning
    BY <1>8 DEF InstallWriter, InstallRuntime, StreamCloses, Step, StreamTypes, Owning
  <2>2. readers[r] \in Owning /\ writer' \in {writer, r} /\ UNCHANGED link
    BY <1>8 DEF InstallWriter, InstallRuntime, StreamCloses, Step, linkVars, Owning
  <2> QED  BY <2>1, <2>2 DEF OwnersOK
<1>9. ASSUME NEW r \in Readers, Release(r) PROVE OwnersOK'
  <2>1. readers[r] \in Owning /\ readers' = [readers EXCEPT ![r] = "released"]
        /\ link'.kind = "none" /\ writer' = 0
    BY <1>9 DEF Release, Step, Owning, NoLink
  <2>2. \A q \in Readers : readers'[q] \notin Owning
    BY <2>1 DEF OwnersOK, StreamTypes, Owning
  <2> QED  BY <2>1, <2>2 DEF OwnersOK
<1>10. ASSUME NEW r \in Readers, DisconnectCommands(r) \/ RemoveRuntime(r) \/ RemoveReport(r)
       PROVE OwnersOK'
  <2>1. \A q \in Readers : readers'[q] \in Owning <=> readers[q] \in Owning
    BY <1>10 DEF DisconnectCommands, RemoveRuntime, RemoveReport, Step, StreamTypes, Owning
  <2>2. UNCHANGED <<link, writer>>
    BY <1>10 DEF DisconnectCommands, RemoveRuntime, RemoveReport, linkVars
  <2> QED  BY <2>1, <2>2 DEF OwnersOK
<1>11. CASE PeerChanges \/ DeadlinePasses \/ ReconcileReads \/ ReconcileGone \/ ReconcileSkips
            \/ UNCHANGED vars
            \/ \E c \in Commands : ReadRuntime(c) \/ Reserve(c) \/ GivesUp(c) \/ CommandReturns(c)
  BY <1>11, <1>1 DEF PeerChanges, DeadlinePasses, ReconcileReads, ReconcileGone, ReconcileSkips,
       vars, linkVars,
       streamVars, ReadRuntime, Reserve, GivesUp, CommandReturns
<1>12. ASSUME NEW a \in Attempts, ProfileConnected(a) \/ PsmRefused(a) PROVE OwnersOK'
  BY <1>12, <1>1 DEF ProfileConnected, PsmRefused, streamVars
<1>13. ASSUME NEW r \in Readers, FrameApplied(r) \/ Acknowledged(r) PROVE OwnersOK'
  BY <1>13, <1>1 DEF FrameApplied, Acknowledged, linkVars, streamVars
<1> HIDE DEF Readers
<1> QED  BY <1>3, <1>4, <1>6, <1>7, <1>8, <1>9, <1>10, <1>11, <1>12, <1>13 DEF Next, Reconciler, Connects, Streams

(* Only a running stream reports, and its teardown clears both stores      *)
(* after that.                                                             *)
LEMMA KeepsReports ==
  ASSUME StreamTypes, ReportsOK, [Next]_vars
  PROVE  ReportsOK'
<1> USE FastPairBounds DEF Readers
<1>1. CASE UNCHANGED <<readers, runtime, report>>
  BY <1>1 DEF ReportsOK
<1>2. CASE ReconcileGone
  BY <1>2 DEF ReportsOK, ReconcileGone
<1>3. ASSUME NEW r \in Readers, NEW s \in {"spawned", "closed", "wired", "released", "drained"},
             readers' = [readers EXCEPT ![r] = s], UNCHANGED <<runtime, report>>
      PROVE  ReportsOK'
  BY <1>3 DEF ReportsOK, StreamTypes
<1>4. CASE StreamArrives
  BY <1>4, <1>3 DEF StreamArrives
<1>5. ASSUME NEW a \in Attempts, L2capConnected(a) PROVE ReportsOK'
  BY <1>5, <1>3, <1>1 DEF L2capConnected
<1>6. ASSUME NEW r \in Readers,
             InstallWriter(r) \/ StreamCloses(r) \/ Release(r) \/ DisconnectCommands(r)
      PROVE  ReportsOK'
  BY <1>6, <1>3 DEF InstallWriter, StreamCloses, Release, DisconnectCommands, Step
<1>7. ASSUME NEW r \in Readers, InstallRuntime(r) PROVE ReportsOK'
  BY <1>7 DEF ReportsOK, StreamTypes, InstallRuntime, Step
<1>8. ASSUME NEW r \in Readers, FrameApplied(r) PROVE ReportsOK'
  BY <1>8 DEF ReportsOK, FrameApplied, update_runtime, update_report
<1>9. ASSUME NEW r \in Readers, RemoveRuntime(r) PROVE ReportsOK'
  BY <1>9 DEF ReportsOK, StreamTypes, RemoveRuntime, Step
<1>10. ASSUME NEW r \in Readers, RemoveReport(r) PROVE ReportsOK'
  BY <1>10 DEF ReportsOK, StreamTypes, RemoveReport, Step
<1>11. ASSUME NEW r \in Readers, Acknowledged(r) PROVE ReportsOK'
  BY <1>11, <1>1 DEF Acknowledged, streamVars
<1>12. CASE PeerChanges \/ DeadlinePasses \/ AttemptGrowsStale \/ Notice \/ ReconcileReads
            \/ ReconcileForgets \/ ReconcileSkips \/ ReconcileBegins \/ UNCHANGED vars
            \/ \E c \in Commands : ReadRuntime(c) \/ Reserve(c) \/ GivesUp(c) \/ CommandReturns(c)
  BY <1>12, <1>1 DEF PeerChanges, DeadlinePasses, AttemptGrowsStale, Notice, ReconcileReads,
       ReconcileForgets, ReconcileSkips, ReconcileBegins, vars, streamVars,
       ReadRuntime, Reserve, GivesUp, CommandReturns
<1>13. ASSUME NEW a \in Attempts, ProfileConnected(a) \/ PsmRefused(a) \/ ConnectFails(a)
       PROVE  ReportsOK'
  BY <1>13, <1>1 DEF ProfileConnected, PsmRefused, ConnectFails, streamVars
<1> HIDE DEF Readers
<1> QED  BY <1>2, <1>4, <1>5, <1>6, <1>7, <1>8, <1>9, <1>10, <1>11, <1>12, <1>13
         DEF Next, Reconciler, Connects, Streams

(* The inductive invariant: types, the owner of a link, and its reports.   *)
LinksIInv ==
  PeerTypes /\ LinkTypes /\ StreamTypes /\ CommandTypes /\ OwnersOK /\ ReportsOK /\ SlotMatchesCommand

(* It holds when the daemon starts.                                        *)
LEMMA InitLinksIInv == Init => LinksIInv
<1> SUFFICES ASSUME Init PROVE LinksIInv
  OBVIOUS
<1> USE FastPairBounds DEF Init
<1>1. PeerTypes
  <2>1. <<>> \in Seq(BOOLEAN)
    OBVIOUS
  <2> QED  BY <2>1, Zenon DEF PeerTypes
<1>2. LinkTypes
  BY LinkValues DEF LinkTypes, ConnectStates
<1>3. StreamTypes
  BY DEF StreamTypes, ReaderStates
<1>4. CommandTypes
  BY DEF CommandTypes
<1>5. OwnersOK
  BY DEF OwnersOK, Owning, NoLink
<1>6. ReportsOK
  BY DEF ReportsOK, Readers
<1>7. SlotMatchesCommand
  BY DEF SlotMatchesCommand, Commands
<1> QED  BY <1>1, <1>2, <1>3, <1>4, <1>5, <1>6, <1>7 DEF LinksIInv

(* The invariant of a peer's stream.                                       *)
THEOREM LinksInvariant == Spec => []LinksIInv
<1>1. LinksIInv /\ [Next]_vars => LinksIInv'
  BY KeepsPeerTypes, KeepsLinkTypes, KeepsStreamTypes, KeepsCommands, KeepsOwners, KeepsReports
     DEF LinksIInv
<1> QED  BY <1>1, InitLinksIInv, PTL DEF Spec

(***************************************************************************)
(* For any number of attempts, streams and commands, TypeOK always holds;  *)
(* in particular the quick retries of a busy channel and of an unknown PSM *)
(* never pass their limits.                                                *)
(***************************************************************************)
THEOREM LinksTypeCorrect == Spec => []TypeOK
<1>1. LinksIInv => TypeOK
  BY TypeParts DEF LinksIInv
<1> QED  BY <1>1, LinksInvariant, PTL

(***************************************************************************)
(* For any number of attempts and streams, StreamOwnsLink always holds: a  *)
(* connected link has exactly one stream that will release it and any      *)
(* other link none, the installed writer is that stream's, and a stream    *)
(* that is gone has left nothing reported.                                 *)
(***************************************************************************)
THEOREM StreamOwnership == Spec => []StreamOwnsLink
<1>1. LinksIInv => StreamOwnsLink
  <2> SUFFICES ASSUME LinksIInv PROVE StreamOwnsLink
    OBVIOUS
  <2> DEFINE owners == {r \in Readers : readers[r] \in Owning}
  <2>1. IF link.kind = "connected" THEN \E r \in Readers : owners = {r} ELSE owners = {}
    <3>1. CASE link.kind = "connected"
      <4>1. PICK r \in Readers : readers[r] \in Owning
        BY <3>1 DEF LinksIInv, OwnersOK
      <4>2. owners = {r}
        BY <4>1 DEF LinksIInv, OwnersOK
      <4> QED  BY <3>1, <4>2
    <3>2. CASE link.kind # "connected"
      BY <3>2 DEF LinksIInv, OwnersOK
    <3> QED  BY <3>1, <3>2
  <2>2. writer # 0 => writer \in owners
    BY DEF LinksIInv, OwnersOK
  <2>3. \A r \in Readers : readers[r] = "absent" => r \notin runtime /\ report # r
    BY DEF LinksIInv, ReportsOK
  <2> QED  BY <2>1, <2>2, <2>3 DEF StreamOwnsLink
<1> QED  BY <1>1, LinksInvariant, PTL

(***************************************************************************)
(* For any number of commands, SlotMatchesCommand always holds: a command  *)
(* that waits for its acknowledgement holds the key's slot, and only such  *)
(* a command does.                                                         *)
(***************************************************************************)
THEOREM SlotOwnership == Spec => []SlotMatchesCommand
<1>1. LinksIInv => SlotMatchesCommand
  BY DEF LinksIInv
<1> QED  BY <1>1, LinksInvariant, PTL

-----------------------------------------------------------------------------
(***************************************************************************)
(* Audio.  For any cards, ids, changes and restarts of PipeWire: what is   *)
(* written is the target's and is written once, and what is reported as    *)
(* made was sent.                                                          *)
(***************************************************************************)

(* Queues: whether and how often something is in one.                      *)
Has(q, e) == \E k \in 1 .. Len(q) : q[k] = e
Once(q, e) == \A j, k \in 1 .. Len(q) : q[j] = e /\ q[k] = e => j = k

(* The values of the default metadata.                                     *)
Values == Peers \cup {None}

(* What PipeWire tells and is asked.                                       *)
Events ==
  ({"device"} \X Ids \X Nat) \cup ({"node"} \X Ids \X Nat \X Peers)
    \cup ({"removed"} \X Ids) \cup ({"profile"} \X Profiles) \cup ({"info"} \X Peers)
    \cup ({"configured", "effective"} \X Values) \cup {<<"metadata">>, <<"withdrawn">>, <<"error">>}
Messages(i) == {<<"bind", i>>, <<"metadata">>, <<"profile">>, <<"default">>}

(* The connection of an operation that has probed the object i.            *)
Sessions(i) ==
  [open : BOOLEAN, down : Seq(Events), up : Seq(Messages(i)), matched : BOOLEAN,
   bound : Ids \cup {None}, device : BOOLEAN, node : BOOLEAN, meta : BOOLEAN,
   wrote : BOOLEAN, seen : [configured : Values, effective : Values],
   done : {"none", "ok", "failed"}, lost : BOOLEAN, expired : BOOLEAN]

(* The steps that have a connection.                                       *)
Active == {"profile", "route"}
Steps == {"idle", "probe", "retry", "reprobe", "ok", "failed"} \cup Active

(* Types of PipeWire's state; serials are given out in order.              *)
PipeWireTypes ==
  /\ cards \in [Ids -> {None} \cup Cards]
  /\ metadata \in BOOLEAN
  /\ default \in [configured : Values, effective : Values]
  /\ serial \in Nat
  /\ \A i \in Ids : cards[i] # None => cards[i].serial <= serial

(* Types of the operation; it connects after a probe has named an object.  *)
OpTypes ==
  /\ op \in [kind : {"policy", "client"}, wants : SUBSET {"profile", "route"}, step : Steps,
             id : Ids \cup {None}, serial : Nat, tries : Nat]
  /\ op.step \in Active => op.id \in Ids

(* A connection that is not there.                                         *)
Idle(s) == ~s.open /\ s.down = <<>> /\ s.up = <<>> /\ s.bound = None

(* A connection that is cut has nothing in flight and nothing bound; what  *)
(* is bound exists.                                                        *)
SessionOK ==
  /\ session \in Sessions(op.id)
  /\ op.step \notin Active => Idle(session)
  /\ ~session.open => session.up = <<>> /\ session.bound = None /\ ~session.meta
  /\ session.bound # None => cards[session.bound] # None

(* A success has been written for, and a loss is a failure.                *)
OutcomeOK(s) ==
  /\ s.done = "ok" => s.wrote
  /\ s.lost => s.done = "failed"

(* The announcement that is waited for, and the request that answers it.   *)
Announced == <<"device", op.id, op.serial>>
ToBind == <<"bind", op.id>>

(* It has been told whose card it has bound.                               *)
Told(s) == \E p \in Peers : Has(s.down, <<"info", p>>)

(* A change of profile.  The announcement, the request to bind, what is    *)
(* bound with whose card it is, and the write follow each other and come   *)
(* once: the serial that was probed is given out once in a run of          *)
(* PipeWire, and a connection does not outlive a run.  So the card that is *)
(* bound when the write arrives is the one that was checked.               *)
ProfileOK ==
  LET s == session IN
  op.step = "profile" =>
    /\ ~Has(s.up, <<"default">>)
    /\ Once(s.up, <<"profile">>) /\ Once(s.up, ToBind) /\ Once(s.down, Announced)
    /\ ~s.wrote => ~Has(s.up, <<"profile">>)
    /\ Has(s.down, Announced) => ~Has(s.up, ToBind) /\ s.bound = None /\ ~Told(s) /\ ~s.wrote
    /\ Has(s.up, ToBind) => s.bound = None /\ ~Told(s) /\ ~s.wrote
    /\ s.open /\ (Has(s.down, Announced) \/ Has(s.up, ToBind) \/ s.bound # None \/ Told(s) \/ s.wrote)
         => op.serial <= serial
    /\ s.bound # None =>
         /\ \A p \in Peers : Has(s.down, <<"info", p>>) => cards[s.bound].peer = p
         /\ Has(s.up, <<"profile">>) => cards[s.bound].peer = Target
    /\ \/ written = <<>>
       \/ written = <<Target>> /\ s.wrote /\ ~Has(s.up, <<"profile">>)

(* A change of the default writes it once.                                 *)
RouteOK ==
  LET s == session IN
  op.step = "route" =>
    /\ ~Has(s.up, <<"profile">>)
    /\ Once(s.up, <<"default">>)
    /\ ~s.wrote => ~Has(s.up, <<"default">>)
    /\ \/ written \in {<<>>, <<Target>>}
       \/ written \in {<<"default">>, Append(<<Target>>, "default")} /\ s.wrote /\ ~Has(s.up, <<"default">>)

(* What has been written by the steps without a connection.                *)
WrittenOK ==
  /\ op.step \in {"idle", "probe", "retry"} => written = <<>>
  /\ op.step = "reprobe" => written \in {<<>>, <<Target>>}
  /\ op.step \in {"ok", "failed"} =>
       written \in {<<>>, <<Target>>, <<"default">>, Append(<<Target>>, "default")}

(* The part of the invariant that is about the connection.                 *)
Connection == SessionOK /\ OutcomeOK(session) /\ ProfileOK /\ RouteOK /\ WrittenOK

(* The inductive invariant.                                                *)
AudioIInv == PipeWireTypes /\ OpTypes /\ Connection

-----------------------------------------------------------------------------
(* What is in a queue after a message is appended.                         *)
LEMMA Appending ==
  ASSUME NEW S, NEW q \in Seq(S), NEW m \in S
  PROVE  /\ Append(q, m) \in Seq(S)
         /\ \A e : Has(Append(q, m), e) <=> Has(q, e) \/ m = e
         /\ \A e : Once(q, e) /\ ~(m = e /\ Has(q, e)) => Once(Append(q, m), e)
<1>1. /\ Append(q, m) \in Seq(S)
      /\ Len(Append(q, m)) = Len(q) + 1
      /\ \A k \in 1 .. Len(q) : Append(q, m)[k] = q[k]
      /\ Append(q, m)[Len(q) + 1] = m
  OBVIOUS
<1>2. Len(q) \in Nat
  OBVIOUS
<1> DEFINE r == Append(q, m)
<1> HIDE DEF r
<1>3. r \in Seq(S) /\ Len(r) = Len(q) + 1 /\ (\A k \in 1 .. Len(q) : r[k] = q[k]) /\ r[Len(q) + 1] = m
  BY <1>1 DEF r
<1>4. \A e : Has(r, e) <=> Has(q, e) \/ m = e
  <2> TAKE e
  <2>1. ASSUME Has(r, e) PROVE Has(q, e) \/ m = e
    <3>1. PICK k \in 1 .. Len(r) : r[k] = e
      BY <2>1 DEF Has
    <3>2. k \in 1 .. Len(q) \/ k = Len(q) + 1
      BY <1>2, <1>3
    <3> QED
      BY <3>1, <3>2, <1>3 DEF Has
  <2>2. ASSUME Has(q, e) PROVE Has(r, e)
    <3>1. PICK k \in 1 .. Len(q) : q[k] = e
      BY <2>2 DEF Has
    <3>2. k \in 1 .. Len(r) /\ r[k] = e
      BY <3>1, <1>2, <1>3
    <3> QED
      BY <3>2 DEF Has
  <2>3. ASSUME m = e PROVE Has(r, e)
    <3>1. Len(q) + 1 \in 1 .. Len(r) /\ r[Len(q) + 1] = e
      BY <2>3, <1>2, <1>3
    <3> QED
      BY <3>1 DEF Has
  <2> QED
    BY <2>1, <2>2, <2>3
<1>5. ASSUME NEW e, Once(q, e), ~(m = e /\ Has(q, e)) PROVE Once(r, e)
  <2> SUFFICES ASSUME NEW j \in 1 .. Len(r), NEW k \in 1 .. Len(r), r[j] = e, r[k] = e
               PROVE  j = k
    BY DEF Once
  <2>1. (j \in 1 .. Len(q) \/ j = Len(q) + 1) /\ (k \in 1 .. Len(q) \/ k = Len(q) + 1)
    BY <1>2, <1>3
  <2>2. CASE j \in 1 .. Len(q) /\ k \in 1 .. Len(q)
    BY <2>2, <1>3, <1>5 DEF Once
  <2>3. CASE j = Len(q) + 1 /\ k \in 1 .. Len(q)
    BY <2>3, <1>3, <1>5 DEF Has
  <2>4. CASE k = Len(q) + 1 /\ j \in 1 .. Len(q)
    BY <2>4, <1>3, <1>5 DEF Has
  <2> QED
    BY <2>1, <2>2, <2>3, <2>4
<1> QED
  BY <1>3, <1>4, <1>5 DEF r

(* What is in a queue after its head is taken.                             *)
LEMMA Taking ==
  ASSUME NEW S, NEW q \in Seq(S), q # <<>>
  PROVE  /\ Tail(q) \in Seq(S) /\ Head(q) \in S /\ Has(q, Head(q))
         /\ \A e : Has(Tail(q), e) => Has(q, e)
         /\ \A e : Once(q, e) => Once(Tail(q), e) /\ ~(Head(q) = e /\ Has(Tail(q), e))
<1>1. /\ Tail(q) \in Seq(S) /\ Head(q) \in S /\ Head(q) = q[1]
      /\ Len(q) \in Nat /\ Len(q) >= 1 /\ Len(Tail(q)) = Len(q) - 1
      /\ \A k \in 1 .. Len(q) - 1 : Tail(q)[k] = q[k + 1]
  OBVIOUS
<1> DEFINE r == Tail(q)
<1> HIDE DEF r
<1>2. Len(r) = Len(q) - 1 /\ \A k \in 1 .. Len(r) : r[k] = q[k + 1] /\ k + 1 \in 1 .. Len(q) /\ k + 1 # 1
  BY <1>1 DEF r
<1>3. Has(q, Head(q)) /\ 1 \in 1 .. Len(q)
  BY <1>1 DEF Has
<1>4. \A e : Has(r, e) => Has(q, e)
  BY <1>2 DEF Has
<1>5. ASSUME NEW e, Once(q, e) PROVE Once(r, e) /\ ~(Head(q) = e /\ Has(r, e))
  <2>1. ASSUME NEW j \in 1 .. Len(r), NEW k \in 1 .. Len(r), r[j] = e, r[k] = e PROVE j = k
    <3>1. j + 1 = k + 1
      BY <2>1, <1>2, <1>5 DEF Once
    <3> QED
      BY <3>1
  <2>2. ASSUME NEW k \in 1 .. Len(r), r[k] = e, Head(q) = e PROVE FALSE
    <3>1. q[k + 1] = e /\ q[1] = e /\ k + 1 \in 1 .. Len(q)
      BY <2>2, <1>1, <1>2
    <3> QED
      BY <3>1, <1>2, <1>3, <1>5 DEF Once
  <2> QED
    BY <2>1, <2>2 DEF Once, Has
<1> QED
  BY <1>1, <1>3, <1>4, <1>5 DEF r

(* What is in a queue after several are appended.                          *)
LEMMA Joining ==
  ASSUME NEW S, NEW q \in Seq(S), NEW t \in Seq(S)
  PROVE  /\ q \o t \in Seq(S)
         /\ \A e : Has(q \o t, e) <=> Has(q, e) \/ Has(t, e)
         /\ \A e : Once(q, e) /\ Once(t, e) /\ ~(Has(q, e) /\ Has(t, e)) => Once(q \o t, e)
<1>1. /\ q \o t \in Seq(S) /\ Len(q) \in Nat /\ Len(t) \in Nat /\ Len(q \o t) = Len(q) + Len(t)
      /\ \A k \in 1 .. Len(q) + Len(t) : (q \o t)[k] = IF k <= Len(q) THEN q[k] ELSE t[k - Len(q)]
  OBVIOUS
<1> DEFINE r == q \o t
<1> HIDE DEF r
<1>2. /\ Len(r) = Len(q) + Len(t)
      /\ \A k \in 1 .. Len(r) : (k \in 1 .. Len(q) /\ r[k] = q[k])
                               \/ (k - Len(q) \in 1 .. Len(t) /\ r[k] = t[k - Len(q)])
      /\ \A k \in 1 .. Len(q) : k \in 1 .. Len(r) /\ r[k] = q[k]
      /\ \A k \in 1 .. Len(t) : Len(q) + k \in 1 .. Len(r) /\ r[Len(q) + k] = t[k]
  <2>1. \A k \in 1 .. Len(t) : (Len(q) + k) - Len(q) = k /\ ~(Len(q) + k <= Len(q))
    BY <1>1
  <2> QED
    BY <1>1, <2>1 DEF r
<1>3. \A e : Has(r, e) <=> Has(q, e) \/ Has(t, e)
  <2> TAKE e
  <2>1. ASSUME Has(r, e) PROVE Has(q, e) \/ Has(t, e)
    BY <2>1, <1>2 DEF Has
  <2>2. ASSUME Has(q, e) PROVE Has(r, e)
    BY <2>2, <1>2 DEF Has
  <2>3. ASSUME Has(t, e) PROVE Has(r, e)
    BY <2>3, <1>2 DEF Has
  <2> QED
    BY <2>1, <2>2, <2>3
<1>4. ASSUME NEW e, Once(q, e), Once(t, e), ~(Has(q, e) /\ Has(t, e)) PROVE Once(r, e)
  <2> SUFFICES ASSUME NEW j \in 1 .. Len(r), NEW k \in 1 .. Len(r), r[j] = e, r[k] = e
               PROVE  j = k
    BY DEF Once
  <2>1. CASE j \in 1 .. Len(q) /\ r[j] = q[j] /\ k \in 1 .. Len(q) /\ r[k] = q[k]
    BY <2>1, <1>4 DEF Once
  <2>2. CASE /\ j - Len(q) \in 1 .. Len(t) /\ r[j] = t[j - Len(q)]
             /\ k - Len(q) \in 1 .. Len(t) /\ r[k] = t[k - Len(q)]
    <3>1. j - Len(q) = k - Len(q)
      BY <2>2, <1>4 DEF Once
    <3> QED
      BY <3>1, <1>1
  <2>3. CASE j \in 1 .. Len(q) /\ r[j] = q[j] /\ k - Len(q) \in 1 .. Len(t) /\ r[k] = t[k - Len(q)]
    BY <2>3, <1>4 DEF Has
  <2>4. CASE k \in 1 .. Len(q) /\ r[k] = q[k] /\ j - Len(q) \in 1 .. Len(t) /\ r[j] = t[j - Len(q)]
    BY <2>4, <1>4 DEF Has
  <2> QED
    BY <1>2, <2>1, <2>2, <2>3, <2>4
<1> QED
  BY <1>1, <1>3, <1>4 DEF r

-----------------------------------------------------------------------------
(* What a callback leaves alone, and what it does besides.                 *)
Kept(r, s) == r.open = s.open /\ r.down = s.down /\ r.bound = s.bound /\ r.meta = s.meta
Quiet(r, s) == Kept(r, s) /\ r.up = s.up /\ r.wrote = s.wrote
Sent(r, s, m) == r.up = IF s.open THEN Append(s.up, m) ELSE s.up

(* The effect of each part of a callback: a failure,                       *)
LEMMA FailEffect ==
  ASSUME NEW i, NEW s \in Sessions(i)
  PROVE  /\ Fail(s) \in Sessions(i) /\ Quiet(Fail(s), s) /\ OutcomeOK(Fail(s))
         /\ LET t == [s EXCEPT !.lost = TRUE]
            IN  Fail(t) \in Sessions(i) /\ Quiet(Fail(t), s) /\ OutcomeOK(Fail(t))
<1>1. ASSUME NEW u \in Sessions(i)
      PROVE  Fail(u) \in Sessions(i) /\ Quiet(Fail(u), u) /\ OutcomeOK(Fail(u))
  BY DEF Sessions, Fail, Quiet, Kept, OutcomeOK
<1> DEFINE t == [s EXCEPT !.lost = TRUE]
<1>2. t \in Sessions(i) /\ Quiet(t, s)
  BY DEF Sessions, Quiet, Kept
<1> HIDE DEF t
<1>3. Fail(t) \in Sessions(i) /\ Quiet(Fail(t), s) /\ OutcomeOK(Fail(t))
  BY <1>1, <1>2 DEF Quiet, Kept
<1> QED
  BY <1>1, <1>3 DEF t

(* a message,                                                              *)
LEMMA SendEffect ==
  ASSUME NEW i, NEW s \in Sessions(i), NEW m \in Messages(i)
  PROVE  /\ Send(s, m) \in Sessions(i) /\ Kept(Send(s, m), s) /\ Sent(Send(s, m), s, m)
         /\ Send(s, m).wrote = s.wrote /\ Send(s, m).done = s.done /\ Send(s, m).lost = s.lost
         /\ Send(s, m).seen = s.seen
<1> DEFINE v == IF s.open THEN Append(s.up, m) ELSE s.up
<1>1. v \in Seq(Messages(i))
  <2>1. s.up \in Seq(Messages(i))
    BY DEF Sessions
  <2> QED
    BY <2>1, Appending
<1>2. Send(s, m) = [s EXCEPT !.up = v]
  BY DEF Send
<1> HIDE DEF v
<1>3. Send(s, m) \in Sessions(i)
  BY <1>1, <1>2 DEF Sessions
<1>4. /\ Kept(Send(s, m), s) /\ Send(s, m).up = v
      /\ Send(s, m).wrote = s.wrote /\ Send(s, m).done = s.done /\ Send(s, m).lost = s.lost
      /\ Send(s, m).seen = s.seen
  BY <1>2 DEF Sessions, Kept
<1> QED
  BY <1>3, <1>4 DEF v, Sent

(* a success,                                                              *)
LEMMA SucceedEffect ==
  ASSUME NEW i, NEW s \in Sessions(i), OutcomeOK(s), s.wrote
  PROVE  Succeed(s) \in Sessions(i) /\ Quiet(Succeed(s), s) /\ OutcomeOK(Succeed(s))
BY DEF Sessions, Succeed, Quiet, Kept, OutcomeOK

(* a confirmation of the route,                                            *)
LEMMA ConfirmEffect ==
  ASSUME NEW i, NEW s \in Sessions(i), OutcomeOK(s)
  PROVE  Confirm(s) \in Sessions(i) /\ Quiet(Confirm(s), s) /\ OutcomeOK(Confirm(s))
BY SucceedEffect DEF Confirm, Quiet, Kept

(* the mark of a write,                                                    *)
LEMMA MarkEffect ==
  ASSUME NEW i, NEW s \in Sessions(i)
  PROVE  LET t == [s EXCEPT !.wrote = TRUE]
         IN  /\ t \in Sessions(i) /\ Kept(t, s) /\ t.up = s.up /\ t.wrote
             /\ OutcomeOK(s) => OutcomeOK(t)
BY DEF Sessions, Kept, OutcomeOK

(* the other marks,                                                        *)
LEMMA FlagEffect ==
  ASSUME NEW i, NEW s \in Sessions(i), NEW v \in Values
  PROVE  \A t \in {[s EXCEPT !.node = TRUE], [s EXCEPT !.matched = TRUE],
                   [s EXCEPT !.device = TRUE], [s EXCEPT !.seen.configured = v],
                   [s EXCEPT !.seen.effective = v]} :
           t \in Sessions(i) /\ Quiet(t, s) /\ (OutcomeOK(s) => OutcomeOK(t))
<1>1. LET t == [s EXCEPT !.node = TRUE] IN t \in Sessions(i) /\ Quiet(t, s) /\ (OutcomeOK(s) => OutcomeOK(t))
  BY DEF Sessions, Quiet, Kept, OutcomeOK
<1>2. LET t == [s EXCEPT !.matched = TRUE] IN t \in Sessions(i) /\ Quiet(t, s) /\ (OutcomeOK(s) => OutcomeOK(t))
  BY DEF Sessions, Quiet, Kept, OutcomeOK
<1>3. LET t == [s EXCEPT !.device = TRUE] IN t \in Sessions(i) /\ Quiet(t, s) /\ (OutcomeOK(s) => OutcomeOK(t))
  BY DEF Sessions, Quiet, Kept, OutcomeOK
<1>4. LET t == [s EXCEPT !.seen.configured = v] IN t \in Sessions(i) /\ Quiet(t, s) /\ (OutcomeOK(s) => OutcomeOK(t))
  BY DEF Sessions, Quiet, Kept, OutcomeOK
<1>5. LET t == [s EXCEPT !.seen.effective = v] IN t \in Sessions(i) /\ Quiet(t, s) /\ (OutcomeOK(s) => OutcomeOK(t))
  BY DEF Sessions, Quiet, Kept, OutcomeOK
<1> QED
  BY <1>1, <1>2, <1>3, <1>4, <1>5

(* What sending something for the first time does.                        *)
Writes(r, s, m) == Kept(r, s) /\ ~s.wrote /\ r.wrote /\ Sent(r, s, m)

(* the write of a default,                                                 *)
LEMMA WriteIfReadyEffect ==
  ASSUME NEW i, NEW s \in Sessions(i), OutcomeOK(s)
  PROVE  LET r == WriteIfReady(s)
         IN  r \in Sessions(i) /\ OutcomeOK(r) /\ (Quiet(r, s) \/ Writes(r, s, <<"default">>))
<1> DEFINE t == [s EXCEPT !.wrote = TRUE]
           u == Send(t, <<"default">>)
<1>1. /\ t \in Sessions(i) /\ Kept(t, s) /\ t.up = s.up /\ t.wrote /\ OutcomeOK(t)
  BY MarkEffect
<1>2. <<"default">> \in Messages(i)
  BY DEF Messages
<1> HIDE DEF t
<1>3. /\ u \in Sessions(i) /\ Kept(u, t) /\ Sent(u, t, <<"default">>) /\ u.wrote = t.wrote
      /\ u.done = t.done /\ u.lost = t.lost
  BY <1>1, <1>2, SendEffect
<1> HIDE DEF u
<1>4. OutcomeOK(u)
  BY <1>1, <1>3 DEF OutcomeOK
<1>5. Confirm(u) \in Sessions(i) /\ Quiet(Confirm(u), u) /\ OutcomeOK(Confirm(u))
  BY <1>3, <1>4, ConfirmEffect
<1>6. CASE s.device /\ s.node /\ s.matched /\ ~s.wrote /\ s.done # "failed"
  <2>1. WriteIfReady(s) = Confirm(u)
    BY <1>6 DEF WriteIfReady, u, t
  <2>2. Writes(Confirm(u), s, <<"default">>)
    BY <1>1, <1>3, <1>5, <1>6 DEF Writes, Quiet, Kept, Sent
  <2> QED
    BY <2>1, <2>2, <1>5
<1>7. CASE ~(s.device /\ s.node /\ s.matched /\ ~s.wrote /\ s.done # "failed")
  BY <1>7 DEF WriteIfReady, Quiet, Kept
<1> QED
  BY <1>6, <1>7

(* and the write of a profile.                                             *)
LEMMA CheckedEffect ==
  ASSUME NEW i, NEW s \in Sessions(i), OutcomeOK(s), NEW p
  PROVE  LET r == Checked(s, p)
         IN  /\ r \in Sessions(i) /\ OutcomeOK(r)
             /\ Quiet(r, s) \/ (p = Target /\ Writes(r, s, <<"profile">>))
<1> DEFINE t == [s EXCEPT !.wrote = TRUE]
           u == Send(t, <<"profile">>)
<1>1. /\ t \in Sessions(i) /\ Kept(t, s) /\ t.up = s.up /\ t.wrote /\ OutcomeOK(t)
  BY MarkEffect
<1>2. <<"profile">> \in Messages(i)
  BY DEF Messages
<1> HIDE DEF t
<1>3. /\ u \in Sessions(i) /\ Kept(u, t) /\ Sent(u, t, <<"profile">>) /\ u.wrote = t.wrote
      /\ u.done = t.done /\ u.lost = t.lost
  BY <1>1, <1>2, SendEffect
<1> HIDE DEF u
<1>4. OutcomeOK(u)
  BY <1>1, <1>3 DEF OutcomeOK
<1>5. ASSUME ~s.wrote PROVE Writes(u, s, <<"profile">>)
  BY <1>1, <1>3, <1>5 DEF Writes, Quiet, Kept, Sent
<1>6. Quiet(s, s) /\ Fail(s) \in Sessions(i) /\ Quiet(Fail(s), s) /\ OutcomeOK(Fail(s))
  BY FailEffect DEF Quiet, Kept
<1>7. Checked(s, p) = s \/ Checked(s, p) = Fail(s) \/ (p = Target /\ ~s.wrote /\ Checked(s, p) = u)
  BY DEF Checked, u, t
<1> QED
  BY <1>3, <1>4, <1>5, <1>6, <1>7

(* An event of a kind has the form of that kind.                           *)
LEMMA EventForms ==
  ASSUME NEW e \in Events
  PROVE  /\ e[1] = "device" /\ ObjectMatches(e) => e = Announced
         /\ e[1] = "info" => e[2] \in Peers /\ e = <<"info", e[2]>>
         /\ e[1] \in {"configured", "effective"} => e[2] \in Values
BY DEF Events, ObjectMatches, Announced, Values

(* A callback of a change of profile is quiet, asks to bind when the       *)
(* announcement arrives, or writes when the card is known to be the        *)
(* target's.                                                               *)
LEMMA ProfileEventEffect ==
  ASSUME NEW s \in Sessions(op.id), OutcomeOK(s), NEW e \in Events
  PROVE  LET r == ProfileEvent(s, e)
         IN  /\ r \in Sessions(op.id) /\ OutcomeOK(r)
             /\ \/ Quiet(r, s)
                \/ e = Announced /\ Kept(r, s) /\ r.wrote = s.wrote /\ Sent(r, s, ToBind)
                \/ e = <<"info", Target>> /\ Writes(r, s, <<"profile">>)
<1> DEFINE i == op.id
<1> USE DEF i
<1>0. Quiet(s, s)
  BY DEF Quiet, Kept
<1>1. CASE e[1] = "device" /\ ObjectMatches(e)
  <2> DEFINE t == [s EXCEPT !.matched = TRUE]
  <2>1. t \in Sessions(i) /\ Quiet(t, s) /\ OutcomeOK(t)
    BY FlagEffect DEF Values
  <2>2. e = Announced /\ e[2] = i /\ ToBind \in Messages(i)
    BY <1>1, EventForms DEF ObjectMatches, Messages, ToBind
  <2>3. ProfileEvent(s, e) = Send(t, ToBind)
    BY <1>1, <2>2 DEF ProfileEvent, ToBind
  <2> HIDE DEF t
  <2>4. /\ Send(t, ToBind) \in Sessions(i) /\ Kept(Send(t, ToBind), t) /\ Sent(Send(t, ToBind), t, ToBind)
        /\ Send(t, ToBind).wrote = t.wrote /\ Send(t, ToBind).done = t.done
        /\ Send(t, ToBind).lost = t.lost
    BY <2>1, <2>2, SendEffect
  <2> DEFINE r == Send(t, ToBind)
  <2> HIDE DEF r
  <2>5. r \in Sessions(i) /\ OutcomeOK(r) /\ Kept(r, s) /\ r.wrote = s.wrote /\ Sent(r, s, ToBind)
    BY <2>1, <2>4 DEF r, OutcomeOK, Quiet, Kept, Sent
  <2> QED
    BY <2>2, <2>3, <2>5 DEF r
<1>2. CASE e[1] = "info"
  <2>1. ProfileEvent(s, e) = Checked(s, e[2])
    BY <1>2 DEF ProfileEvent
  <2> QED
    BY <2>1, <1>2, EventForms, CheckedEffect
<1>3. CASE e[1] = "profile"
  <2>1. ProfileEvent(s, e) = s \/ (s.wrote /\ ProfileEvent(s, e) = Succeed(s))
    BY <1>3 DEF ProfileEvent
  <2> QED
    BY <2>1, <1>0, SucceedEffect
<1>4. CASE (e[1] = "removed" /\ s.matched /\ e[2] = op.id) \/ e[1] = "error"
  <2>1. ProfileEvent(s, e) = Fail([s EXCEPT !.lost = TRUE])
    BY <1>4 DEF ProfileEvent
  <2> QED
    BY <2>1, FailEffect
<1>5. CASE /\ ~(e[1] = "device" /\ ObjectMatches(e)) /\ e[1] # "info" /\ e[1] # "profile"
           /\ ~(e[1] = "removed" /\ s.matched /\ e[2] = op.id) /\ e[1] # "error"
  <2>1. ProfileEvent(s, e) = s
    BY <1>5 DEF ProfileEvent
  <2> QED
    BY <2>1, <1>0
<1> QED
  BY <1>1, <1>2, <1>3, <1>4, <1>5

(* A message other than a write, or none, and then perhaps the write.      *)
Asks(t, s) ==
  /\ Kept(t, s) /\ t.wrote = s.wrote
  /\ t.up = s.up \/ Sent(t, s, ToBind) \/ Sent(t, s, <<"metadata">>)

(* A callback of a change of default asks for something, and then perhaps  *)
(* writes.                                                                 *)
LEMMA RouteEventEffect ==
  ASSUME NEW s \in Sessions(op.id), OutcomeOK(s), NEW e \in Events
  PROVE  LET r == RouteEvent(s, e)
         IN  /\ r \in Sessions(op.id) /\ OutcomeOK(r)
             /\ \E t \in Sessions(op.id) :
                  Asks(t, s) /\ (Quiet(r, t) \/ Writes(r, t, <<"default">>))
<1> DEFINE i == op.id
           Good(r) == /\ r \in Sessions(i) /\ OutcomeOK(r)
                      /\ \E t \in Sessions(i) :
                           Asks(t, s) /\ (Quiet(r, t) \/ Writes(r, t, <<"default">>))
<1>0. ASSUME NEW r \in Sessions(i), OutcomeOK(r), Quiet(r, s) PROVE Good(r)
  BY <1>0 DEF Asks, Quiet, Kept
<1>a. ASSUME NEW t \in Sessions(i), Asks(t, s), OutcomeOK(t) PROVE Good(WriteIfReady(t))
  BY <1>a, WriteIfReadyEffect
<1>b. ASSUME NEW t \in Sessions(i), Quiet(t, s) PROVE Asks(t, s)
  BY <1>b DEF Asks, Quiet
<1>c. ASSUME NEW t \in Sessions(i), Quiet(t, s), OutcomeOK(t),
             NEW m \in {ToBind, <<"metadata">>}
      PROVE  Send(t, m) \in Sessions(i) /\ OutcomeOK(Send(t, m)) /\ Asks(Send(t, m), s)
  <2>1. m \in Messages(i)
    BY DEF Messages, ToBind
  <2>2. /\ Send(t, m) \in Sessions(i) /\ Kept(Send(t, m), t) /\ Sent(Send(t, m), t, m)
        /\ Send(t, m).wrote = t.wrote /\ Send(t, m).done = t.done /\ Send(t, m).lost = t.lost
    BY <2>1, SendEffect
  <2> DEFINE u == Send(t, m)
  <2> HIDE DEF u
  <2>3. u \in Sessions(i) /\ OutcomeOK(u) /\ Kept(u, s) /\ u.wrote = s.wrote /\ Sent(u, s, m)
    BY <2>2, <1>c DEF u, OutcomeOK, Quiet, Kept, Sent
  <2> QED
    BY <2>3 DEF u, Asks
<1>d. ASSUME NEW t \in Sessions(i), Asks(t, s), OutcomeOK(t) PROVE Good(t)
  <2>1. Quiet(t, t)
    BY DEF Quiet, Kept
  <2> QED
    BY <1>d, <2>1
<1>s. Quiet(s, s)
  BY DEF Quiet, Kept
<1>1. CASE e[1] = "device"
  <2>1. CASE ObjectMatches(e)
    <3>1. RouteEvent(s, e) = Send(s, ToBind)
      BY <1>1, <2>1 DEF RouteEvent, ToBind, ObjectMatches
    <3> QED
      BY <3>1, <1>s, <1>c, <1>d
  <2>2. CASE ~ObjectMatches(e)
    <3>1. RouteEvent(s, e) = s
      BY <1>1, <2>2 DEF RouteEvent
    <3> QED
      BY <3>1, <1>0, <1>s
  <2> QED
    BY <2>1, <2>2
<1>2. CASE (e[1] = "node" /\ ObjectMatches(e)) \/ e[1] = "info"
  <2> DEFINE t == IF e[1] = "info" THEN [s EXCEPT !.device = TRUE] ELSE [s EXCEPT !.node = TRUE]
  <2>1. t \in Sessions(i) /\ Quiet(t, s) /\ OutcomeOK(t)
    BY FlagEffect DEF Values
  <2>2. RouteEvent(s, e) = WriteIfReady(t) \/ RouteEvent(s, e) = Fail(s)
    BY <1>2 DEF RouteEvent
  <2> HIDE DEF t
  <2>3. Good(WriteIfReady(t)) /\ Good(Fail(s))
    BY <2>1, <1>a, <1>b, <1>0, FailEffect
  <2> QED
    BY <2>2, <2>3
<1>3. CASE e[1] = "metadata"
  <2> DEFINE t == [s EXCEPT !.matched = TRUE]
             u == Send(t, <<"metadata">>)
  <2>1. t \in Sessions(i) /\ Quiet(t, s) /\ OutcomeOK(t)
    BY FlagEffect DEF Values
  <2>2. RouteEvent(s, e) = WriteIfReady(u)
    BY <1>3 DEF RouteEvent
  <2> HIDE DEF t
  <2>3. u \in Sessions(i) /\ OutcomeOK(u) /\ Asks(u, s)
    BY <2>1, <1>c
  <2> HIDE DEF u
  <2> QED
    BY <2>2, <2>3, <1>a
<1>4. CASE e[1] \in {"configured", "effective"}
  <2> DEFINE t == IF e[1] = "configured" THEN [s EXCEPT !.seen.configured = e[2]]
                  ELSE [s EXCEPT !.seen.effective = e[2]]
  <2>1. t \in Sessions(i) /\ Quiet(t, s) /\ OutcomeOK(t)
    BY <1>4, EventForms, FlagEffect
  <2>2. RouteEvent(s, e) = Confirm(t)
    BY <1>4 DEF RouteEvent
  <2> HIDE DEF t
  <2>3. Confirm(t) \in Sessions(i) /\ Quiet(Confirm(t), t) /\ OutcomeOK(Confirm(t))
    BY <2>1, ConfirmEffect
  <2>4. Quiet(Confirm(t), s)
    BY <2>1, <2>3 DEF Quiet, Kept
  <2> QED
    BY <2>2, <2>3, <2>4, <1>0
<1>5. CASE \/ e[1] = "removed" /\ e[2] = op.id
           \/ e[1] = "withdrawn" /\ s.matched
           \/ e[1] = "error"
  <2>1. RouteEvent(s, e) = Fail([s EXCEPT !.lost = TRUE])
    BY <1>5 DEF RouteEvent
  <2> QED
    BY <2>1, <1>0, FailEffect
<1>6. CASE /\ e[1] \notin {"device", "info", "metadata", "configured", "effective", "error"}
           /\ ~(e[1] = "node" /\ ObjectMatches(e)) /\ ~(e[1] = "removed" /\ e[2] = op.id)
           /\ ~(e[1] = "withdrawn" /\ s.matched)
  <2>1. RouteEvent(s, e) = s
    BY <1>6 DEF RouteEvent
  <2> QED
    BY <2>1, <1>0, <1>s
<1> QED
  BY <1>1, <1>2, <1>3, <1>4, <1>5, <1>6

-----------------------------------------------------------------------------
(* Nothing is in an empty queue.                                           *)
LEMMA Empty == \A e : ~Has(<<>>, e) /\ Once(<<>>, e)
BY DEF Has, Once

(* The invariant holds when the daemon starts.                             *)
LEMMA InitAudioIInv == AudioInit => AudioIInv
<1> SUFFICES ASSUME AudioInit PROVE AudioIInv
  OBVIOUS
<1> USE DEF AudioInit
<1>1. PipeWireTypes
  BY DEF PipeWireTypes, Nothing, Values
<1>2. OpTypes
  BY DEF OpTypes, Steps, Active
<1>3. Closed \in Sessions(op.id)
  <2>1. Nothing \in [configured : Values, effective : Values]
    BY DEF Nothing, Values
  <2>2. <<>> \in Seq(Events) /\ <<>> \in Seq(Messages(op.id))
    OBVIOUS
  <2> QED
    BY <2>1, <2>2 DEF Closed, Sessions
<1>4. SessionOK /\ OutcomeOK(session)
  BY <1>3 DEF SessionOK, Idle, Closed, OutcomeOK
<1>5. ProfileOK /\ RouteOK /\ WrittenOK
  BY DEF ProfileOK, RouteOK, WrittenOK
<1> QED
  BY <1>1, <1>2, <1>4, <1>5 DEF AudioIInv, Connection

(* t is s, told d and bound to b, and perhaps no longer to the metadata.   *)
Updated(t, s, d, b) ==
  /\ t.open = s.open /\ t.up = s.up /\ t.meta \in {FALSE, s.meta} /\ t.wrote = s.wrote
  /\ t.done = s.done /\ t.lost = s.lost /\ t.down = d /\ t.bound = b

(* A connection that is told more keeps its part of the invariant, unless  *)
(* it is told again of what it has met or whose it is.                     *)
LEMMA HearsMore ==
  ASSUME AudioIInv, UNCHANGED <<op, written>>,
         session' \in Sessions(op.id),
         NEW d, NEW b, Updated(session', session, d, b),
         b = session.bound \/ b = None,
         b # None => cards'[b] # None /\ cards'[b].peer = cards[b].peer,
         NEW ev \in Seq(Events), Once(ev, Announced), \A p \in Peers : ~Has(ev, <<"info", p>>),
         d = session.down \/ (session.open /\ d = session.down \o ev),
         serial \in Nat, serial' \in Nat, serial <= serial', op.serial \in Nat,
         Has(ev, Announced) => serial < op.serial /\ op.serial <= serial'
  PROVE  Connection'
<1> USE DEF AudioIInv, Connection, Updated
<1>1. session.down \in Seq(Events)
  BY DEF SessionOK, Sessions
<1>2. SessionOK'
  BY DEF SessionOK, Idle
<1>3. OutcomeOK(session)'
  BY DEF OutcomeOK
<1>4. RouteOK' /\ WrittenOK'
  BY DEF RouteOK, WrittenOK
<1>5. ASSUME op.step = "profile" PROVE ProfileOK'
  <2>1. \A e : Has(d, e) => Has(session.down, e) \/ (session.open /\ Has(ev, e))
    <3>1. \A e : Has(session.down \o ev, e) <=> Has(session.down, e) \/ Has(ev, e)
      BY <1>1, Joining
    <3> QED
      BY <3>1
  <2>2. \A p \in Peers : Has(d, <<"info", p>>) => Has(session.down, <<"info", p>>)
    BY <2>1
  <2>3. Told(session') => Told(session)
    BY <2>2 DEF Told
  <2>4. CASE d = session.down
    <3> QED
      BY <1>5, <2>2, <2>3, <2>4 DEF ProfileOK, Announced, ToBind
  <2>5. CASE session.open /\ d = session.down \o ev /\ ~Has(ev, Announced)
    <3>1. Has(d, Announced) => Has(session.down, Announced)
      BY <2>1, <2>5
    <3>2. Once(d, Announced)
      BY <1>1, <1>5, <2>5, Joining DEF ProfileOK
    <3> QED
      BY <1>5, <2>2, <2>3, <3>1, <3>2 DEF ProfileOK, Announced, ToBind
  <2>6. CASE session.open /\ d = session.down \o ev /\ Has(ev, Announced)
    <3>1. ~(op.serial <= serial) /\ op.serial <= serial'
      BY <2>6
    <3>2. /\ ~Has(session.down, Announced) /\ ~Has(session.up, ToBind) /\ session.bound = None
          /\ ~Told(session) /\ ~session.wrote
      BY <1>5, <2>6, <3>1 DEF ProfileOK
    <3>3. Once(d, Announced)
      BY <1>1, <1>5, <2>6, <3>2, Joining DEF ProfileOK
    <3> QED
      BY <1>5, <2>2, <2>3, <3>1, <3>2, <3>3 DEF ProfileOK, Announced, ToBind
  <2> QED
    BY <2>4, <2>5, <2>6
<1>6. ASSUME op.step # "profile" PROVE ProfileOK'
  BY <1>6 DEF ProfileOK
<1> QED
  BY <1>2, <1>3, <1>4, <1>5, <1>6

(* A session that has been told more.                                      *)
LEMMA ToldFields ==
  ASSUME NEW i, NEW s \in Sessions(i), NEW d \in Seq(Events), NEW t,
         t = [s EXCEPT !.down = d]
  PROVE  t \in Sessions(i) /\ Updated(t, s, d, s.bound) /\ t.meta = s.meta
BY DEF Sessions, Updated

(* One that has lost the metadata.                                         *)
LEMMA UnboundFields ==
  ASSUME NEW i, NEW s \in Sessions(i), NEW d \in Seq(Events), NEW t,
         t = [s EXCEPT !.down = d, !.meta = FALSE]
  PROVE  t \in Sessions(i) /\ Updated(t, s, d, s.bound)
BY DEF Sessions, Updated

(* And one that has lost its card.                                         *)
LEMMA LostFields ==
  ASSUME NEW i, NEW s \in Sessions(i), NEW d \in Seq(Events), NEW b \in Ids \cup {None}, NEW t,
         t = [s EXCEPT !.down = d, !.bound = b]
  PROVE  t \in Sessions(i) /\ Updated(t, s, d, b)
BY DEF Sessions, Updated

(* Types of the fields.                                                    *)
LEMMA Facts ==
  ASSUME AudioIInv
  PROVE  /\ session \in Sessions(op.id) /\ session.down \in Seq(Events)
         /\ session.up \in Seq(Messages(op.id)) /\ session.bound \in Ids \cup {None}
         /\ serial \in Nat /\ op.serial \in Nat
         /\ default.configured \in Values /\ default.effective \in Values
         /\ \A i \in Ids : cards[i] # None => /\ cards[i] \in Cards
                                              /\ cards[i].serial <= serial
BY DEF AudioIInv, Connection, SessionOK, Sessions, PipeWireTypes, OpTypes

(* One event that is neither an announcement of a card nor says whose it is *)
LEMMA OtherEvent ==
  ASSUME NEW e \in Events, e[1] \notin {"device", "info"}
  PROVE  /\ <<e>> \in Seq(Events) /\ Once(<<e>>, Announced) /\ ~Has(<<e>>, Announced)
         /\ \A p \in Peers : ~Has(<<e>>, <<"info", p>>)
<1>1. e # Announced /\ \A p \in Peers : e # <<"info", p>>
  BY DEF Announced
<1>2. <<e>> \in Seq(Events) /\ Len(<<e>>) = 1 /\ <<e>>[1] = e
  OBVIOUS
<1>3. \A k \in 1 .. Len(<<e>>) : <<e>>[k] = e
  BY <1>2
<1> QED
  BY <1>1, <1>2, <1>3 DEF Once, Has

(* So one such event may be told at any time.                              *)
LEMMA OneMore ==
  ASSUME AudioIInv, UNCHANGED <<op, written, serial>>, NEW e \in Events, e[1] \notin {"device", "info"},
         NEW heard \in BOOLEAN, heard => session.open,
         \/ session' = [session EXCEPT !.down = IF heard THEN Tell(<<e>>) ELSE @]
         \/ session' = [session EXCEPT !.down = IF heard THEN Tell(<<e>>) ELSE @, !.meta = FALSE],
         session.bound # None =>
           cards'[session.bound] # None /\ cards'[session.bound].peer = cards[session.bound].peer
  PROVE  Connection'
<1> DEFINE d == IF heard THEN session.down \o <<e>> ELSE session.down
<1>1. <<e>> \in Seq(Events) /\ Once(<<e>>, Announced) /\ ~Has(<<e>>, Announced)
      /\ \A p \in Peers : ~Has(<<e>>, <<"info", p>>)
  BY OtherEvent
<1>2. d \in Seq(Events)
  BY <1>1, Facts, Joining
<1>3. \/ session' = [session EXCEPT !.down = d]
      \/ session' = [session EXCEPT !.down = d, !.meta = FALSE]
  BY DEF Tell
<1>4. d = session.down \/ (session.open /\ d = session.down \o <<e>>)
  OBVIOUS
<1> HIDE DEF d
<1>5. session' \in Sessions(op.id) /\ Updated(session', session, d, session.bound)
  <2>1. session \in Sessions(op.id)
    BY Facts
  <2>2. CASE session' = [session EXCEPT !.down = d]
    BY <1>2, <2>1, <2>2, ToldFields
  <2>3. CASE session' = [session EXCEPT !.down = d, !.meta = FALSE]
    BY <1>2, <2>1, <2>3, UnboundFields
  <2> QED
    BY <1>3, <2>2, <2>3
<1>6. serial' \in Nat /\ serial <= serial'
  BY Facts
<1> QED
  BY <1>1, <1>4, <1>5, <1>6, Facts, HearsMore

(* A card goes away: what was bound to it is bound to nothing.             *)
LEMMA CardVanishesKeeps ==
  ASSUME AudioIInv, NEW i \in Ids, CardVanishes(i)
  PROVE  Connection'
<1> DEFINE e == <<"removed", i>>
           d == IF session.open THEN session.down \o <<e>> ELSE session.down
           b == IF session.bound = i THEN None ELSE session.bound
<1>1. e \in Events /\ e[1] \notin {"device", "info"}
  BY DEF Events
<1>2. /\ <<e>> \in Seq(Events) /\ Once(<<e>>, Announced) /\ ~Has(<<e>>, Announced)
      /\ \A p \in Peers : ~Has(<<e>>, <<"info", p>>)
  BY <1>1, OtherEvent
<1>3. d \in Seq(Events) /\ b \in Ids \cup {None}
  BY <1>2, Facts, Joining
<1>4. session' = [session EXCEPT !.down = d, !.bound = b]
  BY DEF CardVanishes, Tell
<1>5. d = session.down \/ (session.open /\ d = session.down \o <<e>>)
  OBVIOUS
<1>6. b = session.bound \/ b = None
  OBVIOUS
<1>7. b # None => cards'[b] # None /\ cards'[b].peer = cards[b].peer
  <2> SUFFICES ASSUME b # None PROVE cards'[b] = cards[b] /\ cards[b] # None
    OBVIOUS
  <2>1. b = session.bound /\ b # i /\ b \in Ids /\ cards[b] # None
    BY <1>3 DEF AudioIInv, Connection, SessionOK
  <2>2. cards' = [cards EXCEPT ![i] = None] /\ DOMAIN cards = Ids
    BY DEF CardVanishes, AudioIInv, PipeWireTypes
  <2> QED
    BY <2>1, <2>2
<1> HIDE DEF d, b
<1>8. session' \in Sessions(op.id) /\ Updated(session', session, d, b)
  <2>1. session \in Sessions(op.id)
    BY Facts
  <2> QED
    BY <1>3, <1>4, <2>1, LostFields
<1>9. UNCHANGED <<op, written, serial>>
  BY DEF CardVanishes, Change
<1>10. serial' \in Nat /\ serial <= serial'
  BY <1>9, Facts
<1> QED
  BY <1>2, <1>5, <1>6, <1>7, <1>8, <1>9, <1>10, Facts, HearsMore

(* A card appears: if it is announced as the one that is waited for, its   *)
(* serial is new, so the one that was waited for has not been met.         *)
LEMMA CardAppearsKeeps ==
  ASSUME AudioIInv, NEW i \in Ids, NEW p \in Peers, CardAppears(i, p)
  PROVE  Connection' /\ PipeWireTypes'
<1>1. PICK f \in Profiles :
        LET card == [serial |-> serial + 1, peer |-> p, profile |-> f]
        IN  /\ cards' = [cards EXCEPT ![i] = card]
            /\ session' = [session EXCEPT !.down = IF session.open THEN Tell(Announces(i, card)) ELSE @]
  BY DEF CardAppears
<1> DEFINE card == [serial |-> serial + 1, peer |-> p, profile |-> f]
           dev == <<"device", i, serial + 1>>
           nod == <<"node", i, serial + 1, p>>
           ev == <<dev, nod>>
           d == IF session.open THEN session.down \o ev ELSE session.down
<1>2. /\ serial \in Nat /\ serial' = serial + 1 /\ UNCHANGED <<op, written, metadata, default>>
      /\ cards[i] = None
  BY Facts DEF CardAppears, Change
<1>3. dev \in Events /\ nod \in Events
  BY <1>2 DEF Events
<1>4. ev = Announces(i, card)
  BY DEF Announces
<1>5. nod # Announced /\ \A o \in Peers : dev # <<"info", o>> /\ nod # <<"info", o>>
  BY DEF Announced
<1>6. dev = Announced => op.serial = serial + 1
  BY DEF Announced
<1>c. cards' = [cards EXCEPT ![i] = card] /\ card \in Cards
      /\ card.serial = serial + 1
  BY <1>1, <1>2 DEF Cards
<1>s. session' = [session EXCEPT !.down = d]
  BY <1>1, <1>4 DEF Tell
<1> HIDE DEF dev, nod, card
<1>7. ev \in Seq(Events) /\ Len(ev) = 2 /\ \A k \in 1 .. Len(ev) : ev[k] = IF k = 1 THEN dev ELSE nod
  BY <1>3
<1> HIDE DEF ev
<1>8. Once(ev, Announced) /\ (Has(ev, Announced) => dev = Announced) /\ \A o \in Peers : ~Has(ev, <<"info", o>>)
  BY <1>5, <1>7 DEF Once, Has
<1>9. d \in Seq(Events) /\ (d = session.down \/ (session.open /\ d = session.down \o ev))
  BY <1>7, Facts, Joining
<1> HIDE DEF d
<1>10. session' \in Sessions(op.id) /\ Updated(session', session, d, session.bound)
  <2>1. session \in Sessions(op.id)
    BY Facts
  <2> QED
    BY <1>9, <1>s, <2>1, ToldFields
<1>11. session.bound # None => cards'[session.bound] = cards[session.bound] /\ cards[session.bound] # None
  <2> SUFFICES ASSUME session.bound # None PROVE cards'[session.bound] = cards[session.bound] /\ cards[session.bound] # None
    OBVIOUS
  <2>1. session.bound \in Ids /\ cards[session.bound] # None
    BY Facts DEF AudioIInv, Connection, SessionOK
  <2>2. session.bound # i
    BY <1>2, <2>1
  <2> QED
    BY <2>1, <2>2, <1>c DEF AudioIInv, PipeWireTypes
<1>12. Has(ev, Announced) => serial < op.serial /\ op.serial <= serial'
  BY <1>2, <1>6, <1>8
<1>13. Connection'
  <2>1. serial' \in Nat /\ serial <= serial'
    BY <1>2
  <2> QED
    BY <1>2, <1>7, <1>8, <1>9, <1>10, <1>11, <1>12, <2>1, Facts, HearsMore
<1>14. PipeWireTypes'
  <2>1. cards' \in [Ids -> {None} \cup Cards]
    BY <1>c DEF AudioIInv, PipeWireTypes
  <2>2. ASSUME NEW j \in Ids, cards'[j] # None PROVE cards'[j].serial <= serial'
    <3>1. CASE j = i
      BY <3>1, <1>2, <1>c DEF AudioIInv, PipeWireTypes
    <3>2. CASE j # i
      <4>1. cards'[j] = cards[j]
        BY <3>2, <1>c DEF AudioIInv, PipeWireTypes
      <4>2. cards[j].serial \in Nat /\ cards[j].serial <= serial
        BY <4>1, <2>2, Facts DEF Cards
      <4> QED
        BY <4>1, <4>2, <1>2
    <3> QED
      BY <3>1, <3>2
  <2> QED
    BY <1>2, <2>1, <2>2 DEF AudioIInv, PipeWireTypes
<1> QED
  BY <1>13, <1>14

(* Other changes in PipeWire.                                              *)
LEMMA OthersChangeKeeps ==
  ASSUME AudioIInv,
         \/ \E i \in Ids, f \in Profiles : ProfileChanges(i, f)
         \/ \E p \in Peers : DefaultChanges(p)
         \/ DefaultFollows
         \/ SessionManagerStarts
         \/ SessionManagerStops
  PROVE  Connection'
<1>0. /\ session.bound # None => session.open /\ session.bound \in Ids /\ cards[session.bound] # None
      /\ session.meta => session.open
  BY Facts DEF AudioIInv, Connection, SessionOK
<1>b. session.open \in BOOLEAN /\ session.meta \in BOOLEAN
  BY Facts DEF Sessions
<1>1. ASSUME NEW i \in Ids, NEW f \in Profiles, ProfileChanges(i, f) PROVE Connection'
  <2> DEFINE e == <<"profile", f>>
             heard == session.bound = i
  <2>1. e \in Events /\ e[1] \notin {"device", "info"}
    BY DEF Events
  <2>2. UNCHANGED <<op, written, serial>> /\ cards[i] # None /\ cards' = [cards EXCEPT ![i].profile = f]
    BY <1>1 DEF ProfileChanges, Change
  <2>3. session' = [session EXCEPT !.down = IF heard THEN Tell(<<e>>) ELSE @]
    BY <1>1 DEF ProfileChanges
  <2>4. ASSUME session.bound # None
        PROVE  cards'[session.bound] # None /\ cards'[session.bound].peer = cards[session.bound].peer
    <3>1. CASE session.bound = i
      <4>1. cards'[i] = [cards[i] EXCEPT !.profile = f]
        BY <2>2 DEF AudioIInv, PipeWireTypes
      <4>2. cards[i] \in Cards
        BY <2>2, Facts
      <4>3. cards'[i] \in Cards /\ cards'[i].peer = cards[i].peer
        BY <4>1, <4>2 DEF Cards
      <4> QED
        BY <3>1, <4>3, AudioAssumption
    <3>2. CASE session.bound # i
      BY <3>2, <2>2, <2>4, <1>0 DEF AudioIInv, PipeWireTypes
    <3> QED
      BY <3>1, <3>2
  <2>5. heard \in BOOLEAN /\ (heard => session.open)
    BY <1>0, AudioAssumption
  <2> HIDE DEF heard, e
  <2> QED
    BY <2>1, <2>2, <2>3, <2>4, <2>5, OneMore
<1>2. ASSUME NEW p \in Peers, DefaultChanges(p) PROVE Connection'
  <2> DEFINE e == <<"configured", p>>
  <2>1. e \in Events /\ e[1] \notin {"device", "info"}
    BY DEF Events, Values
  <2>2. UNCHANGED <<op, written, serial, cards>>
    BY <1>2 DEF DefaultChanges, Change
  <2>3. session' = [session EXCEPT !.down = IF session.meta THEN Tell(<<e>>) ELSE @]
    BY <1>2 DEF DefaultChanges
  <2> HIDE DEF e
  <2> QED
    BY <2>1, <2>2, <2>3, <1>0, <1>b, OneMore
<1>3. ASSUME DefaultFollows PROVE Connection'
  <2> DEFINE e == <<"effective", default.configured>>
  <2>1. e \in Events /\ e[1] \notin {"device", "info"}
    BY Facts DEF Events
  <2>2. UNCHANGED <<op, written, serial, cards>>
    BY <1>3 DEF DefaultFollows
  <2>3. session' = [session EXCEPT !.down = IF session.meta THEN Tell(<<e>>) ELSE @]
    BY <1>3 DEF DefaultFollows
  <2> HIDE DEF e
  <2> QED
    BY <2>1, <2>2, <2>3, <1>0, <1>b, OneMore
<1>4. ASSUME SessionManagerStarts PROVE Connection'
  <2> DEFINE e == <<"metadata">>
  <2>1. e \in Events /\ e[1] \notin {"device", "info"}
    BY DEF Events
  <2>2. UNCHANGED <<op, written, serial, cards>>
    BY <1>4 DEF SessionManagerStarts
  <2>3. session' = [session EXCEPT !.down = IF session.open THEN Tell(<<e>>) ELSE @]
    BY <1>4 DEF SessionManagerStarts
  <2> HIDE DEF e
  <2> QED
    BY <2>1, <2>2, <2>3, <1>0, <1>b, OneMore
<1>5. ASSUME SessionManagerStops PROVE Connection'
  <2> DEFINE e == <<"withdrawn">>
  <2>1. e \in Events /\ e[1] \notin {"device", "info"}
    BY DEF Events
  <2>2. UNCHANGED <<op, written, serial, cards>>
    BY <1>5 DEF SessionManagerStops, Change
  <2>3. session' = [session EXCEPT !.down = IF session.open THEN Tell(<<e>>) ELSE @, !.meta = FALSE]
    BY <1>5 DEF SessionManagerStops
  <2> HIDE DEF e
  <2> QED
    BY <2>1, <2>2, <2>3, <1>0, <1>b, OneMore
<1> QED
  BY <1>1, <1>2, <1>3, <1>4, <1>5

(* PipeWire starts over: the connection is cut, and its serials may come   *)
(* again but are not told.                                                 *)
LEMMA ServerRestartsKeeps ==
  ASSUME AudioIInv, ServerRestarts
  PROVE  Connection'
<1> DEFINE e == <<"error">>
           d == IF session.open THEN session.down \o <<e>> ELSE session.down
<1>1. e \in Events /\ e[1] \notin {"device", "info"}
  BY DEF Events
<1>2. /\ <<e>> \in Seq(Events) /\ Once(<<e>>, Announced) /\ ~Has(<<e>>, Announced)
      /\ \A p \in Peers : ~Has(<<e>>, <<"info", p>>)
  BY <1>1, OtherEvent
<1>3. d \in Seq(Events)
  BY <1>2, Facts, Joining
<1>4. session' = [session EXCEPT !.down = d, !.up = <<>>, !.bound = None, !.meta = FALSE, !.open = FALSE]
  BY DEF ServerRestarts, Tell
<1>5. UNCHANGED <<op, written>>
  BY DEF ServerRestarts
<1>d. \/ d = session.down
      \/ session.open /\ d = session.down \o <<e>>
  OBVIOUS
<1> HIDE DEF d, e
<1>6. /\ session' \in Sessions(op.id) /\ ~session'.open /\ session'.up = <<>> /\ ~session'.meta
      /\ session'.bound = None /\ session'.down = d /\ session'.wrote = session.wrote
      /\ session'.done = session.done /\ session'.lost = session.lost
  <2>1. session \in Sessions(op.id)
    BY Facts
  <2>2. <<>> \in Seq(Messages(op.id))
    OBVIOUS
  <2> DEFINE M == Messages(op.id)
             Q == Seq(M)
             D == Seq(Events)
  <2>3. <<>> \in Q /\ d \in D
    BY <2>2, <1>3
  <2> QED
    BY <1>4, <2>1, <2>3 DEF Sessions
<1>7. SessionOK' /\ OutcomeOK(session)'
  BY <1>5, <1>6, <1>d DEF AudioIInv, Connection, SessionOK, OutcomeOK, Idle
<1>8. RouteOK' /\ WrittenOK'
  BY <1>5, <1>6, Empty DEF AudioIInv, Connection, RouteOK, WrittenOK
<1>9. ASSUME op.step = "profile" PROVE ProfileOK'
  <2>0. session.down \in Seq(Events)
    BY Facts
  <2>1. \A m : Has(d, m) => Has(session.down, m) \/ Has(<<e>>, m)
    <3>1. \A m : Has(session.down \o <<e>>, m) <=> Has(session.down, m) \/ Has(<<e>>, m)
      BY <1>2, <2>0, Joining
    <3> QED
      BY <3>1, <1>d
  <2>2. Once(d, Announced)
    <3>1. Once(session.down, Announced)
      BY <1>9 DEF AudioIInv, Connection, ProfileOK
    <3> QED
      BY <3>1, <1>2, <1>d, <2>0, Joining
  <2>3. Has(d, Announced) => Has(session.down, Announced)
    BY <1>2, <2>1
  <2>4. Told(session') => Told(session)
    BY <1>2, <1>6, <2>1 DEF Told
  <2> QED
    BY <1>5, <1>6, <1>9, <2>2, <2>3, <2>4, Empty
    DEF AudioIInv, Connection, ProfileOK, Announced, ToBind
<1>10. ASSUME op.step # "profile" PROVE ProfileOK'
  BY <1>5, <1>10 DEF ProfileOK
<1> QED
  BY <1>7, <1>8, <1>9, <1>10 DEF Connection

-----------------------------------------------------------------------------
(* t is s after its first message has been read.                           *)
Served(t, s, u, d, b, m) ==
  /\ t.open = s.open /\ t.meta = m /\ t.up = u /\ t.wrote = s.wrote
  /\ t.done = s.done /\ t.lost = s.lost /\ t.down = d /\ t.bound = b

(* What PipeWire finds at the head of the queue.                           *)
LEMMA ReadingFacts ==
  ASSUME AudioIInv, session.up # <<>>
  PROVE  /\ session.open /\ op.step \in Active /\ op.id \in Ids
         /\ Tail(session.up) \in Seq(Messages(op.id)) /\ Has(session.up, Head(session.up))
         /\ \A m : Has(Tail(session.up), m) => Has(session.up, m)
         /\ \A m : Once(session.up, m) =>
              Once(Tail(session.up), m) /\ ~(Head(session.up) = m /\ Has(Tail(session.up), m))
         /\ Head(session.up)[1] = "bind" => Head(session.up) = ToBind /\ Head(session.up)[2] = op.id
         /\ Head(session.up)[1] = "metadata" => Head(session.up) = <<"metadata">>
         /\ Head(session.up)[1] = "profile" => Head(session.up) = <<"profile">>
         /\ Head(session.up)[1] = "default" => Head(session.up) = <<"default">>
<1>1. session.open /\ op.step \in Active /\ op.id \in Ids
  BY DEF AudioIInv, Connection, SessionOK, Idle, OpTypes
<1>2. session.up \in Seq(Messages(op.id))
  BY Facts
<1>3. Head(session.up) \in Messages(op.id)
  BY <1>2, Taking
<1>4. /\ Tail(session.up) \in Seq(Messages(op.id)) /\ Has(session.up, Head(session.up))
      /\ \A m : Has(Tail(session.up), m) => Has(session.up, m)
      /\ \A m : Once(session.up, m) =>
           Once(Tail(session.up), m) /\ ~(Head(session.up) = m /\ Has(Tail(session.up), m))
  BY <1>2, Taking
<1> DEFINE h == Head(session.up)
<1> HIDE DEF h
<1>5. /\ h[1] = "bind" => h = ToBind /\ h[2] = op.id
      /\ h[1] = "metadata" => h = <<"metadata">>
      /\ h[1] = "profile" => h = <<"profile">>
      /\ h[1] = "default" => h = <<"default">>
  BY <1>3 DEF h, Messages, ToBind
<1> QED
  BY <1>1, <1>4, <1>5 DEF h

(* The connection after a bind,                                            *)
LEMMA BindFields ==
  ASSUME NEW i, NEW s \in Sessions(i), NEW u \in Seq(Messages(i)), NEW d \in Seq(Events),
         NEW b \in Ids \cup {None}, NEW t,
         t = [s EXCEPT !.up = u, !.bound = b, !.down = d]
  PROVE  t \in Sessions(i) /\ Served(t, s, u, d, b, s.meta)
BY DEF Sessions, Served

(* after the metadata is bound,                                            *)
LEMMA MetadataFields ==
  ASSUME NEW i, NEW s \in Sessions(i), NEW u \in Seq(Messages(i)), NEW d \in Seq(Events), NEW t,
         NEW m \in BOOLEAN, t = [s EXCEPT !.up = u, !.meta = m, !.down = d]
  PROVE  t \in Sessions(i) /\ Served(t, s, u, d, s.bound, m)
BY DEF Sessions, Served

(* after a write,                                                          *)
LEMMA WriteFields ==
  ASSUME NEW i, NEW s \in Sessions(i), NEW u \in Seq(Messages(i)), NEW d \in Seq(Events), NEW t,
         t = [s EXCEPT !.up = u, !.down = d]
  PROVE  t \in Sessions(i) /\ Served(t, s, u, d, s.bound, s.meta)
BY DEF Sessions, Served

(* and after a write to nothing.                                           *)
LEMMA IgnoredFields ==
  ASSUME NEW i, NEW s \in Sessions(i), NEW u \in Seq(Messages(i)), NEW t,
         t = [s EXCEPT !.up = u]
  PROVE  t \in Sessions(i) /\ Served(t, s, u, s.down, s.bound, s.meta)
BY DEF Sessions, Served

(* A bind: whose card it is told is whose is bound.                        *)
LEMMA BindsKeeps ==
  ASSUME AudioIInv, session.up # <<>>, Binds, UNCHANGED <<op, serial>>
  PROVE  Connection'
<1> DEFINE i == op.id
           answer == IF cards[i] = None THEN <<<<"error">>>>
                     ELSE <<<<"info", cards[i].peer>>, <<"profile", cards[i].profile>>>>
           d == session.down \o answer
           b == IF cards[i] = None THEN None ELSE i
           u == Tail(session.up)
<1>1. Head(session.up) = ToBind /\ Head(session.up)[2] = i /\ i \in Ids /\ op.step \in Active /\ session.open
  BY ReadingFacts DEF Binds
<1>2. UNCHANGED <<cards, written>>
  BY DEF Binds
<1>3. session' = [session EXCEPT !.up = u, !.bound = b, !.down = d]
  BY <1>1 DEF Binds, Tell
<1>4. /\ answer \in Seq(Events) /\ ~Has(answer, Announced) /\ Once(answer, Announced)
      /\ \A p \in Peers : Has(answer, <<"info", p>>) => cards[i] # None /\ p = cards[i].peer
  <2>1. CASE cards[i] = None
    <3>1. <<"error">> \in Events /\ <<"error">>[1] \notin {"device", "info"}
      BY DEF Events
    <3> QED
      BY <2>1, <3>1, OtherEvent
  <2>2. CASE cards[i] # None
    <3> DEFINE x == <<"info", cards[i].peer>>
               y == <<"profile", cards[i].profile>>
               q == <<x, y>>
    <3>1. cards[i].peer \in Peers /\ cards[i].profile \in Profiles
      BY <1>1, <2>2, Facts DEF Cards
    <3>2. x \in Events /\ y \in Events
      BY <3>1 DEF Events
    <3>3. x # Announced /\ y # Announced /\ \A p \in Peers : y # <<"info", p>> /\ (x = <<"info", p>> => p = cards[i].peer)
      BY DEF Announced
    <3>4. answer = q
      BY <2>2
    <3> HIDE DEF x, y, answer
    <3>5. q \in Seq(Events) /\ \A k \in 1 .. Len(q) : q[k] = x \/ q[k] = y
      BY <3>2
    <3> HIDE DEF q
    <3>6. ~Has(q, Announced) /\ Once(q, Announced) /\ \A p \in Peers : Has(q, <<"info", p>>) => p = cards[i].peer
      BY <3>3, <3>5 DEF Has, Once
    <3> QED
      BY <2>2, <3>4, <3>5, <3>6
  <2> QED
    BY <2>1, <2>2
<1> HIDE DEF answer
<1>5. /\ d \in Seq(Events)
      /\ \A e : Has(d, e) <=> Has(session.down, e) \/ Has(answer, e)
      /\ Once(session.down, Announced) => Once(d, Announced)
  <2>1. session.down \in Seq(Events)
    BY Facts
  <2> QED
    BY <2>1, <1>4, Joining
<1>6. b \in Ids \cup {None} /\ (b # None => cards[b] # None /\ b = i)
  BY <1>1
<1> HIDE DEF d, b
<1>7. session' \in Sessions(i) /\ Served(session', session, u, d, b, session.meta)
  <2>1. session \in Sessions(i) /\ u \in Seq(Messages(i))
    BY Facts, ReadingFacts
  <2> HIDE DEF u, i
  <2> QED
    BY <2>1, <1>3, <1>5, <1>6, BindFields
<1>8. /\ \A m : Has(u, m) => Has(session.up, m)
      /\ \A m : Once(session.up, m) => Once(u, m) /\ ~(Head(session.up) = m /\ Has(u, m))
      /\ Has(session.up, ToBind)
  BY <1>1, ReadingFacts
<1> HIDE DEF u
<1>u. session'.up = u
  BY <1>7 DEF Served
<1>9. SessionOK' /\ OutcomeOK(session)' /\ WrittenOK'
  BY <1>1, <1>2, <1>6, <1>7 DEF AudioIInv, Connection, SessionOK, OutcomeOK, WrittenOK, Served
<1>10. RouteOK'
  BY <1>2, <1>7, <1>8, <1>u DEF AudioIInv, Connection, RouteOK, Served
<1>11. ASSUME op.step = "profile" PROVE ProfileOK'
  <2>1. /\ session.bound = None /\ ~Told(session) /\ ~session.wrote /\ ~Has(session.down, Announced)
        /\ Once(session.up, ToBind) /\ Once(session.down, Announced) /\ op.serial <= serial
        /\ ~Has(session.up, <<"profile">>) /\ ~Has(session.up, <<"default">>)
        /\ Once(session.up, <<"profile">>)
        /\ written = <<>>
    BY <1>1, <1>8, <1>11 DEF AudioIInv, Connection, ProfileOK
  <2>2. \A p \in Peers : Has(d, <<"info", p>>) => cards[i] # None /\ p = cards[i].peer
    BY <1>4, <1>5, <2>1 DEF Told
  <2>3. ~Has(u, ToBind) /\ ~Has(d, Announced) /\ ~Has(u, <<"profile">>) /\ ~Has(u, <<"default">>)
    BY <1>1, <1>4, <1>5, <1>8, <2>1
  <2>4. Once(u, <<"profile">>) /\ Once(u, ToBind) /\ Once(d, Announced)
    BY <1>5, <1>8, <2>1
  <2>5. /\ session'.down = d /\ session'.bound = b /\ session'.wrote = session.wrote
        /\ Announced' = Announced /\ ToBind' = ToBind
    BY <1>7 DEF Served, Announced, ToBind
  <2> QED
    BY <1>2, <1>6, <1>u, <2>1, <2>2, <2>3, <2>4, <2>5 DEF ProfileOK
<1>12. ASSUME op.step # "profile" PROVE ProfileOK'
  BY <1>12 DEF ProfileOK
<1> QED
  BY <1>9, <1>10, <1>11, <1>12 DEF Connection

(* Another message is read; a write that it makes is recorded.             *)
LEMMA ReadsOther ==
  ASSUME AudioIInv, session.up # <<>>, Head(session.up) # ToBind, UNCHANGED <<op, serial>>,
         NEW u, u = Tail(session.up), NEW d, NEW m, session' \in Sessions(op.id),
         Served(session', session, u, d, session.bound, m),
         NEW ev \in Seq(Events), Once(ev, Announced), ~Has(ev, Announced),
         \A p \in Peers : ~Has(ev, <<"info", p>>),
         d = session.down \/ d = session.down \o ev,
         session.bound # None =>
           cards'[session.bound] # None /\ cards'[session.bound].peer = cards[session.bound].peer,
         \/ written' = written
         \/ Head(session.up) = <<"profile">> /\ written' = Append(written, Target)
         \/ Head(session.up) = <<"default">> /\ written' = Append(written, "default")
  PROVE  Connection'
<1>1. session.open /\ op.step \in Active
  BY ReadingFacts
<1>2. /\ \A e : Has(u, e) => Has(session.up, e)
      /\ \A e : Once(session.up, e) => Once(u, e) /\ ~(Head(session.up) = e /\ Has(u, e))
      /\ Has(session.up, Head(session.up))
  BY ReadingFacts
<1>3. /\ session'.open /\ session'.up = u /\ session'.wrote = session.wrote
      /\ session'.done = session.done /\ session'.lost = session.lost /\ session'.down = d
      /\ session'.bound = session.bound /\ Announced' = Announced /\ ToBind' = ToBind
  BY <1>1 DEF Served, Announced, ToBind
<1>4. /\ \A e : Has(d, e) => Has(session.down, e) \/ Has(ev, e)
      /\ Once(session.down, Announced) => Once(d, Announced)
  <2>0. session.down \in Seq(Events)
    BY Facts
  <2>1. /\ \A e : Has(session.down \o ev, e) => Has(session.down, e) \/ Has(ev, e)
        /\ Once(session.down, Announced) => Once(session.down \o ev, Announced)
    BY <2>0, Joining
  <2> QED
    BY <2>1
<1> HIDE DEF Served
<1>5. SessionOK' /\ OutcomeOK(session)' /\ WrittenOK'
  BY <1>1, <1>3 DEF AudioIInv, Connection, SessionOK, OutcomeOK, WrittenOK, Active
<1>6. ASSUME op.step = "route" PROVE RouteOK' /\ ProfileOK'
  <2>1. Head(session.up) # <<"profile">> /\ ~Has(u, <<"profile">>)
    BY <1>2, <1>6 DEF AudioIInv, Connection, RouteOK
  <2>2. Once(u, <<"default">>) /\ (~session.wrote => ~Has(u, <<"default">>))
    BY <1>2, <1>6 DEF AudioIInv, Connection, RouteOK
  <2>3. \/ written' \in {<<>>, <<Target>>}
        \/ written' \in {<<"default">>, Append(<<Target>>, "default")} /\ session.wrote /\ ~Has(u, <<"default">>)
    <3>1. CASE written' = written
      BY <3>1, <1>2, <1>6 DEF AudioIInv, Connection, RouteOK
    <3>2. CASE Head(session.up) = <<"default">> /\ written' = Append(written, "default")
      <4>1. Has(session.up, <<"default">>) /\ ~Has(u, <<"default">>)
        BY <3>2, <1>2, <1>6 DEF AudioIInv, Connection, RouteOK
      <4>2. session.wrote /\ written \in {<<>>, <<Target>>}
        BY <4>1, <1>6 DEF AudioIInv, Connection, RouteOK
      <4>3. Append(<<>>, "default") = <<"default">>
        OBVIOUS
      <4> QED
        BY <3>2, <4>1, <4>2, <4>3
    <3> QED
      BY <2>1, <3>1, <3>2
  <2> QED
    BY <1>3, <1>6, <2>1, <2>2, <2>3 DEF RouteOK, ProfileOK
<1>7. ASSUME op.step = "profile" PROVE RouteOK' /\ ProfileOK'
  <2>1. Head(session.up) # <<"default">> /\ ~Has(u, <<"default">>)
    BY <1>2, <1>7 DEF AudioIInv, Connection, ProfileOK
  <2>2. /\ Once(u, <<"profile">>) /\ Once(u, ToBind) /\ Once(d, Announced)
        /\ ~session.wrote => ~Has(u, <<"profile">>)
    BY <1>2, <1>4, <1>7 DEF AudioIInv, Connection, ProfileOK
  <2>3. /\ Has(d, Announced) => Has(session.down, Announced)
        /\ \A p \in Peers : Has(d, <<"info", p>>) => Has(session.down, <<"info", p>>)
        /\ Has(u, ToBind) => Has(session.up, ToBind)
        /\ Has(u, <<"profile">>) => Has(session.up, <<"profile">>)
    BY <1>2, <1>4
  <2>4. Told(session') => Told(session)
    BY <1>3, <2>3 DEF Told
  <2>5. written' = <<>> \/ (written' = <<Target>> /\ session.wrote /\ ~Has(u, <<"profile">>))
    <3>1. CASE written' = written
      BY <3>1, <2>3, <1>7 DEF AudioIInv, Connection, ProfileOK
    <3>2. CASE Head(session.up) = <<"profile">> /\ written' = Append(written, Target)
      <4>1. Has(session.up, <<"profile">>) /\ ~Has(u, <<"profile">>)
        BY <3>2, <1>2, <1>7 DEF AudioIInv, Connection, ProfileOK
      <4>2. session.wrote /\ written = <<>>
        BY <4>1, <1>7 DEF AudioIInv, Connection, ProfileOK
      <4>3. Append(<<>>, Target) = <<Target>>
        OBVIOUS
      <4> QED
        BY <3>2, <4>1, <4>2, <4>3
    <3> QED
      BY <2>1, <3>1, <3>2
  <2>6. /\ Has(d, Announced) => ~Has(u, ToBind) /\ session.bound = None /\ ~Told(session') /\ ~session.wrote
        /\ Has(u, ToBind) => session.bound = None /\ ~Told(session') /\ ~session.wrote
        /\ (Has(d, Announced) \/ Has(u, ToBind) \/ session.bound # None \/ Told(session') \/ session.wrote)
             => op.serial <= serial
    BY <1>1, <1>7, <2>3, <2>4 DEF AudioIInv, Connection, ProfileOK
  <2>7. session.bound # None =>
          /\ \A p \in Peers : Has(d, <<"info", p>>) => cards'[session.bound].peer = p
          /\ Has(u, <<"profile">>) => cards'[session.bound].peer = Target
    BY <1>7, <2>3 DEF AudioIInv, Connection, ProfileOK
  <2> QED
    BY <1>3, <1>7, <2>1, <2>2, <2>5, <2>6, <2>7 DEF RouteOK, ProfileOK
<1> QED
  BY <1>1, <1>5, <1>6, <1>7 DEF Connection, Active

(* PipeWire reads a message: a profile is written to the target's card.    *)
LEMMA ServerReadsKeeps ==
  ASSUME AudioIInv, ServerReads
  PROVE  Connection' /\ PipeWireTypes'
<1>0. session.up # <<>> /\ UNCHANGED <<metadata, serial, op>>
  BY DEF ServerReads
<1> DEFINE u == Tail(session.up)
<1>1. /\ session \in Sessions(op.id) /\ u \in Seq(Messages(op.id)) /\ session.down \in Seq(Events)
      /\ \A h \in {"profile", "default", "metadata"} : Head(session.up)[1] = h => Head(session.up) = <<h>> /\ <<h>> # ToBind
  <2>1. \A h \in {"profile", "default", "metadata"} : <<h>> # ToBind
    BY DEF ToBind
  <2> QED
    BY <2>1, <1>0, Facts, ReadingFacts
<1>2. u = Tail(session.up)
  OBVIOUS
<1>b. session.bound # None => session.bound \in Ids /\ cards[session.bound] # None
  BY Facts DEF AudioIInv, Connection, SessionOK
<1> HIDE DEF u
<1>3. ASSUME Binds PROVE Connection' /\ PipeWireTypes'
  <2>1. UNCHANGED <<cards, default>>
    BY <1>3 DEF Binds
  <2> QED
    BY <1>0, <1>3, <2>1, BindsKeeps DEF AudioIInv, PipeWireTypes
<1>4. ASSUME BindsMetadata PROVE Connection' /\ PipeWireTypes'
  <2> DEFINE x == IF metadata THEN <<"configured", default.configured>> ELSE <<"error">>
             y == <<"effective", default.effective>>
             ev == IF metadata THEN <<x, y>> ELSE <<x>>
             d == session.down \o ev
  <2>1. UNCHANGED <<cards, default, written>> /\ Head(session.up) = <<"metadata">> /\ Head(session.up) # ToBind
    BY <1>1, <1>4 DEF BindsMetadata
  <2>2. session' = [session EXCEPT !.up = u, !.meta = metadata, !.down = d] /\ metadata \in BOOLEAN
    BY <1>4 DEF BindsMetadata, Tell, u, AudioIInv, PipeWireTypes
  <2>3. x \in Events /\ y \in Events
    BY Facts DEF Events
  <2>4. x # Announced /\ y # Announced /\ \A p \in Peers : x # <<"info", p>> /\ y # <<"info", p>>
    BY DEF Announced
  <2> HIDE DEF x, y
  <2>5. ev \in Seq(Events) /\ \A k \in 1 .. Len(ev) : ev[k] = x \/ ev[k] = y
    BY <2>3
  <2> HIDE DEF ev
  <2>6. ~Has(ev, Announced) /\ Once(ev, Announced) /\ \A p \in Peers : ~Has(ev, <<"info", p>>)
    BY <2>4, <2>5 DEF Has, Once
  <2>7. d \in Seq(Events)
    BY <1>1, <2>5, Joining
  <2>8. d = session.down \o ev
    OBVIOUS
  <2> HIDE DEF d
  <2>9. session' \in Sessions(op.id) /\ Served(session', session, u, d, session.bound, metadata)
    BY <1>1, <2>2, <2>7, MetadataFields
  <2>10. Connection'
    BY <1>0, <1>2, <1>b, <2>1, <2>5, <2>6, <2>8, <2>9, ReadsOther
  <2> QED
    BY <1>0, <2>1, <2>10 DEF AudioIInv, PipeWireTypes
<1>5. ASSUME SetsProfile PROVE Connection' /\ PipeWireTypes'
  <2> DEFINE e == <<"profile", Wanted>>
             ev == <<e>>
             i == session.bound
  <2>1. UNCHANGED default /\ Head(session.up) = <<"profile">> /\ Head(session.up) # ToBind
    BY <1>1, <1>5 DEF SetsProfile
  <2>2. e \in Events /\ e[1] \notin {"device", "info"}
    BY DEF Events, Profiles
  <2>3. /\ ev \in Seq(Events) /\ ~Has(ev, Announced) /\ Once(ev, Announced)
        /\ \A p \in Peers : ~Has(ev, <<"info", p>>)
    BY <2>2, OtherEvent
  <2>4. CASE i = None
    <3>1. session' = [session EXCEPT !.up = u] /\ UNCHANGED <<cards, written>>
      BY <1>5, <2>4 DEF SetsProfile, u
    <3>2. session' \in Sessions(op.id) /\ Served(session', session, u, session.down, session.bound, session.meta)
      BY <1>1, <3>1, IgnoredFields
    <3>3. Connection'
      BY <1>0, <1>2, <1>b, <2>1, <2>3, <3>1, <3>2, ReadsOther
    <3> QED
      BY <1>0, <2>1, <3>1, <3>3 DEF AudioIInv, PipeWireTypes
  <2>5. CASE i # None
    <3> DEFINE d == session.down \o ev
    <3>1. /\ session' = [session EXCEPT !.up = u, !.down = d]
          /\ cards' = [cards EXCEPT ![i].profile = Wanted] /\ written' = Append(written, cards[i].peer)
      BY <1>5, <2>5 DEF SetsProfile, u, Tell
    <3>2. d \in Seq(Events) /\ d = session.down \o ev
      BY <1>1, <2>3, Joining
    <3> HIDE DEF d, ev
    <3>3. session' \in Sessions(op.id) /\ Served(session', session, u, d, session.bound, session.meta)
      BY <1>1, <3>1, <3>2, WriteFields
    <3>4. i \in Ids /\ cards[i] \in Cards /\ cards[i].serial <= serial
      BY <1>b, <2>5, Facts
    <3>5. cards'[i] = [cards[i] EXCEPT !.profile = Wanted] /\ \A j \in Ids \ {i} : cards'[j] = cards[j]
      BY <3>1, <3>4 DEF AudioIInv, PipeWireTypes
    <3>6. cards'[i] \in Cards /\ cards'[i].peer = cards[i].peer /\ cards'[i].serial = cards[i].serial
      BY <3>4, <3>5 DEF Cards, Profiles
    <3>7. cards'[i] # None
      BY <3>6, AudioAssumption
    <3>8. cards[i].peer = Target
      <4>1. Has(session.up, <<"profile">>) /\ op.step \in Active
        BY <1>0, <2>1, ReadingFacts
      <4>2. op.step = "profile"
        BY <4>1 DEF Active, AudioIInv, Connection, RouteOK
      <4> QED
        BY <2>5, <4>1, <4>2 DEF AudioIInv, Connection, ProfileOK
    <3>9. Connection'
      BY <1>0, <1>2, <2>1, <2>3, <3>1, <3>2, <3>3, <3>6, <3>7, <3>8, ReadsOther DEF ev
    <3>10. cards' \in [Ids -> {None} \cup Cards]
      BY <3>1, <3>5, <3>6 DEF AudioIInv, PipeWireTypes
    <3>11. \A j \in Ids : cards'[j] # None => cards'[j].serial <= serial'
      BY <1>0, <3>4, <3>5, <3>6 DEF AudioIInv, PipeWireTypes
    <3> QED
      BY <1>0, <2>1, <3>9, <3>10, <3>11 DEF AudioIInv, PipeWireTypes
  <2> QED
    BY <2>4, <2>5
<1>6. ASSUME SetsDefault PROVE Connection' /\ PipeWireTypes'
  <2> DEFINE e == <<"configured", Target>>
             ev == <<e>>
  <2>1. UNCHANGED cards /\ Head(session.up) = <<"default">> /\ Head(session.up) # ToBind
    BY <1>1, <1>6 DEF SetsDefault
  <2>2. e \in Events /\ e[1] \notin {"device", "info"}
    BY AudioAssumption DEF Events, Values
  <2>3. /\ ev \in Seq(Events) /\ ~Has(ev, Announced) /\ Once(ev, Announced)
        /\ \A p \in Peers : ~Has(ev, <<"info", p>>)
    BY <2>2, OtherEvent
  <2>4. CASE ~session.meta
    <3>1. session' = [session EXCEPT !.up = u] /\ UNCHANGED <<default, written>>
      BY <1>6, <2>4 DEF SetsDefault, u
    <3>2. session' \in Sessions(op.id) /\ Served(session', session, u, session.down, session.bound, session.meta)
      BY <1>1, <3>1, IgnoredFields
    <3>3. Connection'
      BY <1>0, <1>2, <1>b, <2>1, <2>3, <3>1, <3>2, ReadsOther
    <3> QED
      BY <1>0, <2>1, <3>1, <3>3 DEF AudioIInv, PipeWireTypes
  <2>5. CASE session.meta
    <3> DEFINE d == session.down \o ev
    <3>1. /\ session' = [session EXCEPT !.up = u, !.down = d]
          /\ written' = Append(written, "default") /\ default' = [default EXCEPT !.configured = Target]
      BY <1>6, <2>5 DEF SetsDefault, u, Tell
    <3>2. d \in Seq(Events) /\ d = session.down \o ev
      BY <1>1, <2>3, Joining
    <3> HIDE DEF d, ev
    <3>3. session' \in Sessions(op.id) /\ Served(session', session, u, d, session.bound, session.meta)
      BY <1>1, <3>1, <3>2, WriteFields
    <3>4. Connection'
      BY <1>0, <1>2, <1>b, <2>1, <2>3, <3>1, <3>2, <3>3, ReadsOther DEF ev
    <3>5. default' \in [configured : Values, effective : Values]
      BY <3>1, AudioAssumption DEF AudioIInv, PipeWireTypes, Values
    <3> QED
      BY <1>0, <2>1, <3>4, <3>5 DEF AudioIInv, PipeWireTypes
  <2> QED
    BY <2>4, <2>5
<1> QED
  BY <1>3, <1>4, <1>5, <1>6 DEF ServerReads

-----------------------------------------------------------------------------
(* The messages of a change of default, as sent one by one.                *)
RouteUp(up, wrote) ==
  /\ ~Has(up, <<"profile">>) /\ Once(up, <<"default">>)
  /\ ~wrote => ~Has(up, <<"default">>)

(* A request keeps them, and so does the write when there was none.        *)
LEMMA RouteUpAsks ==
  ASSUME NEW i, NEW s \in Sessions(i), NEW m \in Messages(i), NEW r, Sent(r, s, m),
         RouteUp(s.up, s.wrote), m # <<"profile">>
  PROVE  /\ m # <<"default">> => RouteUp(r.up, s.wrote)
         /\ ~s.wrote => RouteUp(r.up, TRUE)
         /\ m # <<"default">> /\ ~Has(s.up, <<"default">>) => ~Has(r.up, <<"default">>)
<1>1. s.up \in Seq(Messages(i))
  BY DEF Sessions
<1>2. /\ \A e : Has(Append(s.up, m), e) <=> Has(s.up, e) \/ m = e
      /\ \A e : Once(s.up, e) /\ ~(m = e /\ Has(s.up, e)) => Once(Append(s.up, m), e)
  BY <1>1, Appending
<1>3. r.up = s.up \/ r.up = Append(s.up, m)
  BY DEF Sent
<1> QED
  BY <1>2, <1>3 DEF RouteUp

(* The loop dispatches an event.                                           *)
LEMMA DispatchKeeps ==
  ASSUME AudioIInv, Dispatch
  PROVE  Connection'
<1> DEFINE e == Head(session.down)
           d == Tail(session.down)
           s == [session EXCEPT !.down = d]
<1>1. op.step \in Active /\ session.down # <<>> /\ UNCHANGED <<cards, serial, op, written>>
  BY DEF Dispatch, Active, pipewire
<1>2. session' = IF op.step = "profile" THEN ProfileEvent(s, e) ELSE RouteEvent(s, e)
  BY DEF Dispatch
<1>3. session.down \in Seq(Events) /\ session \in Sessions(op.id)
  BY Facts
<1>4. /\ d \in Seq(Events) /\ e \in Events /\ Has(session.down, e)
      /\ \A m : Has(d, m) => Has(session.down, m)
      /\ \A m : Once(session.down, m) => Once(d, m) /\ ~(e = m /\ Has(d, m))
  BY <1>1, <1>3, Taking
<1> HIDE DEF d, e
<1>5. s \in Sessions(op.id) /\ Updated(s, session, d, session.bound)
  BY <1>3, <1>4, ToldFields
<1>m. s.meta = session.meta
  BY <1>3, <1>4, ToldFields
<1> HIDE DEF s
<1>6. OutcomeOK(s)
  BY <1>5 DEF Updated, OutcomeOK, AudioIInv, Connection
<1>7. WrittenOK'
  BY <1>1 DEF WrittenOK, Active
<1>a. Announced' = Announced /\ ToBind' = ToBind
  BY <1>1 DEF Announced, ToBind
<1>8. ASSUME op.step = "route" PROVE Connection'
  <2> DEFINE r == RouteEvent(s, e)
  <2>1. r \in Sessions(op.id) /\ OutcomeOK(r)
    BY <1>4, <1>5, <1>6, RouteEventEffect
  <2>2. PICK t \in Sessions(op.id) : Asks(t, s) /\ (Quiet(r, t) \/ Writes(r, t, <<"default">>))
    BY <1>4, <1>5, <1>6, RouteEventEffect
  <2>3. session' = r
    BY <1>2, <1>8
  <2> HIDE DEF r
  <2>4. /\ r.open = session.open /\ r.bound = session.bound /\ r.meta = session.meta /\ r.down = d
        /\ session.wrote => r.wrote
        /\ t.open = session.open /\ t.wrote = session.wrote
    BY <1>5, <1>m, <2>2 DEF Updated, Asks, Kept, Quiet, Writes
  <2>5. s.up = session.up /\ s.wrote = session.wrote /\ s.open = session.open
    BY <1>5 DEF Updated
  <2>6. RouteUp(session.up, session.wrote)
    BY <1>8 DEF AudioIInv, Connection, RouteOK, RouteUp
  <2>7. /\ ToBind \in Messages(op.id) /\ <<"metadata">> \in Messages(op.id) /\ <<"default">> \in Messages(op.id)
        /\ ToBind # <<"profile">> /\ ToBind # <<"default">>
        /\ <<"metadata">> # <<"profile">> /\ <<"metadata">> # <<"default">> /\ <<"default">> # <<"profile">>
    BY DEF Messages, ToBind
  <2>8. RouteUp(t.up, t.wrote) /\ (~Has(session.up, <<"default">>) => ~Has(t.up, <<"default">>))
    <3>0. t.wrote = s.wrote /\ RouteUp(s.up, s.wrote)
      BY <2>4, <2>5, <2>6
    <3>1. CASE t.up = s.up
      BY <3>1, <2>4, <2>5, <2>6
    <3>2. CASE Sent(t, s, ToBind)
      BY <3>0, <3>2, <2>5, <2>7, <1>5, RouteUpAsks
    <3>3. CASE Sent(t, s, <<"metadata">>)
      BY <3>0, <3>3, <2>5, <2>7, <1>5, RouteUpAsks
    <3> QED
      BY <2>2, <3>1, <3>2, <3>3 DEF Asks
  <2>9. RouteUp(r.up, r.wrote) /\ (session.wrote /\ ~Has(session.up, <<"default">>) => ~Has(r.up, <<"default">>))
    <3>1. CASE Quiet(r, t)
      BY <3>1, <2>8 DEF Quiet
    <3>2. CASE Writes(r, t, <<"default">>)
      <4>1. ~t.wrote /\ r.wrote /\ Sent(r, t, <<"default">>)
        BY <3>2 DEF Writes
      <4>2. RouteUp(r.up, TRUE)
        BY <4>1, <2>7, <2>8, RouteUpAsks
      <4>3. RouteUp(r.up, r.wrote)
        BY <4>1, <4>2 DEF RouteUp
      <4> QED
        BY <4>1, <4>3, <2>4
    <3> QED
      BY <2>2, <3>1, <3>2
  <2>10. ~session.open => r.up = session.up
    BY <2>2, <2>4, <2>5 DEF Asks, Quiet, Writes, Sent
  <2>11. SessionOK'
    BY <1>1, <2>1, <2>3, <2>4, <2>10 DEF AudioIInv, Connection, SessionOK
  <2>12. RouteOK'
    BY <1>1, <1>8, <2>3, <2>4, <2>9 DEF AudioIInv, Connection, RouteOK, RouteUp
  <2>13. ProfileOK'
    BY <1>1, <1>8 DEF ProfileOK
  <2> QED
    BY <1>7, <2>1, <2>3, <2>11, <2>12, <2>13 DEF Connection
<1>9. ASSUME op.step = "profile" PROVE Connection'
  <2> DEFINE r == ProfileEvent(s, e)
  <2>1. /\ r \in Sessions(op.id) /\ OutcomeOK(r)
        /\ \/ Quiet(r, s)
           \/ e = Announced /\ Kept(r, s) /\ r.wrote = s.wrote /\ Sent(r, s, ToBind)
           \/ e = <<"info", Target>> /\ Writes(r, s, <<"profile">>)
    BY <1>4, <1>5, <1>6, ProfileEventEffect
  <2>2. session' = r
    BY <1>2, <1>9
  <2> HIDE DEF r
  <2>3. /\ s.up = session.up /\ s.wrote = session.wrote /\ s.open = session.open
        /\ s.bound = session.bound /\ s.meta = session.meta /\ s.down = d
    BY <1>5, <1>m DEF Updated
  <2>4. /\ r.open = session.open /\ r.bound = session.bound /\ r.meta = session.meta /\ r.down = d
    BY <2>1, <2>3 DEF Kept, Quiet, Writes
  <2>5. ~session.open => r.up = session.up
    BY <2>1, <2>3 DEF Quiet, Writes, Sent
  <2>6. SessionOK'
    BY <1>1, <2>1, <2>2, <2>4, <2>5 DEF AudioIInv, Connection, SessionOK
  <2>7. RouteOK'
    BY <1>1, <1>9 DEF RouteOK
  <2>8. ProfileOK
    BY DEF AudioIInv, Connection
  <2>9. Told(r) => Told(session)
    BY <1>4, <2>4 DEF Told
  <2>10. Once(d, Announced)
    BY <1>4, <1>9, <2>8 DEF ProfileOK
  <2>u. session.up \in Seq(Messages(op.id)) /\ ToBind \in Messages(op.id) /\ <<"profile">> \in Messages(op.id)
        /\ ToBind # <<"profile">> /\ ToBind # <<"default">> /\ <<"profile">> # <<"default">>
    BY Facts DEF Messages, ToBind
  <2>11. CASE Quiet(r, s)
    <3>1. r.up = session.up /\ r.wrote = session.wrote
      BY <2>3, <2>11 DEF Quiet
    <3> QED
      BY <1>1, <1>4, <1>7, <1>9, <1>a, <2>1, <2>2, <2>4, <2>6, <2>7, <2>8, <2>9, <2>10, <3>1
      DEF ProfileOK, Connection
  <2>12. CASE e = Announced /\ Kept(r, s) /\ r.wrote = s.wrote /\ Sent(r, s, ToBind)
    <3>1. r.wrote = session.wrote /\ r.up = IF session.open THEN Append(session.up, ToBind) ELSE session.up
      BY <2>3, <2>12 DEF Sent
    <3>2. Has(session.down, Announced) /\ ~Has(d, Announced)
      BY <1>4, <1>9, <2>8, <2>12 DEF ProfileOK
    <3>3. ~Has(session.up, ToBind) /\ session.bound = None /\ ~Told(session) /\ ~session.wrote
      BY <1>9, <2>8, <3>2 DEF ProfileOK
    <3>4. \A m : Has(r.up, m) => Has(session.up, m) \/ (m = ToBind /\ session.open)
      <4>1. \A m : Has(Append(session.up, ToBind), m) <=> Has(session.up, m) \/ ToBind = m
        BY <2>u, Appending
      <4> QED
        BY <3>1, <4>1
    <3>5. Once(r.up, <<"profile">>) /\ Once(r.up, ToBind)
      <4>1. Once(session.up, <<"profile">>) /\ Once(session.up, ToBind)
        BY <1>9, <2>8 DEF ProfileOK
      <4>2. Once(Append(session.up, ToBind), <<"profile">>) /\ Once(Append(session.up, ToBind), ToBind)
        BY <2>u, <3>3, <4>1, Appending
      <4> QED
        BY <3>1, <4>1, <4>2
    <3>6. session.open => op.serial <= serial
      BY <1>9, <2>8, <3>2 DEF ProfileOK
    <3>7. ~Has(r.up, <<"profile">>) /\ ~Has(r.up, <<"default">>)
      BY <1>9, <2>u, <2>8, <3>3, <3>4 DEF ProfileOK
    <3>8. written = <<>>
      BY <1>9, <2>8, <3>3 DEF ProfileOK
    <3> QED
      BY <1>1, <1>7, <1>a, <2>1, <2>2, <2>4, <2>6, <2>7, <2>9, <2>10, <3>1, <3>2, <3>3, <3>5, <3>6, <3>7, <3>8
      DEF ProfileOK, Connection
  <2>13. CASE e = <<"info", Target>> /\ Writes(r, s, <<"profile">>)
    <3>1. /\ ~session.wrote /\ r.wrote
          /\ r.up = IF session.open THEN Append(session.up, <<"profile">>) ELSE session.up
      BY <2>3, <2>13 DEF Sent, Writes
    <3>2. Has(session.down, <<"info", Target>>) /\ Told(session)
      BY <1>4, <2>13, AudioAssumption DEF Told
    <3>3. /\ ~Has(session.down, Announced) /\ ~Has(session.up, ToBind) /\ ~Has(session.up, <<"profile">>)
          /\ ~Has(session.up, <<"default">>) /\ written = <<>>
      BY <1>9, <2>8, <3>1, <3>2 DEF ProfileOK
    <3>4. \A m : Has(r.up, m) => Has(session.up, m) \/ (m = <<"profile">> /\ session.open)
      <4>1. \A m : Has(Append(session.up, <<"profile">>), m) <=> Has(session.up, m) \/ <<"profile">> = m
        BY <2>u, Appending
      <4> QED
        BY <3>1, <4>1
    <3>5. Once(r.up, <<"profile">>) /\ Once(r.up, ToBind)
      <4>1. Once(session.up, <<"profile">>) /\ Once(session.up, ToBind)
        BY <1>9, <2>8 DEF ProfileOK
      <4>2. Once(Append(session.up, <<"profile">>), <<"profile">>) /\ Once(Append(session.up, <<"profile">>), ToBind)
        BY <2>u, <3>3, <4>1, Appending
      <4> QED
        BY <3>1, <4>1, <4>2
    <3>6. session.open => op.serial <= serial
      BY <1>9, <2>8, <3>2 DEF ProfileOK
    <3>7. session.bound # None => cards[session.bound].peer = Target
      BY <1>9, <2>8, <3>2, AudioAssumption DEF ProfileOK
    <3>8. session.bound # None => \A p \in Peers : Has(d, <<"info", p>>) => cards[session.bound].peer = p
      BY <1>4, <1>9, <2>8 DEF ProfileOK
    <3>9. ~Has(d, Announced) /\ ~Has(r.up, ToBind) /\ ~Has(r.up, <<"default">>)
      BY <1>4, <2>u, <3>3, <3>4
    <3> QED
      BY <1>1, <1>7, <1>a, <2>1, <2>2, <2>4, <2>6, <2>7, <2>10, <3>1, <3>3, <3>5, <3>6, <3>7, <3>8, <3>9
      DEF ProfileOK, Connection
  <2> QED
    BY <2>1, <2>11, <2>12, <2>13
<1> QED
  BY <1>1, <1>8, <1>9 DEF Active

-----------------------------------------------------------------------------
(* The first announcements are finitely many and tell of nobody's card.    *)
LEMMA ObjectsFacts ==
  ASSUME AudioIInv
  PROVE  /\ IsFiniteSet(Objects) /\ Objects \subseteq Events
         /\ Announced \in Objects => op.serial <= serial
         /\ \A p : <<"info", p>> \notin Objects
<1> DEFINE used == {i \in Ids : cards[i] # None}
           A == IF metadata THEN {<<"metadata">>} ELSE {}
           B == {<<"device", i, cards[i].serial>> : i \in used}
           C == {<<"node", i, cards[i].serial, cards[i].peer>> : i \in used}
           f == [i \in used |-> <<"device", i, cards[i].serial>>]
           g == [i \in used |-> <<"node", i, cards[i].serial, cards[i].peer>>]
<1>1. Objects = (A \cup B) \cup C
  BY DEF Objects
<1>2. IsFiniteSet(used)
  BY AudioAssumption, FS_Subset
<1>3. f \in Surjection(used, B) /\ g \in Surjection(used, C)
  BY DEF Surjection
<1>4. IsFiniteSet(A)
  BY FS_EmptySet, FS_Singleton
<1>5. IsFiniteSet(Objects)
  <2>1. IsFiniteSet(B) /\ IsFiniteSet(C)
    BY <1>2, <1>3, FS_Surjection
  <2> HIDE DEF A, B, C
  <2>2. IsFiniteSet(A \cup B)
    BY <1>4, <2>1, FS_Union
  <2> QED
    BY <1>1, <2>1, <2>2, FS_Union
<1>6. \A i \in used : cards[i] \in Cards /\ cards[i].serial \in Nat /\ cards[i].peer \in Peers /\ cards[i].serial <= serial
  BY Facts DEF Cards
<1>7. Objects \subseteq Events
  BY <1>1, <1>6 DEF Events
<1>8. Announced \in Objects => op.serial <= serial
  BY <1>1, <1>6 DEF Announced
<1>9. \A p : <<"info", p>> \notin Objects
  BY <1>1
<1> QED
  BY <1>5, <1>7, <1>8, <1>9

(* A connection is opened.                                                 *)
LEMMA OpenKeeps ==
  ASSUME AudioIInv, Open
  PROVE  Connection'
<1>1. PICK q \in InSomeOrder(Objects) : session' = [Closed EXCEPT !.open = TRUE, !.down = q]
  BY DEF Open
<1>2. op.step \in Active /\ session = Closed /\ UNCHANGED <<cards, serial, op, written>>
  BY DEF Open, Active, pipewire
<1>3. Cardinality(Objects) \in Nat
  BY ObjectsFacts, FS_CardinalityType
<1> DEFINE n == Cardinality(Objects)
<1>4. q \in [1 .. n -> Objects] /\ \A j, k \in 1 .. n : q[j] = q[k] => j = k
  BY DEF InSomeOrder
<1> HIDE DEF n
<1>5. n \in Nat
  BY <1>3 DEF n
<1>6. q \in Seq(Objects) /\ Len(q) = n
  BY <1>4, <1>5
<1>7. q \in Seq(Events)
  BY <1>6, ObjectsFacts
<1>8. /\ Once(q, Announced)
      /\ \A e : Has(q, e) => e \in Objects
  BY <1>4, <1>6 DEF Once, Has
<1>9. /\ Has(q, Announced) => op.serial <= serial
      /\ \A p : ~Has(q, <<"info", p>>)
  BY <1>8, ObjectsFacts
<1>10. /\ session' \in Sessions(op.id) /\ session'.open /\ session'.down = q /\ session'.up = <<>>
       /\ session'.bound = None /\ ~session'.wrote /\ ~session'.lost /\ session'.done = "none"
  <2>1. Closed \in Sessions(op.id)
    BY <1>2, Facts
  <2>2. [Closed EXCEPT !.open = TRUE, !.down = q] \in Sessions(op.id)
    BY <2>1, <1>7 DEF Sessions
  <2> QED
    BY <1>1, <2>2 DEF Closed
<1>11. SessionOK' /\ OutcomeOK(session)' /\ WrittenOK'
  BY <1>2, <1>10 DEF SessionOK, OutcomeOK, WrittenOK, Active
<1>12. RouteOK'
  BY <1>2, <1>10, Empty DEF RouteOK, Closed, AudioIInv, Connection
<1>13. ASSUME op.step = "profile" PROVE ProfileOK'
  <2>1. written = <<>>
    BY <1>2, <1>13 DEF ProfileOK, Closed, AudioIInv, Connection
  <2>2. ~Told(session')
    BY <1>9, <1>10 DEF Told
  <2>3. Announced' = Announced /\ ToBind' = ToBind
    BY <1>2 DEF Announced, ToBind
  <2> QED
    BY <1>2, <1>8, <1>9, <1>10, <2>1, <2>2, <2>3, Empty DEF ProfileOK
<1>14. ASSUME op.step # "profile" PROVE ProfileOK'
  BY <1>2, <1>14 DEF ProfileOK
<1> QED
  BY <1>11, <1>12, <1>13, <1>14 DEF Connection

(* The timer fires.                                                        *)
LEMMA ExpireKeeps ==
  ASSUME AudioIInv, Expire
  PROVE  Connection'
<1>1. session' = [session EXCEPT !.expired = TRUE] /\ UNCHANGED <<cards, serial, op, written>>
  BY DEF Expire, pipewire
<1>2. /\ session' \in Sessions(op.id) /\ session'.open = session.open /\ session'.down = session.down
      /\ session'.up = session.up /\ session'.bound = session.bound /\ session'.wrote = session.wrote
      /\ session'.lost = session.lost /\ session'.done = session.done /\ session'.meta = session.meta
  BY <1>1, Facts DEF Sessions
<1>3. Announced' = Announced /\ ToBind' = ToBind /\ Told(session') = Told(session)
  BY <1>1, <1>2 DEF Announced, ToBind, Told
<1>4. SessionOK' /\ OutcomeOK(session)' /\ WrittenOK' /\ RouteOK'
  BY <1>1, <1>2 DEF AudioIInv, Connection, SessionOK, Idle, OutcomeOK, WrittenOK, RouteOK
<1>5. ProfileOK'
  BY <1>1, <1>2, <1>3 DEF AudioIInv, Connection, ProfileOK
<1> QED
  BY <1>4, <1>5 DEF Connection

(* A connection that is dropped has nothing.                               *)
LEMMA ClosedFacts ==
  /\ \A i : Closed \in Sessions(i)
  /\ Idle(Closed) /\ ~Closed.wrote /\ ~Closed.lost /\ Closed.done = "none" /\ ~Closed.meta
<1>1. Nothing \in [configured : Values, effective : Values]
  BY DEF Nothing, Values
<1>2. \A i : <<>> \in Seq(Events) /\ <<>> \in Seq(Messages(i))
  OBVIOUS
<1> QED
  BY <1>1, <1>2 DEF Closed, Sessions, Idle

(* An operation leaves a step with its connection dropped.                 *)
LEMMA ReturnKeeps ==
  ASSUME AudioIInv, Return
  PROVE  Connection' /\ OpTypes'
<1>1. /\ op' = [op EXCEPT !.step = StepAfter(Outcome)] /\ session' = Closed /\ session # Closed
      /\ UNCHANGED <<cards, serial, written>>
  BY DEF Return, pipewire
<1>2. op.step \in Active \/ op.step \notin Active
  OBVIOUS
<1>3. StepAfter(Outcome) \in {"ok", "failed", "reprobe"} /\ (StepAfter(Outcome) = "reprobe" => op.step = "profile")
  BY DEF StepAfter, Outcome
<1> DEFINE n == StepAfter(Outcome)
<1> HIDE DEF n
<1>4. op'.step = n /\ op'.id = op.id /\ op'.serial = op.serial /\ n \notin Active
  BY <1>1, <1>3 DEF n, Active, AudioIInv, OpTypes
<1>5. OpTypes'
  BY <1>1, <1>3 DEF n, AudioIInv, OpTypes, Steps, Active
<1>6. WrittenOK'
  <2>1. n = "reprobe" => written \in {<<>>, <<Target>>}
    BY <1>3 DEF n, AudioIInv, Connection, ProfileOK
  <2>2. written \in {<<>>, <<Target>>, <<"default">>, Append(<<Target>>, "default")}
    BY DEF AudioIInv, Connection, WrittenOK, ProfileOK, RouteOK, OpTypes, Steps, Active
  <2> QED
    BY <1>1, <1>3, <1>4, <2>1, <2>2 DEF WrittenOK, n
<1>7. SessionOK' /\ OutcomeOK(session)'
  BY <1>1, <1>4, ClosedFacts DEF SessionOK, OutcomeOK, Idle
<1>8. ProfileOK' /\ RouteOK'
  BY <1>4 DEF ProfileOK, RouteOK, Active
<1> QED
  BY <1>5, <1>6, <1>7, <1>8 DEF Connection

(* Nothing is connected between the steps of an operation.                 *)
LEMMA StepsKeep ==
  ASSUME AudioIInv, Begin \/ ProbeFinds \/ ProbeFails \/ Retry
  PROVE  Connection' /\ OpTypes'
<1>1. UNCHANGED <<cards, serial, session, written>> /\ op.step \in {"idle", "probe", "reprobe", "retry"}
  BY DEF Begin, ProbeFinds, ProbeFails, Retry, pipewire
<1>2. /\ OpTypes'
      /\ op'.step \in {"probe", "retry"} => op.step \in {"idle", "probe", "retry"}
      /\ op'.step = "profile" => op.step = "probe"
      /\ op'.step # "idle"
  <2>1. CASE Begin
    <3>1. \E k \in {"policy", "client"}, w \in SUBSET {"profile", "route"} :
            op' = [op EXCEPT !.kind = k, !.wants = w, !.step = "probe"]
      BY <2>1 DEF Begin
    <3>2. op.step = "idle"
      BY <2>1 DEF Begin
    <3> QED
      BY <3>1, <3>2 DEF AudioIInv, OpTypes, Steps, Active
  <2>2. CASE ProbeFinds
    <3>1. PICK i \in Owned(Target) :
            op' = [op EXCEPT !.step = AfterProbe(cards[i]), !.id = i, !.serial = cards[i].serial]
      BY <2>2 DEF ProbeFinds
    <3> DEFINE n == AfterProbe(cards[i])
    <3>2. n \in {"profile", "ok", "reprobe", "route"} /\ (n = "profile" => op.step = "probe")
      BY DEF AfterProbe
    <3>3. i \in Ids /\ cards[i].serial \in Nat
      BY Facts DEF Owned, Cards
    <3> HIDE DEF n
    <3>4. op' = [op EXCEPT !.step = n, !.id = i, !.serial = cards[i].serial]
      BY <3>1 DEF n
    <3> QED
      BY <3>2, <3>3, <3>4 DEF AudioIInv, OpTypes, Steps, Active
  <2>3. CASE ProbeFails
    BY <2>3 DEF ProbeFails, AudioIInv, OpTypes, Steps, Active
  <2>4. CASE Retry
    <3>1. op.step = "retry" /\ op.tries \in Nat /\ op.tries + 1 \in Nat
      BY <2>4 DEF Retry, AudioIInv, OpTypes
    <3>2. CASE op' = [op EXCEPT !.step = "probe", !.tries = op.tries + 1]
      BY <3>1, <3>2 DEF AudioIInv, OpTypes, Steps, Active
    <3>3. CASE op' = [op EXCEPT !.step = "failed"]
      BY <3>1, <3>3 DEF AudioIInv, OpTypes, Steps, Active
    <3> QED
      BY <2>4, <3>2, <3>3 DEF Retry
  <2> QED
    BY <2>1, <2>2, <2>3, <2>4
<1>3. Idle(session) /\ ~session.meta
  BY <1>1 DEF AudioIInv, Connection, SessionOK, Idle, Active
<1>4. session \in Sessions(op'.id)
  <2>1. session \in Sessions(op.id) /\ session.up = <<>> /\ <<>> \in Seq(Messages(op'.id))
    BY <1>3, Facts DEF Idle
  <2> QED
    BY <2>1 DEF Sessions
<1>5. SessionOK' /\ OutcomeOK(session)'
  BY <1>1, <1>3, <1>4 DEF SessionOK, OutcomeOK, Idle, AudioIInv, Connection
<1>6. written \in {<<>>, <<Target>>} /\ (op.step # "reprobe" => written = <<>>)
  BY <1>1 DEF AudioIInv, Connection, WrittenOK
<1>7. WrittenOK'
  BY <1>1, <1>2, <1>6 DEF WrittenOK
<1>8. ~Told(session)
  BY <1>3, Empty DEF Told, Idle
<1>9. RouteOK' /\ ProfileOK'
  BY <1>1, <1>2, <1>3, <1>6, <1>8, Empty DEF RouteOK, ProfileOK, Idle, Told
<1> QED
  BY <1>2, <1>5, <1>7, <1>9 DEF Connection

(* Types are kept by what PipeWire does by itself.                         *)
LEMMA OthersTypes ==
  ASSUME AudioIInv,
         \/ \E i \in Ids : CardVanishes(i)
         \/ \E i \in Ids, f \in Profiles : ProfileChanges(i, f)
         \/ \E p \in Peers : DefaultChanges(p)
         \/ DefaultFollows
         \/ ServerRestarts
         \/ SessionManagerStarts
         \/ SessionManagerStops
  PROVE  PipeWireTypes'
<1> USE DEF AudioIInv, PipeWireTypes
<1>1. ASSUME NEW i \in Ids, CardVanishes(i) PROVE PipeWireTypes'
  BY <1>1 DEF CardVanishes
<1>2. ASSUME NEW i \in Ids, NEW f \in Profiles, ProfileChanges(i, f) PROVE PipeWireTypes'
  <2>1. /\ cards[i] # None /\ cards' = [cards EXCEPT ![i].profile = f]
        /\ UNCHANGED <<metadata, default, serial>>
    BY <1>2 DEF ProfileChanges
  <2>2. cards'[i] = [cards[i] EXCEPT !.profile = f] /\ \A j \in Ids \ {i} : cards'[j] = cards[j]
    BY <2>1
  <2>3. cards'[i] \in Cards /\ cards'[i].serial = cards[i].serial
    BY <2>1, <2>2 DEF Cards
  <2>4. cards' \in [Ids -> {None} \cup Cards]
    BY <2>1, <2>2, <2>3
  <2>5. \A j \in Ids : cards'[j] # None => cards'[j].serial <= serial
    BY <2>1, <2>2, <2>3
  <2> QED
    BY <2>1, <2>4, <2>5
<1>3. ASSUME NEW p \in Peers, DefaultChanges(p) PROVE PipeWireTypes'
  BY <1>3 DEF DefaultChanges, Values
<1>4. ASSUME DefaultFollows PROVE PipeWireTypes'
  BY <1>4 DEF DefaultFollows
<1>5. ASSUME ServerRestarts PROVE PipeWireTypes'
  BY <1>5 DEF ServerRestarts, Nothing, Values
<1>6. ASSUME SessionManagerStarts PROVE PipeWireTypes'
  BY <1>6 DEF SessionManagerStarts
<1>7. ASSUME SessionManagerStops PROVE PipeWireTypes'
  BY <1>7 DEF SessionManagerStops, Nothing, Values
<1> QED
  BY <1>1, <1>2, <1>3, <1>4, <1>5, <1>6, <1>7

-----------------------------------------------------------------------------
(***************************************************************************)
(* For any peers, ids, changes, restarts and retries, AudioIInv always     *)
(* holds.                                                                  *)
(***************************************************************************)
THEOREM AudioInvariant == AudioSpec => []AudioIInv
<1>1. AudioIInv /\ [AudioNext]_audioVars => AudioIInv'
  <2> SUFFICES ASSUME AudioIInv, [AudioNext]_audioVars PROVE AudioIInv'
    OBVIOUS
  <2>o. ASSUME UNCHANGED op PROVE OpTypes'
    BY <2>o DEF AudioIInv, OpTypes
  <2>w. ASSUME UNCHANGED pipewire PROVE PipeWireTypes'
    BY <2>w DEF AudioIInv, PipeWireTypes, pipewire
  <2>1. CASE UNCHANGED audioVars
    BY <2>1 DEF audioVars, AudioIInv, PipeWireTypes, OpTypes, Connection, SessionOK, ProfileOK, RouteOK,
                WrittenOK, Announced, ToBind
  <2>2. ASSUME NEW i \in Ids, NEW p \in Peers, CardAppears(i, p) PROVE AudioIInv'
    <3>1. UNCHANGED op
      BY <2>2 DEF CardAppears, Change
    <3> QED
      BY <2>2, <2>o, <3>1, CardAppearsKeeps DEF AudioIInv
  <2>3. ASSUME NEW i \in Ids, CardVanishes(i) PROVE AudioIInv'
    <3>1. UNCHANGED op
      BY <2>3 DEF CardVanishes, Change
    <3> QED
      BY <2>3, <2>o, <3>1, CardVanishesKeeps, OthersTypes DEF AudioIInv
  <2>4. ASSUME \/ \E i \in Ids, f \in Profiles : ProfileChanges(i, f)
               \/ \E p \in Peers : DefaultChanges(p)
               \/ DefaultFollows
               \/ SessionManagerStarts
               \/ SessionManagerStops
        PROVE AudioIInv'
    <3>1. UNCHANGED op
      BY <2>4 DEF ProfileChanges, DefaultChanges, DefaultFollows, SessionManagerStarts,
         SessionManagerStops, Change
    <3> QED
      BY <2>4, <2>o, <3>1, OthersChangeKeeps, OthersTypes DEF AudioIInv
  <2>5. CASE ServerRestarts
    <3>1. UNCHANGED op
      BY <2>5 DEF ServerRestarts
    <3> QED
      BY <2>5, <2>o, <3>1, ServerRestartsKeeps, OthersTypes DEF AudioIInv
  <2>6. CASE ServerReads
    <3>1. UNCHANGED op
      BY <2>6 DEF ServerReads
    <3> QED
      BY <2>6, <2>o, <3>1, ServerReadsKeeps DEF AudioIInv
  <2>7. CASE Begin \/ ProbeFinds \/ ProbeFails \/ Retry
    <3>1. UNCHANGED pipewire
      BY <2>7 DEF Begin, ProbeFinds, ProbeFails, Retry
    <3> QED
      BY <2>7, <2>w, <3>1, StepsKeep DEF AudioIInv
  <2>8. CASE Open \/ Dispatch \/ Expire
    <3>1. UNCHANGED <<pipewire, op>>
      BY <2>8 DEF Open, Dispatch, Expire
    <3> QED
      BY <2>8, <2>o, <2>w, <3>1, OpenKeeps, DispatchKeeps, ExpireKeeps DEF AudioIInv
  <2>9. CASE Return
    <3>1. UNCHANGED pipewire
      BY <2>9 DEF Return
    <3> QED
      BY <2>9, <2>w, <3>1, ReturnKeeps DEF AudioIInv
  <2> QED
    BY <2>1, <2>2, <2>3, <2>4, <2>5, <2>6, <2>7, <2>8, <2>9 DEF AudioNext, Operation
<1> QED
  BY <1>1, InitAudioIInv, PTL DEF AudioSpec

(***************************************************************************)
(* For any number of cards, ids, changes and restarts of PipeWire,         *)
(* WritesOnceToTarget always holds: the profile of another peer's card is  *)
(* never written, and a profile and a default are written at most once by  *)
(* an operation, however ids and serials are taken again between the       *)
(* probe, the announcement, the bind and the write.                        *)
(***************************************************************************)
THEOREM WritesReachTheTarget == AudioSpec => []WritesOnceToTarget
<1>1. AudioIInv => WritesOnceToTarget
  <2> SUFFICES ASSUME AudioIInv PROVE WritesOnceToTarget
    OBVIOUS
  <2>1. written \in {<<>>, <<Target>>, <<"default">>, Append(<<Target>>, "default")}
    BY DEF AudioIInv, Connection, WrittenOK, ProfileOK, RouteOK, OpTypes, Steps, Active
  <2>2. Target # "default"
    BY AudioAssumption
  <2> DEFINE q == Append(<<Target>>, "default")
  <2>3. DOMAIN q = 1 .. 2 /\ q[1] = Target /\ q[2] = "default"
    OBVIOUS
  <2> HIDE DEF q
  <2>4. \A k \in DOMAIN q : k = 1 \/ k = 2
    BY <2>3
  <2>5. CASE written = q
    BY <2>2, <2>3, <2>4, <2>5 DEF WritesOnceToTarget
  <2>6. CASE written \in {<<>>, <<Target>>, <<"default">>}
    BY <2>6 DEF WritesOnceToTarget
  <2> QED
    BY <2>1, <2>5, <2>6 DEF q
<1> QED
  BY <1>1, AudioInvariant, PTL

(***************************************************************************)
(* AudioTypeOK always holds, for any peers, ids, changes and restarts: an  *)
(* id names no card or a whole one, and what was written is a peer's       *)
(* profile or the default.                                                 *)
(***************************************************************************)
THEOREM AudioTypeCorrect == AudioSpec => []AudioTypeOK
<1>1. AudioIInv => AudioTypeOK
  <2> SUFFICES ASSUME AudioIInv PROVE AudioTypeOK
    OBVIOUS
  <2>1. written \in {<<>>, <<Target>>, <<"default">>, Append(<<Target>>, "default")}
    BY DEF AudioIInv, Connection, WrittenOK, ProfileOK, RouteOK, OpTypes, Steps, Active
  <2>2. written \in Seq(Peers \cup {"default"})
    <3> DEFINE S == Peers \cup {"default"}
    <3>1. Target \in S /\ "default" \in S
      BY AudioAssumption
    <3> HIDE DEF S
    <3>2. \A x, y \in S : <<>> \in Seq(S) /\ <<x>> \in Seq(S) /\ Append(<<x>>, y) \in Seq(S)
      OBVIOUS
    <3> QED
      BY <2>1, <3>1, <3>2, Zenon DEF S
  <2>3. op.step \in {"idle", "probe", "retry", "reprobe", "profile", "route", "ok", "failed"}
    BY DEF AudioIInv, OpTypes, Steps, Active
  <2>4. session.done \in {"none", "ok", "failed"}
    BY DEF AudioIInv, Connection, SessionOK, Sessions
  <2>5. /\ cards \in [Ids -> {None} \cup Cards]
        /\ metadata \in BOOLEAN
        /\ default \in [configured : Peers \cup {None}, effective : Peers \cup {None}]
    BY DEF AudioIInv, PipeWireTypes, Values
  <2> QED
    BY <2>2, <2>3, <2>4, <2>5 DEF AudioTypeOK
<1> QED
  BY <1>1, AudioInvariant, PTL

(***************************************************************************)
(* OkWasSeen, for any number of events: a step of an operation ends well   *)
(* only if its change was sent on that connection and the card was not     *)
(* seen to go away.                                                        *)
(***************************************************************************)
THEOREM OkMeansSeen == AudioSpec => OkWasSeen
<1> DEFINE Seen == op.step \in {"profile", "route"} /\ op'.step \in {"ok", "reprobe"}
                     => session.wrote /\ ~session.lost
<1>1. AudioIInv /\ [AudioNext]_audioVars => [Seen]_audioVars
  <2> SUFFICES ASSUME AudioIInv, AudioNext, op.step \in {"profile", "route"}, op'.step \in {"ok", "reprobe"}
               PROVE  session.wrote /\ ~session.lost
    OBVIOUS
  <2>1. CASE Return
    <3>1. op' = [op EXCEPT !.step = StepAfter(Outcome)]
      BY <2>1 DEF Return
    <3>2. op'.step = StepAfter(Outcome)
      BY <3>1 DEF AudioIInv, OpTypes
    <3>3. Outcome = "ok"
      BY <3>2 DEF StepAfter, Outcome
    <3>4. OutcomeOK(session)
      BY DEF AudioIInv, Connection
    <3> QED
      BY <3>3, <3>4 DEF Outcome, OutcomeOK
  <2>2. CASE Begin \/ ProbeFinds \/ ProbeFails \/ Retry
    BY <2>2 DEF Begin, ProbeFinds, ProbeFails, Retry
  <2>3. ASSUME UNCHANGED op PROVE FALSE
    BY <2>3
  <2> QED
    BY <2>1, <2>2, <2>3 DEF AudioNext, Operation, CardAppears, CardVanishes, ProfileChanges, DefaultChanges, DefaultFollows,
       ServerRestarts, SessionManagerStarts, SessionManagerStops, ServerReads, Open, Dispatch, Expire, Change
<1>2. [][Seen]_audioVars => OkWasSeen
  BY PTL DEF OkWasSeen
<1> QED
  BY <1>1, <1>2, AudioInvariant, PTL DEF AudioSpec
=============================================================================
