---------------------------- MODULE FastPairLinks ----------------------------
(* The Message Stream of ONE Fast Pair peer (src/src/fast_pair.rs,           *)
(* fast_pair/retry.rs, fast_pair/commands.rs).                               *)
(*                                                                           *)
(* Five kinds of task share one ConnectionState behind a mutex: the          *)
(* reconciler, the connect task of each attempt, the handler of RFCOMM       *)
(* streams BlueZ hands over, the reader of each stream, and the monitor that *)
(* reports connection changes.  Authenticated commands share one reservation *)
(* slot per (peer, group, code).  Every lock section is one action; what a   *)
(* task does between two sections is a program counter.                      *)
(*                                                                           *)
(* Attempts, streams and commands are numbered without end in the code.  A   *)
(* number here is free again once the task that carried it is gone, so the   *)
(* runs bound how many live at the same time and not how many there are.     *)
EXTENDS Naturals, Sequences

CONSTANTS
  MaxAttempts,   \* bound: connect tasks alive at once
  MaxReaders,    \* bound: reader tasks alive at once
  MaxCommands,   \* bound: callers of one command key at once
  MaxNotices,    \* bound: connection changes the monitor has yet to handle
  QuickRetries,  \* BUSY_RETRY_MS.len(), 6 in the code
  UnknownLimit   \* PSM readings "unknown" before L2CAP is given up, 3 in the code

ASSUME FastPairBounds ==
  /\ MaxAttempts \in Nat /\ MaxReaders \in Nat /\ MaxNotices \in Nat
  /\ MaxCommands \in Nat /\ QuickRetries \in Nat /\ UnknownLimit \in Nat

VARIABLES
  peer,      \* is the peer connected, as BlueZ would answer
  notices,   \* connection changes the monitor has not handled yet
  recon,     \* the reconciler: "idle", what it read ("connected", "gone"), or
             \* "unreported": the report of a gone peer has been removed
  link,      \* links[peer]: kind, and the attempt a pending one waits for
  retry,     \* PeerRetry: deadline pending, quick retries used, PSM readings
  connects,  \* the connect task of each attempt
  readers,   \* the reader task of each stream
  handler,   \* the failed hand-over whose teardown the RFCOMM handler runs, 0 for none
  writer,    \* writers[peer]: the stream whose sender is installed, 0 for none
  runtime,   \* the streams that contributed to runtime[peer]; {}: no entry
  report,    \* the stream whose battery report is shown, 0 for none
  slot,      \* the pending command's generation, 0 when the key is vacant
  commands   \* the state of each command

vars == <<peer, notices, recon, link, retry, connects,
          readers, handler, writer, runtime, report, slot, commands>>

linkVars == <<link, retry, connects>>
streamVars == <<readers, handler, writer, runtime, report>>
commandVars == <<slot, commands>>
peerVars == <<peer, notices>>

Attempts == 1 .. MaxAttempts
Readers == 1 .. MaxReaders
Commands == 1 .. MaxCommands
Transports == {"rfcomm", "l2cap"}

\* The lowest free number: which one is taken makes no difference.
Free(table, n) ==
  table[n] = "absent" /\ \A m \in DOMAIN table : m < n => table[m] # "absent"

NoLink == [kind |-> "none", attempt |-> 0, stale |-> FALSE]
Connecting(a) == [kind |-> "connecting", attempt |-> a, stale |-> FALSE]
Connected == [kind |-> "connected", attempt |-> 0, stale |-> FALSE]

\* psm counts the "unknown" readings; at UnknownLimit, or at once when the PSM
\* is reported unavailable, L2CAP is given up for the session.
NoRetry == [waiting |-> FALSE, busy |-> 0, psm |-> 0]
Failed(r) == [r EXCEPT !.waiting = TRUE]

Init ==
  /\ peer = TRUE /\ notices = <<>> /\ recon = "idle"
  /\ link = NoLink /\ retry = NoRetry
  /\ connects = [a \in Attempts |-> "absent"]
  /\ readers = [r \in Readers |-> "absent"]
  /\ handler = 0 /\ writer = 0 /\ runtime = {} /\ report = 0
  /\ slot = 0 /\ commands = [c \in Commands |-> "absent"]

-----------------------------------------------------------------------------
(* The outside: the peer, time, BlueZ. *)

PeerChanges ==
  /\ Len(notices) < MaxNotices
  /\ peer' = ~peer /\ notices' = Append(notices, ~peer)
  /\ UNCHANGED <<recon, linkVars, streamVars, commandVars>>

\* A retry deadline passes: RetryPolicy::ready and clear_due.
DeadlinePasses ==
  /\ retry.waiting
  /\ retry' = [retry EXCEPT !.waiting = FALSE]
  /\ UNCHANGED <<peerVars, recon, link, connects, streamVars, commandVars>>

\* STALE_CONNECT elapses for a pending attempt.
AttemptGrowsStale ==
  /\ link.kind = "connecting" /\ ~link.stale
  /\ link' = [link EXCEPT !.stale = TRUE]
  /\ UNCHANGED <<peerVars, recon, retry, connects, streamVars, commandVars>>

-----------------------------------------------------------------------------
(* ConnectionState *)

(* Mutant: a disconnection forgets a connected link too.                 *)
note_change_forgets(connected) ==
  /\ retry' = NoRetry
  /\ link' = IF ~connected THEN NoLink ELSE link

\* A new physical session retires a pending attempt and the retry record; a
\* live reader still owns Connected and its teardown.
note_connection_change(connected) ==
  /\ retry' = NoRetry
  /\ link' = IF ~connected /\ link.kind = "connecting" THEN NoLink ELSE link

Notice ==
  /\ notices # <<>>
  /\ note_connection_change(Head(notices))
  /\ notices' = Tail(notices)
  /\ UNCHANGED <<peer, recon, connects, streamVars, commandVars>>

\* reconcile_device reads Device1.Connected; the answer is old when it is used.
ReconcileReads ==
  /\ recon = "idle"
  /\ recon' = IF peer THEN "connected" ELSE "gone"
  /\ UNCHANGED <<peerVars, linkVars, streamVars, commandVars>>

\* A peer that is gone loses its battery report, then its pending attempt and
\* its retry record: two locks, one after the other.
ReconcileGone ==
  /\ recon = "gone" /\ recon' = "unreported"
  /\ report' = 0
  /\ UNCHANGED <<peerVars, linkVars, readers, handler, writer, runtime, commandVars>>

ReconcileForgets ==
  /\ recon = "unreported" /\ recon' = "idle"
  /\ note_connection_change(FALSE)
  /\ UNCHANGED <<peerVars, connects, streamVars, commandVars>>

\* No services known, no usable transport, or GATT not resolved yet.
ReconcileSkips ==
  /\ recon = "connected" /\ recon' = "idle"
  /\ UNCHANGED <<peerVars, linkVars, streamVars, commandVars>>

Expired == link.kind = "connecting" /\ link.stale

CanBegin(transport) ==
  /\ link = NoLink /\ ~retry.waiting
  /\ transport = "l2cap" => retry.psm < UnknownLimit

(* Mutant: a pending attempt never expires.                              *)
begin_without_expiry(transport) ==
  \/ /\ CanBegin(transport)
     /\ \E a \in Attempts : /\ Free(connects, a)
                            /\ link' = Connecting(a)
                            /\ connects' = [connects EXCEPT ![a] = transport]
     /\ UNCHANGED retry
  \/ ~CanBegin(transport) /\ UNCHANGED linkVars

begin(transport) ==
  \/ \* the expiry backs off, so nothing is begun in the same call
     Expired /\ link' = NoLink /\ retry' = Failed(retry) /\ UNCHANGED connects
  \/ /\ CanBegin(transport)
     /\ \E a \in Attempts : /\ Free(connects, a)
                            /\ link' = Connecting(a)
                            /\ connects' = [connects EXCEPT ![a] = transport]
     /\ UNCHANGED retry
  \/ ~Expired /\ ~CanBegin(transport) /\ UNCHANGED linkVars

\* ensure_connected: begin, and the connect task is spawned with its attempt.
ReconcileBegins ==
  /\ recon = "connected" /\ recon' = "idle"
  /\ \E t \in Transports : begin(t)
  /\ UNCHANGED <<peerVars, streamVars, commandVars>>

is_current_attempt(a) == link.kind = "connecting" /\ link.attempt = a

mark_connected == link' = Connected /\ retry' = [retry EXCEPT !.waiting = FALSE]

NewReader(r) == Free(readers, r)

\* ConnectProfile returned: its stream, if any, comes through the handler.
ProfileConnected(a) ==
  /\ connects[a] = "rfcomm"
  /\ connects' = [connects EXCEPT ![a] = "absent"]
  /\ UNCHANGED <<peerVars, recon, link, retry, streamVars, commandVars>>

\* The L2CAP socket connected: only the current attempt may own the link.
L2capConnected(a) ==
  /\ connects[a] = "l2cap"
  /\ connects' = [connects EXCEPT ![a] = "absent"]
  /\ \/ /\ is_current_attempt(a) /\ mark_connected
        /\ \E r \in Readers : NewReader(r) /\ readers' = [readers EXCEPT ![r] = "spawned"]
     \/ ~is_current_attempt(a) /\ UNCHANGED <<link, retry, readers>>
  /\ UNCHANGED <<peerVars, recon, handler, writer, runtime, report, commandVars>>

\* connect_l2cap notes an unusable PSM in a lock section of its own.
PsmRefused(a) ==
  /\ connects[a] = "l2cap"
  /\ connects' = [connects EXCEPT ![a] = "refused"]
  /\ \/ retry' = [retry EXCEPT !.psm = UnknownLimit]
     \/ retry' = [retry EXCEPT !.psm = IF @ < UnknownLimit THEN @ + 1 ELSE @]
  /\ UNCHANGED <<peerVars, recon, link, streamVars, commandVars>>

\* RetryPolicy::connection_failed: a bounded number of quick retries while
\* BlueZ is busy, the normal back-off otherwise.
connection_failed(busy) ==
  retry' = IF busy /\ retry.busy < QuickRetries
             THEN [retry EXCEPT !.waiting = TRUE, !.busy = @ + 1]
             ELSE Failed(retry)

ConnectFails(a) ==
  /\ connects[a] \in {"rfcomm", "l2cap", "refused"}
  /\ connects' = [connects EXCEPT ![a] = "absent"]
  /\ \E busy \in BOOLEAN :
       /\ busy => connects[a] = "rfcomm"
       /\ IF is_current_attempt(a)
            THEN link' = NoLink /\ connection_failed(busy)
            ELSE UNCHANGED <<link, retry>>
  /\ UNCHANGED <<peerVars, recon, streamVars, commandVars>>

-----------------------------------------------------------------------------
(* Streams *)

\* BlueZ hands over an RFCOMM stream, for an attempt or for another client's
\* ConnectProfile.  When accept() fails the handler runs the teardown itself
\* and takes no other stream until that is done.
StreamArrives ==
  /\ peer /\ handler = 0
  /\ link.kind # "connected" /\ mark_connected
  /\ \E r \in Readers, accepted \in BOOLEAN :
       /\ NewReader(r)
       /\ readers' = [readers EXCEPT ![r] = IF accepted THEN "spawned" ELSE "closed"]
       /\ handler' = IF accepted THEN 0 ELSE r
  /\ UNCHANGED <<peerVars, recon, connects, writer, runtime, report, commandVars>>

Step(r, from, to) == readers[r] = from /\ readers' = [readers EXCEPT ![r] = to]

\* install_writer: the sender under the mutex, then the runtime entry.
InstallWriter(r) ==
  /\ Step(r, "spawned", "wired")
  /\ writer' = r
  /\ UNCHANGED <<peerVars, recon, linkVars, handler, runtime, report, commandVars>>

InstallRuntime(r) ==
  /\ Step(r, "wired", "running")
  /\ runtime' = runtime \cup {r}
  /\ UNCHANGED <<peerVars, recon, linkVars, handler, writer, report, commandVars>>

update_runtime(r) == runtime' = runtime \cup {r} /\ UNCHANGED report
update_report(r) == report' = r /\ UNCHANGED runtime

\* apply_frame: session nonce, model, noise control...; the battery report.
FrameApplied(r) ==
  /\ readers[r] = "running"
  /\ update_runtime(r) \/ update_report(r)
  /\ UNCHANGED <<peerVars, recon, linkVars, readers, handler, writer, commandVars>>

\* apply_acknowledgement: an ACK or NAK resolves whatever holds the key.
Acknowledged(r) ==
  /\ readers[r] = "running" /\ slot # 0
  /\ commands' = [commands EXCEPT ![slot] = "settled"] /\ slot' = 0
  /\ UNCHANGED <<peerVars, recon, linkVars, streamVars>>

StreamCloses(r) ==
  /\ Step(r, "running", "closed")
  /\ UNCHANGED <<peerVars, recon, linkVars, handler, writer, runtime, report, commandVars>>

\* connection_ended, step 1: ConnectionState::ended.  A session of a minute
\* forgets the retry record before the back-off.
Release(r) ==
  /\ Step(r, "closed", "released")
  /\ link' = NoLink /\ writer' = 0
  /\ \E minute \in BOOLEAN : retry' = Failed(IF minute THEN NoRetry ELSE retry)
  /\ UNCHANGED <<peerVars, recon, connects, handler, runtime, report, commandVars>>

\* Step 2: pending_commands.disconnect.
DisconnectCommands(r) ==
  /\ Step(r, "released", "drained")
  /\ slot' = 0
  /\ commands' = [c \in Commands |-> IF c = slot THEN "settled" ELSE commands[c]]
  /\ UNCHANGED <<peerVars, recon, linkVars, handler, writer, runtime, report>>

\* Step 3: the runtime entry, whoever filled it.
RemoveRuntime(r) ==
  /\ Step(r, "drained", "forgotten")
  /\ runtime' = {}
  /\ UNCHANGED <<peerVars, recon, linkVars, handler, writer, report, commandVars>>

\* Step 4: the battery report, whoever wrote it.
RemoveReport(r) ==
  /\ Step(r, "forgotten", "absent")
  /\ report' = 0
  /\ handler' = IF handler = r THEN 0 ELSE handler
  /\ UNCHANGED <<peerVars, recon, linkVars, writer, runtime, commandVars>>

-----------------------------------------------------------------------------
(* PendingCommands *)

\* A control needs what the stream has reported (noise control, multipoint,
\* the session nonce); the session may end before the key is reserved.
ReadRuntime(c) ==
  /\ runtime # {}
  /\ Free(commands, c) /\ commands' = [commands EXCEPT ![c] = "ready"]
  /\ UNCHANGED <<peerVars, recon, linkVars, streamVars, slot>>

Reserve(c) ==
  /\ commands[c] = "ready" /\ slot = 0
  /\ slot' = c /\ commands' = [commands EXCEPT ![c] = "held"]
  /\ UNCHANGED <<peerVars, recon, linkVars, streamVars>>

\* The key is taken, a check made after the read fails, or the caller is gone.
GivesUp(c) ==
  /\ commands[c] = "ready" /\ commands' = [commands EXCEPT ![c] = "absent"]
  /\ UNCHANGED <<peerVars, recon, linkVars, streamVars, slot>>

(* Mutant: the generation is not checked.                                *)
DropAny(c) == slot' = 0

\* Reservation::drop checks the generation it reserved.
Drop(c) == slot' = IF slot = c THEN 0 ELSE slot

\* No writer, a stalled writer, the two-second deadline, an aborted caller; or
\* the answer has been received and the caller returns.
CommandReturns(c) ==
  /\ commands[c] \in {"held", "settled"}
  /\ commands' = [commands EXCEPT ![c] = "absent"]
  /\ Drop(c)
  /\ UNCHANGED <<peerVars, recon, linkVars, streamVars>>

-----------------------------------------------------------------------------
Connects == \E a \in Attempts :
  ProfileConnected(a) \/ L2capConnected(a) \/ PsmRefused(a) \/ ConnectFails(a)
Streams == \E r \in Readers :
  \/ InstallWriter(r) \/ InstallRuntime(r) \/ FrameApplied(r) \/ Acknowledged(r)
  \/ StreamCloses(r) \/ Release(r) \/ DisconnectCommands(r)
  \/ RemoveRuntime(r) \/ RemoveReport(r)

Reconciler ==
  \/ ReconcileReads \/ ReconcileGone \/ ReconcileForgets
  \/ ReconcileSkips \/ ReconcileBegins

Next ==
  \/ PeerChanges \/ DeadlinePasses \/ AttemptGrowsStale \/ Notice \/ Reconciler
  \/ StreamArrives \/ Connects \/ Streams
  \/ \E c \in Commands : ReadRuntime(c) \/ Reserve(c) \/ GivesUp(c) \/ CommandReturns(c)

Spec == Init /\ [][Next]_vars

(* Fairness: the reconciler wakes every RECONCILE_INTERVAL and its reads     *)
(* return; clocks advance.  ReconcileBegins is strongly fair: a connected    *)
(* peer does not answer "not ready" for ever.                                *)
FairSpec ==
  /\ Spec
  /\ WF_vars(Reconciler) /\ SF_vars(ReconcileBegins) /\ WF_vars(AttemptGrowsStale)

-----------------------------------------------------------------------------
\* States are well formed, and quick retries stay within their budget.
TypeOK ==
  /\ peer \in BOOLEAN /\ notices \in Seq(BOOLEAN) 
  /\ recon \in {"idle", "connected", "gone", "unreported"}
  /\ link \in [kind : {"none", "connecting", "connected"}, attempt : 0 .. MaxAttempts,
               stale : BOOLEAN]
  /\ retry \in [waiting : BOOLEAN, busy : 0 .. QuickRetries, psm : 0 .. UnknownLimit]
  /\ connects \in [Attempts -> {"absent", "rfcomm", "l2cap", "refused"}]
  /\ readers \in [Readers -> {"absent", "spawned", "wired", "running", "closed",
                              "released", "drained", "forgotten"}]
  /\ handler \in 0 .. MaxReaders /\ writer \in 0 .. MaxReaders
  /\ runtime \subseteq Readers /\ report \in 0 .. MaxReaders
  /\ slot \in 0 .. MaxCommands
  /\ commands \in [Commands -> {"absent", "ready", "held", "settled"}]

Owning == {"spawned", "wired", "running", "closed"}

(* A connected link has exactly one stream that will release it, and a link  *)
(* that is not connected has none: no peer is locked out of a new stream by  *)
(* a link nobody owns, and no two readers serve one peer, whatever outbound  *)
(* results, RFCOMM hand-overs and connection changes arrive in between.  The *)
(* installed writer is that stream's: no command goes into a released one.   *)
(* And what a stream reported does not outlive its teardown, although that   *)
(* is four separate steps and a replacement may be writing meanwhile.        *)
StreamOwnsLink ==
  LET owners == {r \in Readers : readers[r] \in Owning}
  IN  /\ IF link.kind = "connected" THEN \E r \in Readers : owners = {r} ELSE owners = {}
      /\ writer # 0 => writer \in owners
      /\ \A r \in Readers : readers[r] = "absent" => r \notin runtime /\ report # r

(* A command waiting for its acknowledgement holds the key's slot, and only  *)
(* such a command does: neither a finished predecessor's Drop nor an         *)
(* acknowledgement leaves it waiting for an answer that cannot reach it.     *)
SlotMatchesCommand == \A c \in Commands : commands[c] = "held" <=> slot = c

(* An outbound attempt does not stay pending for ever, even when             *)
(* ConnectProfile succeeds and no stream follows.                            *)
PendingEnds == \A a \in Attempts : is_current_attempt(a) ~> ~is_current_attempt(a)
=============================================================================
