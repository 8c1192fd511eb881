--------------------------- MODULE VendorChannels ---------------------------
(***************************************************************************)
(* The vendor RFCOMM channel to ONE peer (src/src/vendor_channel.rs) and   *)
(* the Sony noise-control session that runs over it (src/src/sony.rs).     *)
(*                                                                         *)
(* The reconciler, the connect task of each attempt, the handler of the    *)
(* streams BlueZ hands over and the session of each stream share `Links'   *)
(* behind a mutex; the sessions and the callers of set_noise_control share *)
(* the peer's entry in `channels'.  Within a session a reader and a writer *)
(* take turns, and the writer sends one command at a time.                 *)
(*                                                                         *)
(* Abstracted: payloads, frames and the sequence bit; a write completes.   *)
(* As in FastPairLinks the number of an attempt, session or caller is free *)
(* again when its task is gone, so behaviours have no end.                 *)
(***************************************************************************)
EXTENDS Naturals, Sequences

CONSTANTS
  MaxAttempts,  \* bound: connect tasks alive at once
  MaxSessions,  \* bound: session tasks alive at once
  MaxCallers,   \* bound: callers of set_noise_control at once
  BusyRetries,  \* BUSY_RETRIES, 6 in the code
  QueueLimit,   \* capacity of the commands channel, 8 in the code
  AckLimit,     \* capacity of the acks channel, 16 in the code
  AckedLimit,   \* capacity of the acked channel, 4 in the code
  Queries,      \* how many queries follow the init reply, 2 in the code
  MaxLate       \* bound: acknowledgements the headphones still owe

ASSUME VendorBounds ==
  /\ MaxAttempts \in Nat /\ MaxSessions \in Nat /\ MaxCallers \in Nat
  /\ BusyRetries \in Nat /\ Queries \in Nat /\ MaxLate \in Nat
  /\ QueueLimit \in Nat \ {0} /\ AckLimit \in Nat \ {0} /\ AckedLimit \in Nat \ {0}

VARIABLES
  provider,    \* the task group: "up", "stopped" by shutdown, "cleared"
  peer,        \* is the peer connected, as BlueZ would answer
  recon,       \* the reconciler: "idle", or what it read: "connected", "gone"
  connecting,  \* Links::connecting: the pending attempt, 0 for none; is it old
  connected,   \* Links::connected
  retry,       \* Links::retry: deadline pending, quick retries used
  connects,    \* attempts whose ConnectProfile call has not returned
  handler,     \* the request handler has still to undo a failed accept()
  sessions,    \* the session task of each stream
  channel,     \* channels[peer]: the session that made the entry, 0 for none,
               \* and the one that reported its noise control, 0 for none
  queue,       \* the commands channel of the open session
  writing,     \* the command that waits for its ACK, a set of at most one
  acks,        \* acknowledgements the writer has to send
  acked,       \* acknowledgements received and not yet taken
  owed,        \* acknowledgements the headphones will still send
  callers      \* the callers of set_noise_control

linkVars == <<connecting, connected, retry>>
wireVars == <<queue, writing, acks, acked, owed>>
vars == <<provider, peer, recon, linkVars, connects, handler, sessions, channel,
          wireVars, callers>>

Attempts == 1 .. MaxAttempts
Sessions == 1 .. MaxSessions
Callers == 1 .. MaxCallers
Background == 0  \* a command nobody waits for: init request and queries

Up == provider = "up"
Alive == {s \in Sessions : sessions[s] # "absent"}

\* The lowest free number: which one is taken makes no difference.
Lowest(n, set, used) == n \in set \ used /\ \A m \in set \ used : n <= m

NoAttempt == [id |-> 0, stale |-> FALSE]
NoRetry == [waiting |-> FALSE, busy |-> 0]
NoEntry == [session |-> 0, report |-> 0]
back_off(r) == [r EXCEPT !.waiting = TRUE]

Init ==
  /\ provider = "up" /\ peer = TRUE /\ recon = "idle"
  /\ connecting = NoAttempt /\ connected = FALSE /\ retry = NoRetry
  /\ connects = {} /\ handler = FALSE
  /\ sessions = [s \in Sessions |-> "absent"] /\ channel = NoEntry
  /\ queue = <<>> /\ writing = {} /\ acks = 0 /\ acked = 0 /\ owed = 0
  /\ callers = [c \in Callers |-> "absent"]

-----------------------------------------------------------------------------
(* The outside: the peer comes and goes, time passes.                      *)
PeerChanges ==
  /\ peer' = ~peer
  /\ UNCHANGED <<provider, recon, linkVars, connects, handler, sessions, channel,
                 wireVars, callers>>

DeadlinePasses ==
  /\ retry.waiting
  /\ retry' = [retry EXCEPT !.waiting = FALSE]
  /\ UNCHANGED <<provider, peer, recon, connecting, connected, connects, handler,
                 sessions, channel, wireVars, callers>>

(* STALE_CONNECT elapses; CONNECT_TIMEOUT has long ended the call then.    *)
AttemptGrowsStale ==
  /\ connecting.id # 0 /\ ~connecting.stale
  /\ connecting.id \notin connects
  /\ connecting' = [connecting EXCEPT !.stale = TRUE]
  /\ UNCHANGED <<provider, peer, recon, connected, retry, connects, handler,
                 sessions, channel, wireVars, callers>>

-----------------------------------------------------------------------------
(* Links                                                                   *)
CanBegin == ~connected /\ connecting.id = 0 /\ ~retry.waiting

(* begin: a stale attempt is retired and backs off, so none follows it in  *)
(* the same call; otherwise a new attempt, if nothing is in its way.       *)
Begin ==
  \/ /\ connecting.stale
     /\ connecting' = NoAttempt /\ retry' = back_off(retry)
     /\ UNCHANGED <<connected, connects>>
  \/ /\ CanBegin
     /\ \E a \in Attempts : /\ Lowest(a, Attempts, connects)
                            /\ connecting' = [id |-> a, stale |-> FALSE]
                            /\ connects' = connects \cup {a}
     /\ UNCHANGED <<connected, retry>>
  \/ ~connecting.stale /\ ~CanBegin /\ UNCHANGED <<linkVars, connects>>

(* accept: any attempt is over; a stream beside another one is refused.    *)
Accept(accepted) ==
  /\ connecting' = NoAttempt
  /\ connected' = TRUE
  /\ accepted = ~connected
  /\ UNCHANGED retry

(* ended: a session of a minute forgets the retry record.                  *)
Ended ==
  /\ connected' = FALSE
  /\ \E minute \in BOOLEAN :
       retry' = IF connected THEN back_off(IF minute THEN NoRetry ELSE retry) ELSE retry
  /\ UNCHANGED connecting

(* reset: an accepted stream keeps its teardown to itself.                 *)
Reset == retry' = NoRetry /\ connecting' = NoAttempt /\ UNCHANGED connected

(* reconcile_adapter asks whether the peer is connected ...                *)
ReconcileReads ==
  /\ Up /\ recon = "idle"
  /\ recon' = IF peer THEN "connected" ELSE "gone"
  /\ UNCHANGED <<provider, peer, linkVars, connects, handler, sessions, channel,
                 wireVars, callers>>

(* ... and uses the answer after further calls, or not when one fails.     *)
ReconcileGone ==
  /\ recon = "gone" /\ recon' = "idle"
  /\ Reset
  /\ UNCHANGED <<provider, peer, connects, handler, sessions, channel, wireVars,
                 callers>>

ReconcileSkips ==
  /\ recon = "connected" /\ recon' = "idle"
  /\ UNCHANGED <<provider, peer, linkVars, connects, handler, sessions, channel,
                 wireVars, callers>>

EnsureConnected ==
  /\ recon = "connected" /\ recon' = "idle"
  /\ Begin
  /\ UNCHANGED <<provider, peer, handler, sessions, channel, wireVars, callers>>

(* ConnectProfile returned: the stream comes through the handler, if any.  *)
ConnectReturns(a) ==
  /\ a \in connects
  /\ connects' = connects \ {a}
  /\ UNCHANGED <<provider, peer, recon, linkVars, handler, sessions, channel,
                 wireVars, callers>>

(* connect_failed: the result of a retired attempt changes nothing.        *)
ConnectFails(a) ==
  /\ a \in connects
  /\ connects' = connects \ {a}
  /\ IF connecting.id = a
       THEN /\ connecting' = NoAttempt
            /\ \/ retry.busy < BusyRetries
                  /\ retry' = [waiting |-> TRUE, busy |-> retry.busy + 1]
               \/ retry' = back_off(retry)
       ELSE UNCHANGED <<connecting, retry>>
  /\ UNCHANGED <<provider, peer, recon, connected, handler, sessions, channel,
                 wireVars, callers>>

-----------------------------------------------------------------------------
(* Streams and sessions                                                    *)

(* BlueZ hands over a stream.  A second one is rejected; one whose accept  *)
(* fails is given up by the handler in a lock section of its own.          *)
StreamArrives ==
  /\ Up /\ peer /\ ~handler
  /\ \/ /\ Accept(TRUE)
        /\ handler' \in BOOLEAN
        /\ \E s \in Sessions :
             /\ Lowest(s, Sessions, Alive)
             /\ sessions' = IF handler' THEN sessions
                            ELSE [sessions EXCEPT ![s] = "spawned"]
     \/ Accept(FALSE) /\ UNCHANGED <<handler, sessions>>
  /\ UNCHANGED <<provider, peer, recon, connects, channel, wireVars, callers>>

AcceptFailed ==
  /\ handler
  /\ handler' = FALSE
  /\ Ended
  /\ UNCHANGED <<provider, peer, recon, connects, sessions, channel, wireVars, callers>>

Step(s, from, to) == sessions[s] = from /\ sessions' = [sessions EXCEPT ![s] = to]

(* run_session: queue the init request and make the entry.                 *)
SessionOpens(s) ==
  /\ Step(s, "spawned", "open")
  /\ queue' = <<Background>>
  /\ channel' = [session |-> s, report |-> 0]
  /\ UNCHANGED <<provider, peer, recon, linkVars, connects, handler, writing, acks,
                 acked, owed, callers>>

(* The ends of the channels are dropped, and with them what they hold: no  *)
(* caller can still be answered.                                           *)
DropWire ==
  /\ queue' = <<>> /\ writing' = {} /\ acks' = 0 /\ acked' = 0 /\ owed' = 0
  /\ callers' = [c \in Callers |-> IF callers[c] \in {"sending", "waiting"}
                                     THEN "failed" ELSE callers[c]]

(* The peer closes the stream, or reading or writing fails.                *)
SessionCloses(s) ==
  /\ Step(s, "open", "closed")
  /\ DropWire
  /\ UNCHANGED <<provider, peer, recon, linkVars, connects, handler, channel>>

(* Mutant: the link is released before the entry is removed.               *)
TeardownSwapped(s) ==
  \/ Step(s, "closed", "cleared") /\ Ended /\ UNCHANGED channel
  \/ Step(s, "cleared", "absent") /\ channel' = NoEntry /\ UNCHANGED linkVars

(* spawn_session's teardown: handler.ended comes first, and only then may  *)
(* another stream be accepted.                                             *)
Teardown(s) ==
  \/ Step(s, "closed", "cleared") /\ channel' = NoEntry /\ UNCHANGED linkVars
  \/ Step(s, "cleared", "absent") /\ Ended /\ UNCHANGED channel

SessionEnds(s) ==
  /\ Teardown(s)
  /\ UNCHANGED <<provider, peer, recon, connects, handler, wireVars, callers>>

(* Channels::shutdown: all tasks have ended, the links are new ...         *)
Shutdown ==
  /\ Up /\ provider' = "stopped"
  /\ recon' = "idle" /\ connects' = {} /\ handler' = FALSE
  /\ sessions' = [s \in Sessions |-> "absent"]
  /\ connecting' = NoAttempt /\ connected' = FALSE /\ retry' = NoRetry
  /\ DropWire
  /\ UNCHANGED <<peer, channel>>

(* ... and SonyControlProvider::shutdown then clears the entries.          *)
ShutdownClears ==
  /\ provider = "stopped" /\ provider' = "cleared"
  /\ channel' = NoEntry
  /\ UNCHANGED <<peer, recon, linkVars, connects, handler, sessions, wireVars, callers>>

-----------------------------------------------------------------------------
(* The reader of the open session                                          *)
Open(s) == sessions[s] = "open"

(* apply_frame, an ACK: dropped when the channel is full.                  *)
AckArrives ==
  /\ owed > 0 /\ owed' = owed - 1
  /\ acked' = IF acked < AckedLimit THEN acked + 1 ELSE acked
  /\ UNCHANGED <<provider, peer, recon, linkVars, connects, handler, sessions, channel,
                 queue, writing, acks, callers>>

(* A message of the headphones; the reader waits for room to have it       *)
(* acknowledged.  The init reply queues the queries, as far as there is    *)
(* room; a report goes into the peer's entry.                              *)
MessageArrives(s) ==
  /\ Open(s) /\ acks < AckLimit
  /\ acks' = acks + 1
  /\ \/ UNCHANGED <<queue, channel>>
     \/ /\ queue' = SubSeq(queue \o [i \in 1 .. Queries |-> Background], 1,
                           IF Len(queue) + Queries < QueueLimit THEN Len(queue) + Queries
                                                                ELSE QueueLimit)
        /\ UNCHANGED channel
     \/ /\ channel' = IF channel.session = 0 THEN channel ELSE [channel EXCEPT !.report = s]
        /\ UNCHANGED queue
  /\ UNCHANGED <<provider, peer, recon, linkVars, connects, handler, sessions,
                 writing, acked, owed, callers>>

-----------------------------------------------------------------------------
(* write_session: acknowledgements before anything else (biased select).   *)
SendAck ==
  /\ acks > 0 /\ acks' = acks - 1
  /\ UNCHANGED <<provider, peer, recon, linkVars, connects, handler, sessions, channel,
                 queue, writing, acked, owed, callers>>

(* The next command is written, after old acknowledgements were drained.   *)
(* The headphones will acknowledge it some time, or never.                 *)
TakeCommand ==
  /\ acks = 0 /\ writing = {} /\ queue # <<>>
  /\ writing' = {Head(queue)} /\ queue' = Tail(queue)
  /\ acked' = 0
  /\ owed' \in {owed, IF owed < MaxLate THEN owed + 1 ELSE owed}
  /\ UNCHANGED <<provider, peer, recon, linkVars, connects, handler, sessions, channel,
                 acks, callers>>

(* done.send(result): nobody waits for a background command.               *)
Answer(result) ==
  /\ writing' = {}
  /\ callers' = [c \in Callers |-> IF c \in writing THEN result ELSE callers[c]]

Acknowledged ==
  /\ acks = 0 /\ writing # {} /\ acked > 0
  /\ acked' = acked - 1
  /\ Answer("confirming")
  /\ UNCHANGED <<provider, peer, recon, linkVars, connects, handler, sessions, channel,
                 queue, acks, owed>>

(* Mutant: only background commands have a deadline.                       *)
TimesOutInBackground ==
  /\ acks = 0 /\ writing = {Background} /\ acked = 0
  /\ Answer("failed")
  /\ UNCHANGED <<provider, peer, recon, linkVars, connects, handler, sessions, channel,
                 queue, acks, acked, owed>>

TimesOut ==
  /\ acks = 0 /\ writing # {} /\ acked = 0
  /\ Answer("failed")
  /\ UNCHANGED <<provider, peer, recon, linkVars, connects, handler, sessions, channel,
                 queue, acks, acked, owed>>

-----------------------------------------------------------------------------
(* set_noise_control: the sender is cloned under the lock.  That of a      *)
(* session that has ended but still has its entry is closed.               *)
Call(c) ==
  /\ Lowest(c, Callers, {d \in Callers : callers[d] # "absent"})
  /\ channel.report # 0
  /\ callers' = [callers EXCEPT ![c] =
       IF \E s \in Sessions : s = channel.session /\ Open(s) THEN "sending" ELSE "failed"]
  /\ UNCHANGED <<provider, peer, recon, linkVars, connects, handler, sessions, channel,
                 wireVars>>

(* commands.send waits for room.                                           *)
Enqueue(c) ==
  /\ callers[c] = "sending" /\ Len(queue) < QueueLimit
  /\ queue' = Append(queue, c)
  /\ callers' = [callers EXCEPT ![c] = "waiting"]
  /\ UNCHANGED <<provider, peer, recon, linkVars, connects, handler, sessions, channel,
                 writing, acks, acked, owed>>

(* The call returns: an error, or an acknowledgement and at most a second  *)
(* for the new state to be reported.                                       *)
Return(c) ==
  /\ callers[c] \in {"failed", "confirming"}
  /\ callers' = [callers EXCEPT ![c] = "absent"]
  /\ UNCHANGED <<provider, peer, recon, linkVars, connects, handler, sessions, channel,
                 wireVars>>

(* The caller is aborted; its command stays, and nobody waits for it.      *)
Abort(c) ==
  /\ callers[c] \in {"sending", "waiting"}
  /\ callers' = [callers EXCEPT ![c] = "absent"]
  /\ queue' = [i \in 1 .. Len(queue) |-> IF queue[i] = c THEN Background ELSE queue[i]]
  /\ writing' = IF writing = {c} THEN {Background} ELSE writing
  /\ UNCHANGED <<provider, peer, recon, linkVars, connects, handler, sessions, channel,
                 acks, acked, owed>>

-----------------------------------------------------------------------------
Reconciler == ReconcileReads \/ ReconcileGone \/ ReconcileSkips \/ EnsureConnected
Writer == TakeCommand \/ Acknowledged \/ TimesOut

Next ==
  \/ PeerChanges \/ DeadlinePasses \/ AttemptGrowsStale \/ Reconciler
  \/ \E a \in Attempts : ConnectReturns(a) \/ ConnectFails(a)
  \/ StreamArrives \/ AcceptFailed
  \/ \E s \in Sessions : SessionOpens(s) \/ SessionCloses(s) \/ SessionEnds(s)
  \/ Shutdown \/ ShutdownClears
  \/ AckArrives \/ (\E s \in Sessions : MessageArrives(s)) \/ SendAck \/ Writer
  \/ \E c \in Callers : Call(c) \/ Enqueue(c) \/ Return(c) \/ Abort(c)

Spec == Init /\ [][Next]_vars

(***************************************************************************)
(* The reconciler wakes every RECONCILE_INTERVAL, ConnectProfile calls are *)
(* bounded by CONNECT_TIMEOUT, clocks advance.  A peer that stays          *)
(* connected does not fail its look-ups for ever.  The writer gets past    *)
(* its acknowledgements: the headphones pause now and then.  A sender      *)
(* waiting for room in the channel gets it in turn.                        *)
(***************************************************************************)
FairSpec ==
  /\ Spec
  /\ WF_vars(ReconcileReads) /\ WF_vars(ReconcileGone) /\ WF_vars(ReconcileSkips)
  /\ SF_vars(EnsureConnected) /\ WF_vars(AttemptGrowsStale)
  /\ \A a \in Attempts : WF_vars(ConnectReturns(a) \/ ConnectFails(a))
  /\ WF_vars(SendAck) /\ SF_vars(Writer)
  /\ \A c \in Callers : SF_vars(Enqueue(c)) /\ WF_vars(Return(c))

-----------------------------------------------------------------------------
(***************************************************************************)
(* A connected link has exactly one task that will release it, a session   *)
(* or the handler of a failed accept(), and no attempt is pending beside   *)
(* it; a link that is not connected has none.  The entry callers use       *)
(* belongs to the session that is open, from its start to its end, and     *)
(* shows what that session has reported: clearing the old state before the *)
(* link is released keeps a delayed cleanup from erasing, and an old       *)
(* report from surviving into, a replacement.                              *)
(***************************************************************************)
SessionOwnsChannel ==
  LET owners == Alive \cup (IF handler THEN {0} ELSE {})
  IN  /\ IF connected THEN connecting = NoAttempt /\ \E o \in owners : owners = {o}
                      ELSE owners = {}
      /\ \A s \in Sessions : Open(s) => channel.session = s
      /\ Up /\ channel.session # 0 => sessions[channel.session] # "absent"
      /\ channel.report \in {0, channel.session}

(***************************************************************************)
(* Nobody waits for the headphones for ever: not a caller, when they never *)
(* answer, the queue is full, the stream breaks or the provider is shut    *)
(* down with the command queued; and not the reconciler, when              *)
(* ConnectProfile has succeeded and no stream follows: the attempt ends    *)
(* and the channel is tried again.                                         *)
(***************************************************************************)
NobodyWaitsForever ==
  /\ \A c \in Callers : callers[c] # "absent" ~> callers[c] = "absent"
  /\ \A a \in Attempts : connecting.id = a ~> connecting.id # a
=============================================================================
