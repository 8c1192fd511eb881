------------------------ MODULE VendorChannelsProofs ------------------------
(***************************************************************************)
(* The link to a peer and the channel entry over it, for any number of     *)
(* attempts, sessions and callers and any capacity of the queues: they     *)
(* belong to the one session that is alive.                                *)
(***************************************************************************)
EXTENDS VendorChannels, TLAPS

Stages == {"absent", "spawned", "open", "closed", "cleared"}
Entries == [session : Sessions \cup {0}, report : Sessions \cup {0}]

(***************************************************************************)
(* A link is connected while one session, or the handler of a stream that  *)
(* could not be accepted, is there to release it.                          *)
(***************************************************************************)
LinkOK ==
  /\ sessions \in [Sessions -> Stages]
  /\ \A s, t \in Alive : s = t
  /\ handler => Alive = {}
  /\ connected => (handler \/ Alive # {}) /\ connecting = NoAttempt
  /\ ~connected => ~handler /\ Alive = {}
  /\ ~Up => Alive = {} /\ ~handler

(* An entry is made when its session opens and cleared before it is gone.  *)
EntryOK ==
  /\ channel \in Entries
  /\ \A s \in Sessions : Open(s) => channel.session = s
  /\ Up /\ channel.session # 0 =>
       channel.session \in Sessions /\ sessions[channel.session] \in {"open", "closed"}
  /\ channel.report \in {0, channel.session}

IInv == LinkOK /\ EntryOK

-----------------------------------------------------------------------------
(* Steps that touch neither the sessions nor the entry.                    *)
Quiet ==
  /\ UNCHANGED <<provider, sessions, channel, handler>>
  /\ connected' = connected
  /\ connected => connecting' = NoAttempt

LEMMA QuietSteps ==
  ASSUME LinkOK,
         \/ PeerChanges \/ DeadlinePasses \/ AttemptGrowsStale \/ Reconciler
         \/ (\E a \in Attempts : ConnectReturns(a) \/ ConnectFails(a))
         \/ AckArrives \/ SendAck \/ Writer
         \/ (\E c \in Callers : Call(c) \/ Enqueue(c) \/ Return(c) \/ Abort(c))
         \/ UNCHANGED vars
  PROVE  Quiet
<1>a. connected => connecting = NoAttempt
  BY DEF LinkOK
<1>b. NoAttempt.id = 0
  BY DEF NoAttempt
<1>1. CASE UNCHANGED <<provider, sessions, channel, handler, connecting, connected>>
  BY <1>1, <1>a DEF Quiet
<1>2. CASE PeerChanges \/ DeadlinePasses \/ AckArrives \/ SendAck \/ Writer \/ UNCHANGED vars
           \/ (\E c \in Callers : Call(c) \/ Enqueue(c) \/ Return(c) \/ Abort(c))
           \/ ReconcileReads \/ ReconcileSkips \/ \E a \in Attempts : ConnectReturns(a)
  BY <1>1, <1>2 DEF PeerChanges, DeadlinePasses, AckArrives, SendAck, Writer, TakeCommand, Acknowledged,
                    TimesOut, Call, Enqueue, Return, Abort, ReconcileReads, ReconcileSkips,
                    ConnectReturns, vars, linkVars, wireVars
<1>3. CASE AttemptGrowsStale
  BY <1>3, <1>a, <1>b DEF AttemptGrowsStale, Quiet
<1>4. CASE ReconcileGone
  BY <1>4 DEF ReconcileGone, Reset, Quiet
<1>5. CASE EnsureConnected
  <2>1. UNCHANGED <<provider, sessions, channel, handler, connected>>
    BY <1>5 DEF EnsureConnected, Begin, linkVars
  <2>2. connected => connecting' = NoAttempt
    BY <1>5, <1>a DEF EnsureConnected, Begin, CanBegin, linkVars
  <2> QED  BY <2>1, <2>2 DEF Quiet
<1>6. ASSUME NEW a \in Attempts, ConnectFails(a) PROVE Quiet
  BY <1>6, <1>a DEF ConnectFails, Quiet
<1> QED  BY <1>2, <1>3, <1>4, <1>5, <1>6 DEF Reconciler

LEMMA QuietStep ==
  ASSUME IInv, Quiet
  PROVE  IInv'
<1>1. Alive' = Alive /\ (Up' <=> Up) /\ \A s \in Sessions : Open(s)' <=> Open(s)
  BY DEF Quiet, Alive, Up, Open
<1>2. LinkOK'
  BY <1>1 DEF IInv, LinkOK, Quiet
<1>3. EntryOK'
  BY <1>1 DEF IInv, EntryOK, Quiet
<1> QED  BY <1>2, <1>3 DEF IInv

(* What a step of session s leaves of the others.                          *)
LEMMA OneSession ==
  ASSUME LinkOK, NEW s \in Sessions, NEW stage \in Stages,
         sessions' = [sessions EXCEPT ![s] = stage],
         \A t \in Alive : t = s
  PROVE  /\ sessions' \in [Sessions -> Stages] /\ sessions'[s] = stage
         /\ \A t \in Sessions : t # s => sessions[t] = "absent" /\ sessions'[t] = "absent"
         /\ Alive' = IF stage = "absent" THEN {} ELSE {s}
<1>1. /\ sessions' \in [Sessions -> Stages] /\ sessions'[s] = stage
      /\ \A t \in Sessions : t # s => sessions'[t] = sessions[t]
  BY DEF LinkOK
<1>2. \A t \in Sessions : t # s => sessions[t] = "absent"
  BY DEF Alive
<1>3. Alive' = {t \in Sessions : sessions'[t] # "absent"}
  BY DEF Alive
<1> QED  BY <1>1, <1>2, <1>3

LEMMA Inductive ==
  ASSUME IInv, [Next]_vars
  PROVE  IInv'
<1>a. /\ LinkOK /\ EntryOK /\ sessions \in [Sessions -> Stages]
      /\ 0 \notin Sessions
  BY VendorBounds DEF IInv, LinkOK, Sessions
<1>1. CASE StreamArrives
  <2>1. /\ UNCHANGED <<provider, channel>> /\ Up /\ ~handler /\ connecting' = NoAttempt
        /\ connected' = TRUE
    BY <1>1 DEF StreamArrives, Accept
  <2>2. CASE Accept(FALSE) /\ UNCHANGED <<handler, sessions>>
    <3>1. connected
      BY <2>2 DEF Accept
    <3>2. /\ Alive' = Alive /\ Up' /\ (\A s \in Sessions : Open(s)' <=> Open(s))
          /\ handler' = handler
      BY <2>1, <2>2 DEF Alive, Up, Open
    <3>3. LinkOK'
      BY <1>a, <2>1, <2>2, <3>1, <3>2 DEF LinkOK
    <3>4. EntryOK'
      BY <1>a, <2>1, <2>2, <3>2 DEF EntryOK
    <3> QED  BY <3>3, <3>4 DEF IInv
  <2>3. CASE /\ Accept(TRUE) /\ handler' \in BOOLEAN
             /\ \E s \in Sessions :
                  /\ Lowest(s, Sessions, Alive)
                  /\ sessions' = IF handler' THEN sessions
                                 ELSE [sessions EXCEPT ![s] = "spawned"]
    <3>1. ~connected /\ Alive = {} /\ Up'
      BY <1>a, <2>1, <2>3 DEF Accept, LinkOK, Up
    <3>2. channel.session = 0
      BY <1>a, <2>1, <3>1 DEF EntryOK, Alive
    <3>3. CASE handler'
      <4>1. UNCHANGED sessions /\ Alive' = {}
        BY <2>3, <3>1, <3>3 DEF Alive
      <4>2. LinkOK'
        BY <1>a, <2>1, <3>1, <3>3, <4>1 DEF LinkOK
      <4>3. EntryOK'
        BY <1>a, <2>1, <3>2, <4>1 DEF EntryOK, Open
      <4> QED  BY <4>2, <4>3 DEF IInv
    <3>4. CASE ~handler'
      <4>1. PICK s \in Sessions : sessions' = [sessions EXCEPT ![s] = "spawned"]
        BY <2>3, <3>4
      <4>2. /\ sessions' \in [Sessions -> Stages] /\ sessions'[s] = "spawned" /\ Alive' = {s}
            /\ \A t \in Sessions : t # s => sessions'[t] = "absent"
        BY <1>a, <3>1, <4>1, OneSession DEF Stages
      <4>3. LinkOK'
        BY <2>1, <3>1, <3>4, <4>2 DEF LinkOK
      <4>4. EntryOK'
        BY <1>a, <2>1, <3>2, <4>2 DEF EntryOK, Open
      <4> QED  BY <4>3, <4>4 DEF IInv
    <3> QED  BY <3>3, <3>4
  <2> QED  BY <1>1, <2>2, <2>3 DEF StreamArrives
<1>2. CASE AcceptFailed
  <2>1. /\ handler /\ ~handler' /\ ~connected' /\ UNCHANGED <<provider, sessions, channel>>
    BY <1>2 DEF AcceptFailed, Ended
  <2>2. Alive' = {} /\ Alive = {} /\ (Up' <=> Up)
    BY <1>a, <2>1 DEF LinkOK, Alive, Up
  <2>3. LinkOK'
    BY <1>a, <2>1, <2>2 DEF LinkOK
  <2>4. EntryOK'
    BY <1>a, <2>1, <2>2 DEF EntryOK, Open
  <2> QED  BY <2>3, <2>4 DEF IInv
<1>b. ASSUME NEW s \in Sessions, sessions[s] # "absent"
      PROVE  (\A t \in Alive : t = s) /\ ~handler /\ connected /\ connecting = NoAttempt /\ Up
  BY <1>a, <1>b DEF LinkOK, Alive
<1>c. ASSUME NEW s \in Sessions, NEW stage \in Stages \ {"absent"}, sessions[s] # "absent",
             sessions' = [sessions EXCEPT ![s] = stage],
             UNCHANGED <<provider, connecting, connected, handler>>
      PROVE  LinkOK' /\ Up' /\ sessions'[s] = stage /\ \A t \in Sessions : Open(t)' => t = s
  <2>1. /\ sessions' \in [Sessions -> Stages] /\ sessions'[s] = stage /\ Alive' = {s}
        /\ \A t \in Sessions : t # s => sessions'[t] = "absent"
    BY <1>a, <1>b, <1>c, OneSession
  <2>2. Up'
    BY <1>b, <1>c DEF Up
  <2> QED  BY <1>b, <1>c, <2>1, <2>2 DEF LinkOK, Open
<1>3. ASSUME NEW s \in Sessions, SessionOpens(s) PROVE IInv'
  <2>1. /\ sessions[s] = "spawned" /\ sessions' = [sessions EXCEPT ![s] = "open"]
        /\ channel' = [session |-> s, report |-> 0]
        /\ UNCHANGED <<provider, connecting, connected, handler>>
    BY <1>3 DEF SessionOpens, Step, linkVars
  <2>2. LinkOK' /\ Up' /\ sessions'[s] = "open" /\ \A t \in Sessions : Open(t)' => t = s
    BY <1>c, <2>1 DEF Stages
  <2>3. channel' \in Entries /\ channel'.session = s /\ channel'.report = 0
    BY <2>1 DEF Entries
  <2> QED  BY <2>2, <2>3 DEF IInv, EntryOK
<1>4. ASSUME NEW s \in Sessions, SessionCloses(s) PROVE IInv'
  <2>1. /\ sessions[s] = "open" /\ sessions' = [sessions EXCEPT ![s] = "closed"]
        /\ UNCHANGED <<provider, connecting, connected, handler, channel>>
    BY <1>4 DEF SessionCloses, Step, linkVars
  <2>2. LinkOK' /\ Up' /\ sessions'[s] = "closed" /\ \A t \in Sessions : Open(t)' => t = s
    BY <1>c, <2>1 DEF Stages
  <2>3. channel.session = s
    BY <1>a, <2>1 DEF EntryOK, Open
  <2> QED  BY <1>a, <2>1, <2>2, <2>3 DEF IInv, EntryOK
<1>5. ASSUME NEW s \in Sessions, SessionEnds(s) PROVE IInv'
  <2>1. CASE Step(s, "closed", "cleared") /\ channel' = NoEntry /\ UNCHANGED linkVars
    <3>1. /\ sessions[s] = "closed" /\ sessions' = [sessions EXCEPT ![s] = "cleared"]
          /\ UNCHANGED <<provider, connecting, connected, handler>>
      BY <1>5, <2>1 DEF SessionEnds, Step, linkVars
    <3>2. LinkOK' /\ sessions'[s] = "cleared" /\ \A t \in Sessions : Open(t)' => t = s
      BY <1>c, <3>1 DEF Stages
    <3>3. channel' \in Entries /\ channel'.session = 0 /\ channel'.report = 0
      BY <2>1 DEF Entries, NoEntry
    <3> QED  BY <3>2, <3>3 DEF IInv, EntryOK, Open
  <2>2. CASE Step(s, "cleared", "absent") /\ Ended /\ UNCHANGED channel
    <3>1. /\ sessions[s] = "cleared" /\ sessions' = [sessions EXCEPT ![s] = "absent"]
          /\ UNCHANGED <<provider, handler, channel>> /\ ~connected'
      BY <1>5, <2>2 DEF SessionEnds, Step, Ended
    <3>2. /\ sessions' \in [Sessions -> Stages] /\ Alive' = {}
          /\ \A t \in Sessions : t # s => sessions[t] = "absent"
      BY <1>a, <1>b, <3>1, OneSession DEF Stages
    <3>3. channel.session = 0
      BY <1>a, <1>b, <3>1, <3>2 DEF EntryOK
    <3>4. LinkOK'
      BY <1>a, <1>b, <3>1, <3>2 DEF LinkOK
    <3>5. EntryOK'
      BY <1>a, <3>1, <3>2, <3>3 DEF EntryOK, Open, Alive
    <3> QED  BY <3>4, <3>5 DEF IInv
  <2> QED  BY <1>5, <2>1, <2>2 DEF SessionEnds, Teardown
<1>6. CASE Shutdown
  <2>1. /\ sessions' = [s \in Sessions |-> "absent"] /\ ~connected' /\ ~handler' /\ ~Up'
        /\ UNCHANGED channel
    BY <1>6 DEF Shutdown, Up
  <2>2. Alive' = {} /\ sessions' \in [Sessions -> Stages]
    BY <2>1 DEF Alive, Stages
  <2>3. LinkOK'
    BY <2>1, <2>2 DEF LinkOK
  <2>4. EntryOK'
    BY <1>a, <2>1 DEF EntryOK, Open
  <2> QED  BY <2>3, <2>4 DEF IInv
<1>7. CASE ShutdownClears
  <2>1. /\ provider = "stopped" /\ provider' = "cleared" /\ channel' = NoEntry
        /\ UNCHANGED <<connecting, connected, sessions, handler>>
    BY <1>7 DEF ShutdownClears, linkVars
  <2>2. ~Up /\ ~Up' /\ Alive' = Alive
    BY <2>1 DEF Up, Alive
  <2>3. LinkOK'
    BY <1>a, <2>1, <2>2 DEF LinkOK
  <2>4. channel' \in Entries /\ channel'.report = 0 /\ \A s \in Sessions : ~Open(s)'
    BY <1>a, <2>1, <2>2 DEF Entries, NoEntry, LinkOK, Alive, Open
  <2> QED  BY <2>2, <2>3, <2>4 DEF IInv, EntryOK
<1>8. ASSUME NEW s \in Sessions, MessageArrives(s) PROVE IInv'
  <2>1. /\ Open(s) /\ UNCHANGED <<provider, connecting, connected, sessions, handler>>
        /\ \/ UNCHANGED channel
           \/ channel' = IF channel.session = 0 THEN channel ELSE [channel EXCEPT !.report = s]
    BY <1>8 DEF MessageArrives, linkVars
  <2>2. channel.session = s
    BY <1>a, <2>1 DEF EntryOK
  <2>3. /\ channel' \in Entries /\ channel'.session = channel.session
        /\ channel'.report \in {0, channel.session}
    BY <1>a, <2>1, <2>2 DEF EntryOK, Entries
  <2>4. Alive' = Alive /\ (Up' <=> Up) /\ \A t \in Sessions : Open(t)' <=> Open(t)
    BY <2>1 DEF Alive, Up, Open
  <2>5. LinkOK'
    BY <1>a, <2>1, <2>4 DEF LinkOK
  <2>6. EntryOK'
    BY <1>a, <2>1, <2>3, <2>4 DEF EntryOK
  <2> QED  BY <2>5, <2>6 DEF IInv
<1>9. CASE \/ PeerChanges \/ DeadlinePasses \/ AttemptGrowsStale \/ Reconciler
           \/ (\E a \in Attempts : ConnectReturns(a) \/ ConnectFails(a))
           \/ AckArrives \/ SendAck \/ Writer
           \/ (\E c \in Callers : Call(c) \/ Enqueue(c) \/ Return(c) \/ Abort(c))
           \/ UNCHANGED vars
  BY <1>9, <1>a, QuietSteps, QuietStep
<1> QED
  BY <1>1, <1>2, <1>3, <1>4, <1>5, <1>6, <1>7, <1>8, <1>9 DEF Next

LEMMA Start == Init => IInv
<1> SUFFICES ASSUME Init PROVE IInv
  OBVIOUS
<1>1. /\ provider = "up" /\ ~connected /\ ~handler /\ sessions = [s \in Sessions |-> "absent"]
      /\ channel = NoEntry
  BY DEF Init
<1>2. Alive = {} /\ Up /\ \A s \in Sessions : ~Open(s)
  BY <1>1 DEF Alive, Up, Open
<1>3. channel \in Entries /\ channel.session = 0 /\ channel.report = 0
  BY <1>1 DEF Entries, NoEntry
<1> QED  BY <1>1, <1>2, <1>3 DEF IInv, LinkOK, EntryOK, Stages

(***************************************************************************)
(* The link and the entry in `channels' belong to the same single session, *)
(* for every interleaving of the reconciler, the connect tasks, the stream *)
(* handler, sessions ending late and the provider's shutdown.              *)
(***************************************************************************)
THEOREM OneSessionOwnsChannel == Spec => []SessionOwnsChannel
<1>1. IInv => SessionOwnsChannel
  <2> SUFFICES ASSUME IInv PROVE SessionOwnsChannel
    OBVIOUS
  <2> DEFINE owners == Alive \cup (IF handler THEN {0} ELSE {})
  <2>1. ASSUME connected PROVE connecting = NoAttempt /\ \E o \in owners : owners = {o}
    <3>1. connecting = NoAttempt /\ (handler \/ Alive # {})
      BY <2>1 DEF IInv, LinkOK
    <3>2. CASE handler
      <4>1. owners = {0}
        BY <3>2 DEF IInv, LinkOK
      <4> QED  BY <3>1, <4>1
    <3>3. CASE ~handler
      <4>1. PICK s \in Alive : Alive = {s}
        BY <3>1, <3>3 DEF IInv, LinkOK
      <4>2. owners = {s}
        BY <3>3, <4>1
      <4> QED  BY <3>1, <4>2
    <3> QED  BY <3>2, <3>3
  <2>2. ASSUME ~connected PROVE owners = {}
    BY <2>2 DEF IInv, LinkOK
  <2>3. /\ \A s \in Sessions : Open(s) => channel.session = s
        /\ Up /\ channel.session # 0 => sessions[channel.session] # "absent"
        /\ channel.report \in {0, channel.session}
    BY DEF IInv, EntryOK
  <2> QED  BY <2>1, <2>2, <2>3 DEF SessionOwnsChannel
<1> QED  BY <1>1, Start, Inductive, PTL DEF Spec
=============================================================================
