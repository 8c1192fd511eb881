------------------------------- MODULE Audio -------------------------------
(***************************************************************************)
(* Changes of Bluetooth audio through PipeWire (src/src/audio.rs,          *)
(* src/src/audio/wait.rs, src/src/daemon/audio.rs and route_audio in       *)
(* src/src/bluez/operations.rs).                                           *)
(*                                                                         *)
(* A change probes PipeWire, then works on a second connection: it waits   *)
(* for the object it has probed to be announced, binds it, checks whose    *)
(* card it is, writes once and waits to see its effect.  Between the two   *)
(* connections, and between an announcement and its binding, objects come, *)
(* go and take each other's ids, and PipeWire may restart, which starts    *)
(* the serials over.                                                       *)
(*                                                                         *)
(* Abstracted: a card has one sink node, announced with it; there is one   *)
(* profile to ask for; codecs, priorities and names.                       *)
(***************************************************************************)
EXTENDS Naturals, Sequences, FiniteSets

CONSTANTS
  Peers, Target,  \* owners of cards; the one that the operation is for
  Ids,            \* PipeWire object ids
  None,
  MaxChanges,     \* bound on what happens in PipeWire by itself
  MaxRestarts,    \* bound on restarts of PipeWire
  MaxTries        \* bound on the attempts of ten seconds

Wanted == "wanted"
Profiles == {Wanted, "other"}
Cards == [serial : Nat, peer : Peers, profile : Profiles]

ASSUME AudioAssumption ==
  /\ Target \in Peers
  /\ None \notin Peers \cup Ids \cup Cards
  /\ "default" \notin Peers
  /\ IsFiniteSet(Ids)
  /\ MaxChanges \in Nat /\ MaxRestarts \in Nat /\ MaxTries \in Nat

VARIABLES
  cards,      \* cards[i]: the card with id i
  metadata,   \* the "default" metadata exists: the session manager is there
  default,    \* its values: the configured and the effective sink
  serial,     \* the last serial given out since PipeWire started
  server,     \* the number of that start
  op,         \* the operation
  session,    \* its connection
  written,    \* the peers whose profile it has written, and "default"
  changes

audioVars == <<cards, metadata, default, serial, server, op, session, written, changes>>
pipewire == <<cards, metadata, default, serial, server>>

Nothing == [configured |-> None, effective |-> None]
Closed ==
  [open |-> FALSE, down |-> <<>>, up |-> <<>>, matched |-> FALSE, bound |-> None,
   device |-> FALSE, node |-> FALSE, meta |-> FALSE, wrote |-> FALSE,
   seen |-> Nothing, done |-> "none", lost |-> FALSE, expired |-> FALSE]

Owned(p) == {i \in Ids : cards[i] # None /\ cards[i].peer = p}

AudioInit ==
  /\ cards = [i \in Ids |-> None]
  /\ metadata = TRUE
  /\ default = Nothing
  /\ serial = 0
  /\ server = 1
  /\ op = [kind |-> "policy", wants |-> {}, step |-> "idle", id |-> None, serial |-> 0,
           tries |-> 0]
  /\ session = Closed
  /\ written = <<>>
  /\ changes = 0

-----------------------------------------------------------------------------
(* PipeWire tells its clients, in order.                                   *)
Tell(events) == session.down \o events

Announces(i, card) == <<<<"device", i, card.serial>>, <<"node", i, card.serial, card.peer>>>>

(* Something that happens by itself.                                       *)
Change ==
  /\ changes < MaxChanges
  /\ changes' = changes + 1
  /\ UNCHANGED <<op, written>>

(* The session manager creates a card when a device connects.              *)
CardAppears(i, p) ==
  /\ Change
  /\ metadata
  /\ cards[i] = None
  /\ Owned(p) = {}
  /\ serial' = serial + 1
  /\ \E f \in Profiles :
       LET card == [serial |-> serial + 1, peer |-> p, profile |-> f]
       IN  /\ cards' = [cards EXCEPT ![i] = card]
           /\ session' = [session EXCEPT !.down = IF session.open THEN Tell(Announces(i, card)) ELSE @]
  /\ UNCHANGED <<metadata, default, server>>

CardVanishes(i) ==
  /\ Change
  /\ cards[i] # None
  /\ cards' = [cards EXCEPT ![i] = None]
  /\ session' = [session EXCEPT
       !.down = IF session.open THEN Tell(<<<<"removed", i>>>>) ELSE @,
       !.bound = IF @ = i THEN None ELSE @]
  /\ UNCHANGED <<metadata, default, serial, server>>

(* Another client changes the profile or the default.                      *)
ProfileChanges(i, f) ==
  /\ Change
  /\ cards[i] # None
  /\ cards[i].profile # f
  /\ cards' = [cards EXCEPT ![i].profile = f]
  /\ session' = [session EXCEPT !.down = IF session.bound = i THEN Tell(<<<<"profile", f>>>>) ELSE @]
  /\ UNCHANGED <<metadata, default, serial, server>>

DefaultChanges(p) ==
  /\ Change
  /\ metadata
  /\ default.configured # p
  /\ default' = [default EXCEPT !.configured = p]
  /\ session' = [session EXCEPT !.down = IF session.meta THEN Tell(<<<<"configured", p>>>>) ELSE @]
  /\ UNCHANGED <<cards, metadata, serial, server>>

(* The session manager follows the configured default when it can.         *)
DefaultFollows ==
  /\ metadata
  /\ default.configured # default.effective
  /\ default.configured # None => Owned(default.configured) # {}
  /\ default' = [default EXCEPT !.effective = default.configured]
  /\ session' = [session EXCEPT
       !.down = IF session.meta THEN Tell(<<<<"effective", default.configured>>>>) ELSE @]
  /\ UNCHANGED <<cards, metadata, serial, server, op, written, changes>>

(* PipeWire and its session manager start over; connections are cut.       *)
ServerRestarts ==
  /\ server <= MaxRestarts
  /\ server' = server + 1
  /\ cards' = [i \in Ids |-> None]
  /\ metadata' = FALSE
  /\ default' = Nothing
  /\ serial' = 0
  /\ session' = [session EXCEPT
       !.down = IF session.open THEN Tell(<<<<"error">>>>) ELSE @, !.up = <<>>,
       !.bound = None, !.meta = FALSE, !.open = FALSE]
  /\ UNCHANGED <<op, written, changes>>

SessionManagerStarts ==
  /\ ~metadata
  /\ metadata' = TRUE
  /\ session' = [session EXCEPT !.down = IF session.open THEN Tell(<<<<"metadata">>>>) ELSE @]
  /\ UNCHANGED <<cards, default, serial, server, op, written, changes>>

(* It stops while PipeWire runs on; its cards vanish one by one.           *)
SessionManagerStops ==
  /\ Change
  /\ metadata
  /\ metadata' = FALSE
  /\ default' = Nothing
  /\ session' = [session EXCEPT
       !.down = IF session.open THEN Tell(<<<<"withdrawn">>>>) ELSE @, !.meta = FALSE]
  /\ UNCHANGED <<cards, serial, server>>

(* PipeWire reads what the operation asks for.  An id is bound to the      *)
(* object that has it by then.                                             *)
Binds ==
  LET i == Head(session.up)[2]
  IN  /\ Head(session.up)[1] = "bind"
      /\ session' = [session EXCEPT !.up = Tail(@),
           !.bound = IF cards[i] = None THEN None ELSE i,
           !.down = IF cards[i] = None THEN Tell(<<<<"error">>>>)
                    ELSE Tell(<<<<"info", cards[i].peer>>, <<"profile", cards[i].profile>>>>)]
      /\ UNCHANGED <<cards, default, written>>

BindsMetadata ==
  /\ Head(session.up)[1] = "metadata"
  /\ session' = [session EXCEPT !.up = Tail(@), !.meta = metadata,
       !.down = IF ~metadata THEN Tell(<<<<"error">>>>)
                ELSE Tell(<<<<"configured", default.configured>>,
                            <<"effective", default.effective>>>>)]
  /\ UNCHANGED <<cards, default, written>>

SetsProfile ==
  LET i == session.bound
  IN  /\ Head(session.up)[1] = "profile"
      /\ IF i = None
           THEN /\ session' = [session EXCEPT !.up = Tail(@)]
                /\ UNCHANGED <<cards, written>>
           ELSE /\ cards' = [cards EXCEPT ![i].profile = Wanted]
                /\ written' = Append(written, cards[i].peer)
                /\ session' = [session EXCEPT !.up = Tail(@), !.down = Tell(<<<<"profile", Wanted>>>>)]
      /\ UNCHANGED default

SetsDefault ==
  /\ Head(session.up)[1] = "default"
  /\ IF ~session.meta
       THEN /\ session' = [session EXCEPT !.up = Tail(@)]
            /\ UNCHANGED <<default, written>>
       ELSE /\ default' = [default EXCEPT !.configured = Target]
            /\ written' = Append(written, "default")
            /\ session' = [session EXCEPT !.up = Tail(@), !.down = Tell(<<<<"configured", Target>>>>)]
  /\ UNCHANGED cards

ServerReads ==
  /\ session.up # <<>>
  /\ Binds \/ BindsMetadata \/ SetsProfile \/ SetsDefault
  /\ UNCHANGED <<metadata, serial, server, op, changes>>

-----------------------------------------------------------------------------
(* A client's setProfile or setDefault, or the policy after a connection.  *)
Begin ==
  /\ op.step = "idle"
  /\ \E k \in {"policy", "client"} :
     \E w \in {{"profile"}, {"route"}} \cup (IF k = "policy" THEN {{"profile", "route"}} ELSE {}) :
       op' = [op EXCEPT !.kind = k, !.wants = w, !.step = "probe"]
  /\ UNCHANGED <<pipewire, session, written, changes>>

(* What follows a probe that has found the card: a profile that is active  *)
(* is not set by the policy; its route is probed for again.                *)
AfterProbe(card) ==
  IF op.step = "probe" /\ "profile" \in op.wants
       /\ ~(op.kind = "policy" /\ card.profile = Wanted)
    THEN "profile"
  ELSE IF "route" \notin op.wants THEN "ok"
  ELSE IF op.kind = "policy" /\ op.step = "probe" THEN "reprobe"
  ELSE "route"

ProbeFinds ==
  /\ op.step \in {"probe", "reprobe"}
  /\ \E i \in Owned(Target) :
       op' = [op EXCEPT !.step = AfterProbe(cards[i]), !.id = i, !.serial = cards[i].serial]
  /\ UNCHANGED <<pipewire, session, written, changes>>

(* "Bluetooth audio card is not ready", or PipeWire does not answer: the   *)
(* policy waits; after a write it does not.                                *)
ProbeFails ==
  /\ op.step \in {"probe", "reprobe"}
  /\ op' = [op EXCEPT !.step = IF op.kind = "policy" /\ op.step = "probe" THEN "retry" ELSE "failed"]
  /\ UNCHANGED <<pipewire, session, written, changes>>

(* route_audio: half a second later, or the deadline has passed.           *)
Retry ==
  /\ op.step = "retry"
  /\ \/ /\ op.tries < MaxTries
        /\ op' = [op EXCEPT !.step = "probe", !.tries = @ + 1]
     \/ op' = [op EXCEPT !.step = "failed"]
  /\ UNCHANGED <<pipewire, session, written, changes>>

(* pipewire_session: the registry announces what there is, in the order of *)
(* ids, which are given out anew and so tell nothing.                      *)
Objects ==
  LET used == {i \in Ids : cards[i] # None}
  IN  (IF metadata THEN {<<"metadata">>} ELSE {})
        \cup {<<"device", i, cards[i].serial>> : i \in used}
        \cup {<<"node", i, cards[i].serial, cards[i].peer>> : i \in used}

InSomeOrder(S) ==
  {q \in [1 .. Cardinality(S) -> S] : \A j, k \in 1 .. Cardinality(S) : q[j] = q[k] => j = k}

Open ==
  /\ op.step \in {"profile", "route"}
  /\ session = Closed
  /\ \E q \in InSomeOrder(Objects) : session' = [Closed EXCEPT !.open = TRUE, !.down = q]
  /\ UNCHANGED <<pipewire, op, written, changes>>

-----------------------------------------------------------------------------
(* Completion                                                              *)
Succeed(s) == IF s.done = "none" THEN [s EXCEPT !.done = "ok"] ELSE s

(* Mutant: the first outcome stands.                                       *)
FailIfOpen(s) == IF s.done = "none" THEN [s EXCEPT !.done = "failed"] ELSE s

Fail(s) == [s EXCEPT !.done = "failed"]

Send(s, message) == [s EXCEPT !.up = IF s.open THEN Append(@, message) ELSE @]

(* RouteChange::confirm and write_if_ready                                 *)
Confirm(s) ==
  IF s.wrote /\ s.seen = [configured |-> Target, effective |-> Target] THEN Succeed(s) ELSE s

WriteIfReady(s) ==
  IF s.device /\ s.node /\ s.matched /\ ~s.wrote /\ s.done # "failed"
    THEN Confirm(Send([s EXCEPT !.wrote = TRUE], <<"default">>)) ELSE s

(* object_matches: the id and the serial of what was probed.               *)
ObjectMatches(e) == e[2] = op.id /\ e[3] = op.serial

(* RouteChange: the callbacks of a set_default_node.                       *)
RouteEvent(s, e) ==
  CASE e[1] = "device" -> IF ObjectMatches(e) THEN Send(s, <<"bind", e[2]>>) ELSE s
    [] e[1] = "node" /\ ObjectMatches(e) ->
         IF e[4] = Target THEN WriteIfReady([s EXCEPT !.node = TRUE]) ELSE Fail(s)
    [] e[1] = "metadata" -> WriteIfReady(Send([s EXCEPT !.matched = TRUE], <<"metadata">>))
    [] e[1] = "info" ->
         IF e[2] = Target THEN WriteIfReady([s EXCEPT !.device = TRUE]) ELSE Fail(s)
    [] e[1] = "configured" -> Confirm([s EXCEPT !.seen.configured = e[2]])
    [] e[1] = "effective" -> Confirm([s EXCEPT !.seen.effective = e[2]])
    [] e[1] = "removed" /\ e[2] = op.id -> Fail([s EXCEPT !.lost = TRUE])
    [] e[1] = "withdrawn" /\ s.matched -> Fail([s EXCEPT !.lost = TRUE])
    [] e[1] = "error" -> Fail([s EXCEPT !.lost = TRUE])
    [] OTHER -> s

(* Mutant: id and serial are taken for the card's identity.                *)
CheckedBySerial(s, peer) ==
  IF s.wrote \/ s.done = "failed" THEN s
  ELSE Send([s EXCEPT !.wrote = TRUE], <<"profile">>)

(* ProfileChange::info                                                     *)
Checked(s, peer) ==
  IF s.done = "failed" THEN s
  ELSE IF peer # Target THEN Fail(s)
  ELSE IF s.wrote THEN s
  ELSE Send([s EXCEPT !.wrote = TRUE], <<"profile">>)

(* The callbacks of a set_profile.                                         *)
ProfileEvent(s, e) ==
  CASE e[1] = "device" /\ ObjectMatches(e) ->
         Send([s EXCEPT !.matched = TRUE], <<"bind", e[2]>>)
    [] e[1] = "info" -> Checked(s, e[2])
    [] e[1] = "profile" -> IF s.wrote /\ e[2] = Wanted THEN Succeed(s) ELSE s
    [] e[1] = "removed" /\ s.matched /\ e[2] = op.id -> Fail([s EXCEPT !.lost = TRUE])
    [] e[1] = "error" -> Fail([s EXCEPT !.lost = TRUE])
    [] OTHER -> s

(* The loop dispatches events; it may go on to the end of a batch when the *)
(* outcome is known.                                                       *)
Dispatch ==
  /\ op.step \in {"profile", "route"}
  /\ session.down # <<>>
  /\ LET s == [session EXCEPT !.down = Tail(@)]
         e == Head(session.down)
     IN  session' = IF op.step = "profile" THEN ProfileEvent(s, e) ELSE RouteEvent(s, e)
  /\ UNCHANGED <<pipewire, op, written, changes>>

(* The timer of Completion::wait.                                          *)
Expire ==
  /\ session # Closed
  /\ ~session.expired
  /\ session' = [session EXCEPT !.expired = TRUE]
  /\ UNCHANGED <<pipewire, op, written, changes>>

(* A route that is configured need not be effective when the time is up.   *)
Outcome ==
  IF session.done = "failed" THEN "failed"
  ELSE IF op.step = "profile" THEN (IF session.done = "ok" THEN "ok" ELSE "failed")
  ELSE IF session.wrote /\ session.seen.configured = Target THEN "ok" ELSE "failed"

(* PolicyMutationFailed is not retried; a policy goes on to its route.     *)
StepAfter(outcome) ==
  IF outcome = "ok" /\ op.step = "profile" /\ "route" \in op.wants THEN "reprobe" ELSE outcome

(* Mutant: the loop is left only when an outcome is known.                 *)
ReturnWhenDone ==
  /\ session # Closed
  /\ session.done # "none"
  /\ op' = [op EXCEPT !.step = StepAfter(Outcome)]
  /\ session' = Closed
  /\ UNCHANGED <<pipewire, written, changes>>

(* Completion::wait is over and its connection is dropped.                 *)
Return ==
  /\ session # Closed
  /\ session.done # "none" \/ session.expired
  /\ op' = [op EXCEPT !.step = StepAfter(Outcome)]
  /\ session' = Closed
  /\ UNCHANGED <<pipewire, written, changes>>

Operation ==
  ProbeFinds \/ ProbeFails \/ Retry \/ Open \/ Dispatch \/ Expire \/ Return

AudioNext ==
  \/ \E i \in Ids, p \in Peers : CardAppears(i, p)
  \/ \E i \in Ids : CardVanishes(i)
  \/ \E i \in Ids, f \in Profiles : ProfileChanges(i, f)
  \/ \E p \in Peers : DefaultChanges(p)
  \/ DefaultFollows
  \/ ServerRestarts
  \/ SessionManagerStarts
  \/ SessionManagerStops
  \/ ServerReads
  \/ Begin
  \/ Operation

(* The loop of the operation runs and its timer fires; PipeWire need not   *)
(* do anything.                                                            *)
AudioFairness == WF_audioVars(Operation) /\ WF_audioVars(Expire)

AudioSpec == AudioInit /\ [][AudioNext]_audioVars

AudioFairSpec == AudioSpec /\ AudioFairness

-----------------------------------------------------------------------------
AudioTypeOK ==
  /\ cards \in [Ids -> {None} \cup Cards]
  /\ metadata \in BOOLEAN
  /\ default \in [configured : Peers \cup {None}, effective : Peers \cup {None}]
  /\ op.step \in {"idle", "probe", "retry", "reprobe", "profile", "route", "ok", "failed"}
  /\ session.done \in {"none", "ok", "failed"}
  /\ written \in Seq(Peers \cup {"default"})

(***************************************************************************)
(* The profile of another card is never written, whatever takes the id and *)
(* the serial of the one that was probed, in this run of PipeWire or the   *)
(* next.  And an operation writes a profile at most once and a default at  *)
(* most once: a write whose fate is unknown is not repeated by the ten     *)
(* seconds of retries ("do not automatically replay").                     *)
(***************************************************************************)
WritesOnceToTarget ==
  \A m, n \in DOMAIN written :
    /\ written[n] \in {Target, "default"}
    /\ written[m] = written[n] => m = n

(***************************************************************************)
(* A change is reported as made only if it was sent on that connection,    *)
(* and if neither the card nor, for a route, the default metadata was seen *)
(* to go away before the operation returned, also when that is told in one *)
(* batch with its effect.                                                  *)
(***************************************************************************)
OkWasSeen ==
  [][op.step \in {"profile", "route"} /\ op'.step \in {"ok", "reprobe"}
       => session.wrote /\ ~session.lost]_audioVars

(***************************************************************************)
(* Every operation ends, whatever PipeWire does or fails to do.            *)
(***************************************************************************)
OperationEnds == op.step = "probe" ~> op.step \in {"ok", "failed"}
=============================================================================
