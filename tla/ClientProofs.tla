---------------------------- MODULE ClientProofs ----------------------------
(***************************************************************************)
(* Theorems about what clients are told: snapshots and their watermarks    *)
(* (Publication) and the prompts of a pairing (Pairing).                   *)
(***************************************************************************)
EXTENDS Publication, Pairing, FiniteSetTheorems, TLAPS

-----------------------------------------------------------------------------
(***************************************************************************)
(* Publication.  The order of publications, for any revision space, any    *)
(* number of properties and any bounds on what the environment does.       *)
(***************************************************************************)

(***************************************************************************)
(* The inductive invariant.  Every record names its predecessor epoch, the *)
(* current publication is the newest record, and the client holds one      *)
(* record at most.                                                         *)
(***************************************************************************)
Lineage ==
  \A x \in Records : x.previous = IF x.epoch = 0 THEN {} ELSE {x.epoch - 1}

PubIsNewest ==
  \A x \in Records :
    Older(x, pub) \/ (x.epoch = pub.epoch /\ x.revision = pub.revision)

HoldsOne == \A x, y \in held : x = y

IInv ==
  /\ TypeOK
  /\ Lineage
  /\ PubIsNewest
  /\ HoldsOne
  /\ WatermarkNamesState

-----------------------------------------------------------------------------
(***************************************************************************)
(* A snapshot error is a value like any other.                             *)
(***************************************************************************)
LEMMA ValueTypes ==
  /\ \A w \in World : Available(w) \in Value
  /\ Without("loading") \in Value
  /\ Without("unavailable") \in Value
BY DEF Value, World, Available, Without

(***************************************************************************)
(* Published::update takes a watermark that is newer than every other and  *)
(* records where its epoch came from.                                      *)
(***************************************************************************)
LEMMA AdvanceIsNewer ==
  ASSUME pub \in Record, NEW next \in Value,
         pub.previous = IF pub.epoch = 0 THEN {} ELSE {pub.epoch - 1}
  PROVE  /\ Advance(next) \in Record
         /\ Older(pub, Advance(next))
         /\ Advance(next).previous =
              IF Advance(next).epoch = 0 THEN {} ELSE {Advance(next).epoch - 1}
<1>1. /\ pub.epoch \in Nat
      /\ pub.revision \in 1..MaxRevision
      /\ pub = [value |-> pub.value, epoch |-> pub.epoch,
                revision |-> pub.revision, previous |-> pub.previous]
      /\ pub.previous \in SUBSET Nat
  BY DEF Record
<1>2. CASE pub.revision = MaxRevision
  <2>1. Advance(next) = [value |-> next, epoch |-> pub.epoch + 1,
                         revision |-> 1, previous |-> {pub.epoch}]
    BY <1>2 DEF Advance
  <2>2. /\ pub.epoch + 1 \in Nat
        /\ 1 \in 1..MaxRevision
        /\ {pub.epoch} \in SUBSET Nat
    BY <1>1, RevisionAssumption
  <2>3. Advance(next) \in Record
    BY <2>1, <2>2 DEF Record
  <2>4. Older(pub, Advance(next))
    BY <1>1, <2>1 DEF Older
  <2>5. pub.epoch + 1 # 0 /\ (pub.epoch + 1) - 1 = pub.epoch
    BY <1>1
  <2> QED  BY <2>1, <2>3, <2>4, <2>5
<1>3. CASE pub.revision # MaxRevision
  <2>1. Advance(next) = [value |-> next, epoch |-> pub.epoch,
                         revision |-> pub.revision + 1, previous |-> pub.previous]
    BY <1>1, <1>3 DEF Advance
  <2>2. pub.revision + 1 \in 1..MaxRevision
    BY <1>1, <1>3, RevisionAssumption
  <2>3. Advance(next) \in Record
    BY <1>1, <2>1, <2>2 DEF Record
  <2>4. Older(pub, Advance(next))
    BY <1>1, <2>1 DEF Older
  <2> QED  BY <2>1, <2>3, <2>4
<1> QED  BY <1>2, <1>3

(***************************************************************************)
(* The invariant survives a step that leaves the publication and the       *)
(* records alone.                                                          *)
(***************************************************************************)
LEMMA RecordsUnchanged ==
  ASSUME IInv, TypeOK', Records' = Records, pub' = pub, held' = held
  PROVE  IInv'
BY DEF IInv, Lineage, PubIsNewest, HoldsOne, WatermarkNamesState, Older

(***************************************************************************)
(* Publishing a value preserves the invariant: a value that differs takes  *)
(* a fresh watermark, so no record in flight can share it.                 *)
(***************************************************************************)
LEMMA PublishPreserves ==
  ASSUME IInv, NEW next \in Value, Publish(next),
         world' \in World, monitor' = monitor, notice' \in BOOLEAN,
         refresher' \in {"receiving", "sleeping", "reading"},
         draft' = draft, inflight' = inflight, held' = held, budget' \in Budget
  PROVE  IInv'
<1>1. CASE UNCHANGED <<pub, unsent>>
  <2>1. TypeOK' /\ Records' = Records
    BY <1>1 DEF IInv, TypeOK, Records
  <2> QED  BY <1>1, <2>1, RecordsUnchanged
<1>2. CASE pub' = Advance(next) /\ unsent' = TRUE
  <2>1. /\ pub \in Record
        /\ pub.previous = IF pub.epoch = 0 THEN {} ELSE {pub.epoch - 1}
    BY DEF IInv, TypeOK, Lineage, Records
  <2>2. /\ pub' \in Record
        /\ Older(pub, pub')
        /\ pub'.previous = IF pub'.epoch = 0 THEN {} ELSE {pub'.epoch - 1}
    BY <1>2, <2>1, AdvanceIsNewer
  <2>3. TypeOK'
    BY <1>2, <2>2 DEF IInv, TypeOK
  <2>4. Records' \subseteq Records \cup {pub'}
    BY DEF Records
  <2>5. /\ \A x \in Records : x \in Record
        /\ \A x \in Record : x.epoch \in Nat /\ x.revision \in Nat
    BY DEF IInv, TypeOK, Records, Record
  <2>6. \A x \in Records : Older(x, pub')
    <3> SUFFICES ASSUME NEW x \in Records PROVE Older(x, pub')
      OBVIOUS
    <3>1. Older(x, pub) \/ (x.epoch = pub.epoch /\ x.revision = pub.revision)
      BY DEF IInv, PubIsNewest
    <3>2. /\ x.epoch \in Nat /\ x.revision \in Nat
          /\ pub.epoch \in Nat /\ pub.revision \in Nat
          /\ pub'.epoch \in Nat /\ pub'.revision \in Nat
      BY <2>1, <2>2, <2>5
    <3> QED  BY <2>2, <3>1, <3>2 DEF Older
  <2>7. Lineage'
    BY <2>2, <2>4 DEF IInv, Lineage
  <2>8. PubIsNewest'
    BY <2>4, <2>6 DEF PubIsNewest, Older
  <2>9. HoldsOne'
    BY DEF IInv, HoldsOne
  <2>10. WatermarkNamesState'
    <3>1. \A x \in Records : ~(x.epoch = pub'.epoch /\ x.revision = pub'.revision)
      BY <2>2, <2>5, <2>6 DEF Older
    <3> QED  BY <2>4, <3>1 DEF IInv, WatermarkNamesState
  <2> QED  BY <2>3, <2>7, <2>8, <2>9, <2>10 DEF IInv
<1> QED  BY <1>1, <1>2 DEF Publish

(***************************************************************************)
(* Only the loading publication exists at first.                           *)
(***************************************************************************)
LEMMA InitIInv == Init => IInv
<1> SUFFICES ASSUME Init PROVE IInv
  OBVIOUS
<1>1. pub \in Record
  BY ValueTypes, RevisionAssumption DEF Init, Record
<1>2. draft \in [Parts -> SUBSET BOOLEAN]
  BY DEF Init, Unread
<1>3. budget \in Budget
  BY BoundsAssumption DEF Init, Budget
<1>4. TypeOK
  BY <1>1, <1>2, <1>3 DEF Init, TypeOK
<1>5. Records = {pub} /\ pub.epoch = 0 /\ pub.previous = {}
  BY DEF Init, Records
<1>6. Lineage /\ PubIsNewest /\ HoldsOne /\ WatermarkNamesState
  BY <1>5 DEF Init, Lineage, PubIsNewest, HoldsOne, WatermarkNamesState
<1> QED  BY <1>4, <1>6 DEF IInv

(***************************************************************************)
(* Every step of the pipeline preserves the inductive invariant.           *)
(***************************************************************************)
LEMMA NextIInv == IInv /\ [Next]_vars => IInv'
<1> SUFFICES ASSUME IInv, [Next]_vars PROVE IInv'
  OBVIOUS
<1>1. ASSUME UNCHANGED <<pub, inflight, held>>, TypeOK'
      PROVE  IInv'
  BY <1>1, RecordsUnchanged DEF Records
<1>2. ASSUME NEW p \in Parts, WorldChanges(p) PROVE IInv'
  <2>1. world' \in World /\ notice' \in BOOLEAN
    BY <1>2 DEF WorldChanges, IInv, TypeOK, World
  <2>2. budget' \in Budget
    BY <1>2, BoundsAssumption DEF WorldChanges, IInv, TypeOK, Budget
  <2> QED  BY <1>1, <1>2, <2>1, <2>2 DEF WorldChanges, IInv, TypeOK
<1>3. CASE MonitorFails
  <2>1. budget' \in Budget
    BY <1>3, BoundsAssumption DEF MonitorFails, IInv, TypeOK, Budget
  <2> QED  BY <1>1, <1>3, <2>1 DEF MonitorFails, IInv, TypeOK
<1>4. CASE Monitor
  BY <1>1, <1>4 DEF Monitor, MonitorNotifies, MonitorSubscribes, IInv, TypeOK
<1>5. CASE Receive \/ Drain
  BY <1>1, <1>5 DEF Receive, Drain, Unread, IInv, TypeOK
<1>6. ASSUME NEW p \in Parts, ReadPart(p) PROVE IInv'
  <2>1. draft' \in [Parts -> SUBSET BOOLEAN]
    BY <1>6 DEF ReadPart, IInv, TypeOK, World
  <2> QED  BY <1>1, <1>6, <2>1 DEF ReadPart, IInv, TypeOK
<1>7. CASE Update
  <2>1. PICK next \in World : Publish(Available(next))
    BY <1>7 DEF Update
  <2> QED  BY <1>7, <2>1, PublishPreserves, ValueTypes DEF Update, IInv, TypeOK
<1>8. CASE UpdateFailed
  <2>1. budget' \in Budget
    BY <1>8, BoundsAssumption DEF UpdateFailed, IInv, TypeOK, Budget
  <2> QED  BY <1>8, <2>1, PublishPreserves, ValueTypes DEF UpdateFailed, IInv, TypeOK
<1>9. CASE Forward
  BY <1>9, RecordsUnchanged DEF Forward, Records, IInv, TypeOK
<1>10. CASE CachedRead
  <2>1. budget' \in Budget
    BY <1>10, BoundsAssumption DEF CachedRead, IInv, TypeOK, Budget
  <2> QED  BY <1>10, <2>1, RecordsUnchanged DEF CachedRead, Records, IInv, TypeOK
<1>11. ASSUME NEW x \in inflight, Deliver(x) PROVE IInv'
  <2>1. /\ held' = {x} \/ held' = held
        /\ inflight' \subseteq inflight
        /\ pub' = pub
    BY <1>11 DEF Deliver
  <2>2. TypeOK'
    BY <1>11, <2>1 DEF Deliver, IInv, TypeOK
  <2>3. Records' \subseteq Records
    BY <2>1 DEF Records
  <2> QED  BY <2>1, <2>2, <2>3
           DEF IInv, Lineage, PubIsNewest, HoldsOne, WatermarkNamesState, Older
<1>12. CASE UNCHANGED vars
  BY <1>1, <1>12 DEF vars, IInv, TypeOK
<1> QED  BY <1>2, <1>3, <1>4, <1>5, <1>6, <1>7, <1>8, <1>9, <1>10, <1>11, <1>12
         DEF Next, Refresher

(***************************************************************************)
(* The inductive invariant holds in every reachable state.                 *)
(***************************************************************************)
THEOREM Invariance == Spec => []IInv
BY InitIInv, NextIInv, PTL DEF Spec

(***************************************************************************)
(* Two records with the same watermark, wherever they are between daemon   *)
(* and client, carry the same state.                                       *)
(***************************************************************************)
THEOREM WatermarkIdentity == Spec => [](TypeOK /\ WatermarkNamesState)
<1>1. IInv => TypeOK /\ WatermarkNamesState
  BY DEF IInv
<1> QED  BY <1>1, Invariance, PTL

(***************************************************************************)
(* A client that follows the acceptance rule never goes back to an older   *)
(* publication, however late a captured reply arrives and however many     *)
(* epochs have been exhausted.                                             *)
(***************************************************************************)
THEOREM ClientOrder == Spec => ClientNeverRegresses
<1>1. ASSUME IInv, [Next]_vars
      PROVE  [\A x \in held, y \in held' : x # y => Older(x, y)]_vars
  <2> SUFFICES ASSUME Next, NEW x \in held, NEW y \in held', x # y
               PROVE  Older(x, y)
    BY <1>1
  <2>1. held' # held
    BY <1>1 DEF IInv, HoldsOne
  <2>2. \E z \in inflight : Deliver(z)
    BY <2>1 DEF Next, WorldChanges, MonitorFails, Monitor, MonitorNotifies,
         MonitorSubscribes, Refresher, Receive, Drain, ReadPart, Update,
         UpdateFailed, Forward, CachedRead
  <2>3. y \in inflight /\ Accepts(y)
    BY <2>1, <2>2 DEF Deliver
  <2>4. /\ x \in Records /\ y \in Records
        /\ x \in Record /\ y \in Record
    BY <1>1, <2>3 DEF IInv, TypeOK, Records
  <2>5. /\ x.epoch \in Nat /\ y.epoch \in Nat
        /\ y.previous = IF y.epoch = 0 THEN {} ELSE {y.epoch - 1}
    BY <1>1, <2>4 DEF IInv, Lineage, Record
  <2>6. \/ y.epoch = x.epoch /\ y.revision > x.revision
        \/ x.epoch \in y.previous
    BY <2>3 DEF Accepts
  <2> QED  BY <2>4, <2>5, <2>6 DEF Older, Record
<1> QED  BY <1>1, Invariance, PTL DEF Spec, ClientNeverRegresses

-----------------------------------------------------------------------------
(***************************************************************************)
(* Pairing.  Whoever ends a pairing request, for any number of requests    *)
(* and displays: it ends once, and clients are told the truth about it.    *)
(***************************************************************************)

Events == {"requested", "display"} \cup Terminal

(* Nothing has been said of an end of p.                                   *)
Unended(p) == \A i \in 1..Len(sent[p]) : sent[p][i] \notin Terminal

(***************************************************************************)
(* The right to end a request moves from the map to the thread that        *)
(* removed it, and is used up by the end: while either has it, no end has  *)
(* been announced and no reply was given.                                  *)
(***************************************************************************)
RightToEnd(r) ==
  /\ r \in open => closing[r] = "none" /\ callback[r] \in {"inserted", "waiting"}
  /\ callback[r] = "none" => r \notin open /\ closing[r] = "none"
  /\ callback[r] = "none" \/ r \in open \/ closing[r] # "none" =>
       Unended(r) /\ reply[r] = "none"

(* Once it has ended, one announcement says so, and it says how.           *)
EndedOnce(r) ==
  /\ \A i, j \in 1..Len(sent[r]) :
       sent[r][i] \in Terminal /\ sent[r][j] \in Terminal => i = j
  /\ reply[r] = "accept" => \E i \in 1..Len(sent[r]) : sent[r][i] = "answered"
  /\ reply[r] = "cancel" => \E i \in 1..Len(sent[r]) : sent[r][i] = "cancelled"

PairingIInv == PairingTypeOK /\ \A r \in Requests : RightToEnd(r) /\ EndedOnce(r)

-----------------------------------------------------------------------------
(* What announcing an event leaves of the earlier ones.                    *)
LEMMA SendFields ==
  ASSUME PairingTypeOK, NEW p \in Prompts, NEW e \in Events, Send(p, e)
  PROVE  /\ sent' \in [Prompts -> Seq(Events)]
         /\ Len(sent'[p]) = Len(sent[p]) + 1 /\ Len(sent[p]) \in Nat
         /\ sent'[p][Len(sent[p]) + 1] = e
         /\ \A i \in 1..Len(sent[p]) : sent'[p][i] = sent[p][i]
         /\ \A q \in Prompts : q # p => sent'[q] = sent[q]
<1>1. sent \in [Prompts -> Seq(Events)] /\ sent[p] \in Seq(Events)
  BY DEF PairingTypeOK, Events
<1>2. sent' = [sent EXCEPT ![p] = Append(sent[p], e)]
  BY DEF Send
<1>3. sent'[p] = Append(sent[p], e) /\ Append(sent[p], e) \in Seq(Events)
  BY <1>1, <1>2
<1>4. sent' \in [Prompts -> Seq(Events)] /\ \A q \in Prompts : q # p => sent'[q] = sent[q]
  BY <1>1, <1>2, <1>3
<1> QED  BY <1>1, <1>3, <1>4

(* An announcement that is not an end changes nothing about the end.       *)
LEMMA AnnounceKeepsEnd ==
  ASSUME PairingTypeOK, NEW r \in Requests, NEW e \in {"requested", "display"},
         NEW p \in Prompts, Send(p, e), EndedOnce(r), UNCHANGED reply
  PROVE  EndedOnce(r)' /\ (Unended(r) => Unended(r)')
<1>1. e \in Events /\ e \notin Terminal /\ r \in Prompts
  BY DEF Events, Terminal, Prompts
<1>2. CASE r # p
  <2>1. sent'[r] = sent[r]
    BY <1>1, <1>2, SendFields
  <2> QED  BY <2>1 DEF EndedOnce, Unended
<1>3. CASE r = p
  <2>1. /\ Len(sent'[r]) = Len(sent[r]) + 1 /\ Len(sent[r]) \in Nat
        /\ sent'[r][Len(sent[r]) + 1] = e
        /\ \A i \in 1..Len(sent[r]) : sent'[r][i] = sent[r][i]
    BY <1>1, <1>3, SendFields
  <2>2. \A i \in 1..Len(sent'[r]) : i \in 1..Len(sent[r]) \/ i = Len(sent[r]) + 1
    BY <2>1
  <2>3. 1..Len(sent[r]) \subseteq 1..Len(sent'[r])
    BY <2>1
  <2>4. \A i \in 1..Len(sent'[r]) : sent'[r][i] \in Terminal =>
          i \in 1..Len(sent[r]) /\ sent[r][i] \in Terminal
    BY <1>1, <2>1, <2>2
  <2>5. Unended(r) => Unended(r)'
    BY <2>4 DEF Unended
  <2>6. EndedOnce(r)'
    BY <2>1, <2>3, <2>4 DEF EndedOnce
  <2> QED  BY <2>5, <2>6
<1> QED  BY <1>2, <1>3

(* The first announcement of an end is the only one.                       *)
LEMMA FirstEnd ==
  ASSUME PairingTypeOK, NEW r \in Requests, Unended(r), NEW e \in Terminal, Send(r, e),
         reply'[r] = "accept" => e = "answered", reply'[r] = "cancel" => e = "cancelled"
  PROVE  EndedOnce(r)'
<1>1. e \in Events /\ r \in Prompts
  BY DEF Events, Prompts
<1>2. /\ Len(sent'[r]) = Len(sent[r]) + 1 /\ Len(sent[r]) \in Nat
      /\ sent'[r][Len(sent[r]) + 1] = e
      /\ \A i \in 1..Len(sent[r]) : sent'[r][i] = sent[r][i]
  BY <1>1, SendFields
<1>3. \A i \in 1..Len(sent'[r]) : i \in 1..Len(sent[r]) \/ i = Len(sent[r]) + 1
  BY <1>2
<1>4. \A i \in 1..Len(sent'[r]) : sent'[r][i] \in Terminal => i = Len(sent[r]) + 1
  BY <1>2, <1>3 DEF Unended
<1>5. Len(sent[r]) + 1 \in 1..Len(sent'[r])
  BY <1>2
<1> QED  BY <1>2, <1>4, <1>5 DEF EndedOnce

LEMMA Step ==
  ASSUME PairingIInv, [PairingNext]_pairingVars
  PROVE  PairingIInv'
<1>a. /\ PairingTypeOK /\ \A r \in Requests : RightToEnd(r) /\ EndedOnce(r)
      /\ Requests \subseteq Prompts /\ Displays \subseteq Prompts
      /\ \A r \in Requests, d \in Displays : r # d
  BY PromptsAreDistinct DEF PairingIInv, Prompts
<1>b. /\ open \in SUBSET Prompts /\ callback \in [Prompts -> Callback]
      /\ closing \in [Prompts -> Outcome] /\ reply \in [Requests -> Outcome]
      /\ timer \in SUBSET Requests /\ sent \in [Prompts -> Seq(Events)]
  BY <1>a DEF PairingTypeOK, Events
<1>c. ASSUME UNCHANGED <<reply, sent>>,
             \A r \in Requests :
               /\ r \in open' => /\ closing'[r] = "none" /\ callback'[r] \in {"inserted", "waiting"}
                                 /\ r \in open \/ callback[r] = "none"
               /\ callback'[r] = "none" => callback[r] = "none" /\ r \notin open' /\ closing'[r] = "none"
               /\ closing'[r] # "none" => r \in open \/ closing[r] # "none"
      PROVE  \A r \in Requests : RightToEnd(r)' /\ EndedOnce(r)'
  BY <1>a, <1>c DEF RightToEnd, EndedOnce, Unended
<1>1. ASSUME NEW r \in Requests, InsertRequest(r) PROVE PairingIInv'
  <2>1. PairingTypeOK'
    BY <1>1, <1>a, <1>b DEF InsertRequest, PairingTypeOK, Callback
  <2> QED  BY <1>1, <1>a, <1>b, <1>c, <2>1 DEF InsertRequest, PairingIInv, RightToEnd
<1>2. ASSUME NEW r \in Requests, Announce(r) PROVE PairingIInv'
  <2>1. /\ callback' = [callback EXCEPT ![r] = "waiting"] /\ Send(r, "requested")
        /\ UNCHANGED <<open, closing, reply>> /\ callback[r] = "inserted"
        /\ timer' = timer \cup {r}
    BY <1>2 DEF Announce
  <2>2. sent' \in [Prompts -> Seq(Events)]
    BY <1>a, <2>1, SendFields DEF Events
  <2>3. PairingTypeOK'
    BY <1>a, <1>b, <2>1, <2>2 DEF PairingTypeOK, Callback, Events
  <2>4. ASSUME NEW q \in Requests PROVE RightToEnd(q)' /\ EndedOnce(q)'
    <3>1. EndedOnce(q)' /\ (Unended(q) => Unended(q)')
      BY <1>a, <2>1, AnnounceKeepsEnd
    <3> QED  BY <1>a, <1>b, <2>1, <3>1 DEF RightToEnd
  <2> QED  BY <2>3, <2>4 DEF PairingIInv
<1>3. ASSUME NEW r \in Requests, Return(r) \/ Drop(r) \/ Timeout(r) PROVE PairingIInv'
  <2>1. PairingTypeOK'
    BY <1>3, <1>a, <1>b DEF Return, Drop, Timeout, Take, PairingTypeOK, Callback, Outcome
  <2>2. \A q \in Requests : q # r => /\ callback'[q] = callback[q] /\ closing'[q] = closing[q]
                                     /\ (q \in open' <=> q \in open)
    BY <1>3, <1>a, <1>b DEF Return, Drop, Timeout, Take
  <2>3. /\ UNCHANGED <<reply, sent>>
        /\ r \in open' => r \in open /\ UNCHANGED <<callback, closing>>
        /\ closing'[r] # "none" => r \in open \/ closing[r] # "none"
        /\ callback'[r] = "none" => callback[r] = "none" /\ r \notin open' /\ closing'[r] = "none"
    <3>1. CASE Return(r)
      <4>1. r \notin open
        BY <1>a, <3>1 DEF Return, RightToEnd
      <4> QED  BY <1>a, <1>b, <3>1, <4>1 DEF Return
    <3>2. CASE Drop(r)
      BY <1>a, <1>b, <3>2 DEF Drop, Take
    <3>3. CASE Timeout(r)
      BY <1>a, <1>b, <3>3 DEF Timeout, Take, RightToEnd
    <3> QED  BY <1>3, <3>1, <3>2, <3>3
  <2> QED  BY <1>a, <1>c, <2>1, <2>2, <2>3 DEF PairingIInv, RightToEnd
<1>4. ASSUME NEW r \in Requests, NEW outcome \in {"accept", "reject"}, Respond(r, outcome)
      PROVE  PairingIInv'
  <2>1. PairingTypeOK'
    BY <1>4, <1>a, <1>b DEF Respond, Take, PairingTypeOK, Outcome
  <2> QED  BY <1>4, <1>a, <1>b, <1>c, <2>1 DEF Respond, Take, PairingIInv, RightToEnd
<1>5. CASE CancelAll
  <2>1. PairingTypeOK'
    BY <1>5, <1>a, <1>b DEF CancelAll, Take, PairingTypeOK, Outcome
  <2> QED  BY <1>5, <1>a, <1>b, <1>c, <2>1 DEF CancelAll, Take, PairingIInv, RightToEnd
<1>6. ASSUME NEW r \in Requests, Close(r) PROVE PairingIInv'
  <2>1. /\ closing[r] # "none" /\ closing' = [closing EXCEPT ![r] = "none"]
        /\ reply' = [reply EXCEPT ![r] = IF Listening(r) THEN closing[r] ELSE @]
        /\ UNCHANGED <<open, callback, timer>>
    BY <1>6 DEF Close
  <2>2. Unended(r) /\ reply[r] = "none" /\ r \notin open /\ callback[r] # "none"
    BY <1>a, <2>1 DEF RightToEnd
  <2>3. reply'[r] = IF Listening(r) THEN closing[r] ELSE "none"
    BY <1>b, <2>1, <2>2
  <2>4. reply' \in [Requests -> Outcome] /\ closing' \in [Prompts -> Outcome]
    BY <1>a, <1>b, <2>1 DEF Outcome
  <2>5. \A q \in Requests : q # r => reply'[q] = reply[q] /\ closing'[q] = closing[q]
    BY <1>a, <1>b, <2>1
  <2>6. CASE closing[r] = "accept" /\ ~Listening(r)
    <3>1. UNCHANGED sent
      BY <1>6, <2>6 DEF Close
    <3>2. PairingTypeOK'
      BY <1>b, <2>1, <2>4, <3>1 DEF PairingTypeOK, Events
    <3>3. ASSUME NEW q \in Requests PROVE RightToEnd(q)' /\ EndedOnce(q)'
      <4>1. reply'[q] = reply[q] /\ closing'[q] \in {closing[q], "none"}
        BY <1>a, <1>b, <2>1, <2>2, <2>3, <2>5, <2>6
      <4> QED  BY <1>a, <2>1, <3>1, <4>1 DEF RightToEnd, EndedOnce, Unended
    <3> QED  BY <3>2, <3>3 DEF PairingIInv
  <2>7. CASE ~(closing[r] = "accept" /\ ~Listening(r))
    <3> DEFINE e == IF closing[r] = "cancel" THEN "cancelled" ELSE "answered"
    <3>1. Send(r, e) /\ e \in Terminal /\ e \in Events
      BY <1>6, <2>7 DEF Close, Terminal, Events
    <3>2. /\ reply'[r] = "accept" => e = "answered"
          /\ reply'[r] = "cancel" => e = "cancelled"
      BY <2>3
    <3> HIDE DEF e
    <3>3. /\ sent' \in [Prompts -> Seq(Events)]
          /\ \A q \in Prompts : q # r => sent'[q] = sent[q]
      BY <1>a, <3>1, SendFields
    <3>4. PairingTypeOK'
      BY <1>b, <2>1, <2>4, <3>3 DEF PairingTypeOK, Events
    <3>5. EndedOnce(r)'
      BY <1>a, <2>2, <3>1, <3>2, FirstEnd
    <3>6. RightToEnd(r)'
      BY <1>a, <1>b, <2>1, <2>2 DEF RightToEnd
    <3>7. ASSUME NEW q \in Requests, q # r PROVE RightToEnd(q)' /\ EndedOnce(q)'
      <4>1. /\ sent'[q] = sent[q] /\ reply'[q] = reply[q] /\ closing'[q] = closing[q]
            /\ UNCHANGED <<open, callback>>
        BY <1>a, <2>1, <2>5, <3>3, <3>7
      <4> QED  BY <1>a, <4>1 DEF RightToEnd, EndedOnce, Unended
    <3> QED  BY <3>4, <3>5, <3>6, <3>7 DEF PairingIInv
  <2> QED  BY <2>6, <2>7
<1>7. ASSUME NEW d \in Displays, Display(d) PROVE PairingIInv'
  <2>1. PairingTypeOK'
    BY <1>7, <1>a, <1>b DEF Display, PairingTypeOK, Callback
  <2>2. \A r \in Requests : callback'[r] = callback[r] /\ (r \in open' <=> r \in open)
    BY <1>7, <1>a, <1>b DEF Display
  <2> QED  BY <1>7, <1>a, <1>c, <2>1, <2>2 DEF Display, PairingIInv, RightToEnd
<1>8. ASSUME NEW d \in Displays, AnnounceDisplay(d) \/ CloseDisplay(d) \/ DisplayCancelled(d)
      PROVE  PairingIInv'
  <2>1. PICK e \in Events : Send(d, e)
    BY <1>8 DEF AnnounceDisplay, CloseDisplay, DisplayCancelled, Events, Terminal
  <2>2. /\ sent' \in [Prompts -> Seq(Events)]
        /\ \A q \in Prompts : q # d => sent'[q] = sent[q]
    BY <1>a, <2>1, SendFields
  <2>3. PairingTypeOK'
    BY <1>8, <1>a, <1>b, <2>2
    DEF AnnounceDisplay, CloseDisplay, DisplayCancelled, PairingTypeOK, Callback, Outcome, Events
  <2>4. ASSUME NEW r \in Requests PROVE RightToEnd(r)' /\ EndedOnce(r)'
    <3>1. /\ callback'[r] = callback[r] /\ closing'[r] = closing[r] /\ reply'[r] = reply[r]
          /\ (r \in open' <=> r \in open) /\ sent'[r] = sent[r]
      BY <1>8, <1>a, <1>b, <2>2 DEF AnnounceDisplay, CloseDisplay, DisplayCancelled
    <3> QED  BY <1>a, <3>1 DEF RightToEnd, EndedOnce, Unended
  <2> QED  BY <2>3, <2>4 DEF PairingIInv
<1>9. CASE UNCHANGED pairingVars
  BY <1>9, <1>a DEF pairingVars, PairingIInv, PairingTypeOK, RightToEnd, EndedOnce, Unended
<1> QED
  BY <1>1, <1>2, <1>3, <1>4, <1>5, <1>6, <1>7, <1>8, <1>9 DEF PairingNext, Broker

LEMMA Start == PairingInit => PairingIInv
<1> SUFFICES ASSUME PairingInit PROVE PairingIInv
  OBVIOUS
<1>1. PairingTypeOK
  BY DEF PairingInit, PairingTypeOK, Callback, Outcome
<1>2. ASSUME NEW r \in Requests PROVE RightToEnd(r) /\ EndedOnce(r)
  <2>1. /\ open = {} /\ callback[r] = "none" /\ closing[r] = "none" /\ reply[r] = "none"
        /\ sent[r] = <<>>
    BY DEF PairingInit, Prompts
  <2>2. 1..Len(sent[r]) = {}
    BY <2>1
  <2> QED  BY <2>1, <2>2 DEF RightToEnd, EndedOnce, Unended
<1> QED  BY <1>1, <1>2 DEF PairingIInv

(***************************************************************************)
(* The inductive invariant holds in every reachable state.                 *)
(***************************************************************************)
THEOREM PairingInvariance == PairingSpec => []PairingIInv
BY Start, Step, PTL DEF PairingSpec

(***************************************************************************)
(* However respond, the timeout, a dropped callback and cancel_all race,   *)
(* each pairing request is reported ended at most once and truthfully, and *)
(* none is left open without its callback.                                 *)
(***************************************************************************)
THEOREM EndsOnceAndTruly == PairingSpec => []OneTrueEnding
<1>1. ASSUME PairingIInv, NEW r \in Requests
      PROVE  /\ Cardinality(Ends(r)) <= 1
             /\ reply[r] = "accept" => Seen(r) \cap Terminal = {"answered"}
             /\ reply[r] = "cancel" => "answered" \notin Seen(r)
             /\ r \in open => callback[r] \in {"inserted", "waiting"}
  <2>1. RightToEnd(r) /\ EndedOnce(r)
    BY <1>1 DEF PairingIInv
  <2>2. "answered" \in Terminal /\ "cancelled" \in Terminal /\ "answered" # "cancelled"
    BY DEF Terminal
  <2>3. Cardinality(Ends(r)) <= 1
    <3>1. CASE Ends(r) = {}
      BY <3>1, FS_EmptySet
    <3>2. CASE Ends(r) # {}
      <4>1. PICK i \in 1..Len(sent[r]) : sent[r][i] \in Terminal
        BY <3>2 DEF Ends
      <4>2. Ends(r) = {i}
        BY <2>1, <4>1 DEF Ends, EndedOnce
      <4>3. Cardinality(Ends(r)) = 1
        BY <4>2, FS_Singleton, Zenon
      <4> QED  BY <4>3
    <3> QED  BY <3>1, <3>2
  <2>4. ASSUME reply[r] = "accept" PROVE Seen(r) \cap Terminal = {"answered"}
    <3>1. PICK i \in 1..Len(sent[r]) : sent[r][i] = "answered"
      BY <2>1, <2>4 DEF EndedOnce
    <3>2. \A j \in 1..Len(sent[r]) : sent[r][j] \in Terminal => j = i
      BY <2>1, <2>2, <3>1 DEF EndedOnce
    <3> QED  BY <2>2, <3>1, <3>2 DEF Seen
  <2>5. ASSUME reply[r] = "cancel", "answered" \in Seen(r) PROVE FALSE
    <3>1. PICK i \in 1..Len(sent[r]) : sent[r][i] = "cancelled"
      BY <2>1, <2>5 DEF EndedOnce
    <3>2. PICK j \in 1..Len(sent[r]) : sent[r][j] = "answered"
      BY <2>5 DEF Seen
    <3> QED  BY <2>1, <2>2, <3>1, <3>2 DEF EndedOnce
  <2> QED  BY <2>1, <2>3, <2>4, <2>5 DEF RightToEnd
<1>2. PairingIInv => OneTrueEnding
  BY <1>1 DEF OneTrueEnding
<1> QED  BY <1>2, PairingInvariance, PTL
=============================================================================
