------------------------------- MODULE Pairing -------------------------------
(***************************************************************************)
(* The pairing broker (src/src/pairing.rs): prompts that BlueZ asks of the *)
(* user through agent callbacks, and the clients' answers to them.         *)
(*                                                                         *)
(* A request may be ended by a client, by its timeout, by BlueZ dropping   *)
(* the callback or by cancel_all when BlueZ disappears.  Whoever removes   *)
(* it from the map ends it, and does so after releasing the lock; the      *)
(* daemon runs on several threads, so anything may happen in between.      *)
(*                                                                         *)
(* Abstracted: kinds of prompts, devices and secrets.  All displays are    *)
(* for one device and kind, so that each replaces the one before it.       *)
(***************************************************************************)
EXTENDS Naturals, Sequences, FiniteSets

CONSTANTS
  Requests,  \* pairing-<n>: prompts that need a response
  Displays   \* pairing-display-<n>: values shown to the user

Prompts == Requests \cup Displays

ASSUME PromptsAreDistinct == Requests \cap Displays = {}

VARIABLES
  open,      \* ids in PairingBroker::pending and PairingBroker::displays
  callback,  \* callback[p]: the agent callback, or the display's task
  closing,   \* closing[p]: what the thread that removed p will do with it
  reply,     \* reply[r]: what was sent to the callback of r
  timer,     \* requests whose pairing-timeout task is asleep
  sent       \* sent[p]: what the broadcast channel was given about p

pairingVars == <<open, callback, closing, reply, timer, sent>>

(***************************************************************************)
(* "inserted": in the map and not announced yet; "waiting": for the answer *)
(* or the display's cancellation; "dropped": cancelled by BlueZ.           *)
(***************************************************************************)
Callback == {"none", "inserted", "waiting", "returned", "dropped"}
Outcome == {"none", "accept", "reject", "cancel"}
Terminal == {"answered", "cancelled"}

PairingInit ==
  /\ open = {}
  /\ callback = [p \in Prompts |-> "none"]
  /\ closing = [p \in Prompts |-> "none"]
  /\ reply = [r \in Requests |-> "none"]
  /\ timer = {}
  /\ sent = [p \in Prompts |-> <<>>]

Send(p, event) == sent' = [sent EXCEPT ![p] = Append(@, event)]

(* The receiver of the oneshot channel still exists.                       *)
Listening(r) == callback[r] \in {"inserted", "waiting"}

(* Removing prompts from the maps, and with them the right to end them.    *)
Take(prompts, outcome) ==
  /\ open' = open \ prompts
  /\ closing' = [p \in Prompts |-> IF p \in prompts THEN outcome ELSE closing[p]]

-----------------------------------------------------------------------------
(* insert_request puts the prompt into the map ...                         *)
InsertRequest(r) ==
  /\ callback[r] = "none"
  /\ callback' = [callback EXCEPT ![r] = "inserted"]
  /\ open' = open \cup {r}
  /\ UNCHANGED <<closing, reply, timer, sent>>

(* Mutant: no timeout is scheduled.                                        *)
AnnounceWithoutTimeout(r) ==
  /\ callback[r] = "inserted"
  /\ callback' = [callback EXCEPT ![r] = "waiting"]
  /\ Send(r, "requested")
  /\ UNCHANGED <<open, closing, reply, timer>>

(* ... and, the lock released, announces it; the callback then waits.      *)
Announce(r) ==
  /\ callback[r] = "inserted"
  /\ callback' = [callback EXCEPT ![r] = "waiting"]
  /\ Send(r, "requested")
  /\ timer' = timer \cup {r}
  /\ UNCHANGED <<open, closing, reply>>

(* wait_for_response: the callback returns the answer to BlueZ.            *)
Return(r) ==
  /\ callback[r] = "waiting"
  /\ reply[r] # "none"
  /\ callback' = [callback EXCEPT ![r] = "returned"]
  /\ UNCHANGED <<open, closing, reply, timer, sent>>

(* Agent1.Cancel drops the callback; RequestGuard cancels what is pending. *)
Drop(r) ==
  /\ callback[r] = "waiting"
  /\ callback' = [callback EXCEPT ![r] = "dropped"]
  /\ Take({r} \cap open, "cancel")
  /\ UNCHANGED <<reply, timer, sent>>

(* respond, up to the release of the lock.  A response that is not valid   *)
(* for the kind of prompt changes nothing.                                 *)
Respond(r, outcome) ==
  /\ r \in open
  /\ Take({r}, outcome)
  /\ UNCHANGED <<callback, reply, timer, sent>>

(* Mutant: the timeout ends the prompt without removing it.                *)
TimeoutKeepsPrompt(r) ==
  /\ r \in timer
  /\ timer' = timer \ {r}
  /\ closing' = [closing EXCEPT ![r] = IF r \in open THEN "cancel" ELSE @]
  /\ UNCHANGED <<open, callback, reply, sent>>

(* pairing-timeout: cancel_pending, if the prompt is still there.          *)
Timeout(r) ==
  /\ r \in timer
  /\ timer' = timer \ {r}
  /\ Take({r} \cap open, "cancel")
  /\ UNCHANGED <<callback, reply, sent>>

(* cancel_all: BlueZ has disappeared, every prompt is cancelled.           *)
CancelAll ==
  /\ open # {}
  /\ Take(open, "cancel")
  /\ UNCHANGED <<callback, reply, timer, sent>>

(***************************************************************************)
(* The thread that removed the request replies to the callback and tells   *)
(* the clients.  An acceptance nobody listens to is an error of respond,   *)
(* and no event is sent.                                                   *)
(***************************************************************************)
Close(r) ==
  /\ closing[r] # "none"
  /\ closing' = [closing EXCEPT ![r] = "none"]
  /\ reply' = [reply EXCEPT ![r] = IF Listening(r) THEN closing[r] ELSE @]
  /\ IF closing[r] = "accept" /\ ~Listening(r)
       THEN UNCHANGED sent
       ELSE Send(r, IF closing[r] = "cancel" THEN "cancelled" ELSE "answered")
  /\ UNCHANGED <<open, callback, timer>>

-----------------------------------------------------------------------------
(* display: replace the display of this device and kind, then announce.    *)
Display(d) ==
  /\ callback[d] = "none"
  /\ callback' = [callback EXCEPT ![d] = "inserted"]
  /\ open' = (open \ Displays) \cup {d}
  /\ UNCHANGED <<closing, reply, timer, sent>>

AnnounceDisplay(d) ==
  /\ callback[d] = "inserted"
  /\ callback' = [callback EXCEPT ![d] = "waiting"]
  /\ Send(d, "display")
  /\ UNCHANGED <<open, closing, reply, timer>>

(* pairing-display: BlueZ cancels, whether or not it is still displayed.   *)
DisplayCancelled(d) ==
  /\ callback[d] = "waiting"
  /\ callback' = [callback EXCEPT ![d] = "dropped"]
  /\ open' = open \ {d}
  /\ Send(d, "cancelled")
  /\ UNCHANGED <<closing, reply, timer>>

(* cancel_all tells the clients about a display it removed.                *)
CloseDisplay(d) ==
  /\ closing[d] # "none"
  /\ closing' = [closing EXCEPT ![d] = "none"]
  /\ Send(d, "cancelled")
  /\ UNCHANGED <<open, callback, reply, timer>>

Broker(r) == Announce(r) \/ Return(r) \/ Timeout(r) \/ Close(r)

PairingNext ==
  \/ \E r \in Requests : InsertRequest(r)
  \/ \E r \in Requests : Broker(r)
  \/ \E r \in Requests : Drop(r)
  \/ \E r \in Requests, outcome \in {"accept", "reject"} : Respond(r, outcome)
  \/ CancelAll
  \/ \E d \in Displays : Display(d)
  \/ \E d \in Displays : AnnounceDisplay(d) \/ CloseDisplay(d)
  \/ \E d \in Displays : DisplayCancelled(d)

(***************************************************************************)
(* Threads that can run do, and timeouts pass.  Nobody has to answer.      *)
(***************************************************************************)
PairingFairness ==
  /\ \A r \in Requests : WF_pairingVars(Announce(r)) /\ WF_pairingVars(Timeout(r)) /\ WF_pairingVars(Close(r))
  /\ \A d \in Displays : WF_pairingVars(AnnounceDisplay(d)) /\ WF_pairingVars(CloseDisplay(d))

PairingSpec == PairingInit /\ [][PairingNext]_pairingVars

PairingFairSpec == PairingSpec /\ PairingFairness

-----------------------------------------------------------------------------
PairingTypeOK ==
  /\ open \in SUBSET Prompts
  /\ callback \in [Prompts -> Callback]
  /\ closing \in [Prompts -> Outcome]
  /\ reply \in [Requests -> Outcome]
  /\ timer \in SUBSET Requests
  /\ sent \in [Prompts -> Seq({"requested", "display"} \cup Terminal)]

Seen(p) == {sent[p][i] : i \in 1..Len(sent[p])}

Ends(p) == {i \in 1..Len(sent[p]) : sent[p][i] \in Terminal}

(***************************************************************************)
(* However answers, timeouts, dropped callbacks and the loss of BlueZ      *)
(* race, clients are told at most once that a request has ended, and the   *)
(* truth: BlueZ is never given an acceptance for a request that they were  *)
(* told is cancelled, and a client told that its answer was taken is       *)
(* right.  A request whose callback is gone is not offered to them any     *)
(* more.                                                                   *)
(***************************************************************************)
OneTrueEnding ==
  \A r \in Requests :
    /\ Cardinality(Ends(r)) <= 1
    /\ reply[r] = "accept" => Seen(r) \cap Terminal = {"answered"}
    /\ reply[r] = "cancel" => "answered" \notin Seen(r)
    /\ r \in open => callback[r] \in {"inserted", "waiting"}

(***************************************************************************)
(* No prompt stays for ever, even if nobody answers and BlueZ hangs.       *)
(***************************************************************************)
PromptEnds ==
  \A r \in Requests : r \in open ~> (r \notin open /\ closing[r] = "none")
=============================================================================
