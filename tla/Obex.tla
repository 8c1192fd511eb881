-------------------------------- MODULE Obex --------------------------------
(***************************************************************************)
(* File transfers (src/src/obex.rs, obex/authorization.rs and              *)
(* daemon/obex.rs): outgoing pushes, the authorization of incoming ones,   *)
(* and the task that follows a transfer in obexd until it ends.            *)
(*                                                                         *)
(* A client, the prompt's deadline, obexd and the remote device may each   *)
(* end a transfer, and none of them waits for the others.                  *)
(*                                                                         *)
(* Abstracted: files, devices, byte counts (so progress is one event), the *)
(* registration of the agent.  obexd is external: it moves transfers on,   *)
(* signals their status, and may crash.  All outgoing transfers have one   *)
(* owner.                                                                  *)
(***************************************************************************)
EXTENDS Naturals, Sequences, FiniteSets

CONSTANTS
  Outgoing,  \* obex-transfer-<n>
  Incoming   \* obex-incoming-<n>

Transfers == Outgoing \cup Incoming

ASSUME DirectionsAreDistinct == Outgoing \cap Incoming = {}

VARIABLES
  phase,     \* phase[t]: how far the daemon has got with t
  pending,   \* ids in IncomingBroker::pending
  sending,   \* sending[t]: the decision of a thread that removed t from it
  decision,  \* decision[t]: what has arrived in the prompt's channel
  files,     \* destinations that exist
  cancels,   \* ids in the cancellations maps
  signalled, \* transfers whose cancel channel was used
  seen,      \* seen[t]: monitor_transfer's current.status
  failed,    \* transfers whose monitor_transfer returned an error
  sent,      \* sent[t]: what the broadcast channel was given about t
  obexd,     \* obexd[t]: the transfer in obexd
  feed       \* feed[t]: its status signals that are not yet taken

promptVars == <<pending, sending, decision>>
monitorVars == <<seen, failed>>
obexdVars == <<obexd, feed>>
obexVars == <<phase, pending, sending, decision, files, cancels, signalled, seen,
          failed, sent, obexd, feed>>

(***************************************************************************)
(* "accepted": the answer is known and the transfer not registered yet;    *)
(* then the awaits of monitor_transfer; "cleanup": it has returned.        *)
(* "dropped": the call that was to answer obexd was abandoned.             *)
(***************************************************************************)
Monitoring == {"connect", "refresh", "watch", "cancelling"}
Phase == {"none", "prompt", "accepted", "dropped", "cleanup", "ended"} \cup Monitoring
Decision == {"none", "accept", "reject", "cancel"}

Live == {"queued", "active"}
Final == {"complete", "error", "cancelled"}
ObexStatus == {"absent", "refused", "gone"} \cup Live \cup Final

(* lifecycle_event                                                         *)
Event(status) ==
  CASE status = "complete"  -> "completed"
    [] status = "cancelled" -> "cancelled"
    [] status = "error"     -> "failed"
    [] status = "queued"    -> "queued"
    [] status = "active"    -> "progress"

Terminal == {"completed", "cancelled", "failed"}
Events == {"authorization-requested", "queued", "progress"} \cup Terminal

Send(t, event) == sent' = [sent EXCEPT ![t] = Append(@, event)]

ObexInit ==
  /\ phase = [t \in Transfers |-> "none"]
  /\ pending = {}
  /\ sending = [t \in Incoming |-> "none"]
  /\ decision = [t \in Incoming |-> "none"]
  /\ files = {} /\ cancels = {} /\ signalled = {} /\ failed = {}
  /\ seen = [t \in Transfers |-> "queued"]
  /\ sent = [t \in Transfers |-> <<>>]
  /\ obexd = [t \in Transfers |-> "absent"]
  /\ feed = [t \in Transfers |-> <<>>]

-----------------------------------------------------------------------------
(* start_file: CreateSession and SendFile; obexd may already have ended it. *)
StartFile(t, status) == obexd' = [obexd EXCEPT ![t] = status]

(* start_owned, once SendFile has returned the transfer's properties, and  *)
(* the task's first update: a transfer that is over already is not         *)
(* monitored.  A start that fails leaves nothing behind.                   *)
StartOwned(t, status) ==
  /\ phase[t] = "none"
  /\ phase' = [phase EXCEPT ![t] = IF status \in Final THEN "cleanup" ELSE "connect"]
  /\ cancels' = cancels \cup {t}
  /\ StartFile(t, status)
  /\ seen' = [seen EXCEPT ![t] = status]
  /\ Send(t, Event(status))
  /\ UNCHANGED <<promptVars, files, signalled, failed, feed>>

(* prepare_authorization: the transfer, its session or its device cannot   *)
(* be looked up, or no destination reserved; obexd is given an error.      *)
PrepareFails(t) ==
  /\ phase[t] = "none"
  /\ phase' = [phase EXCEPT ![t] = "ended"]
  /\ obexd' = [obexd EXCEPT ![t] = "refused"]
  /\ UNCHANGED <<promptVars, files, cancels, signalled, monitorVars, sent, feed>>

(* The destination is created exclusively, and removed by its path.        *)
ReserveDestination(t) == t \notin files /\ files' = files \cup {t}
RemoveReservation(t) == files' = files \ {t}

(* authorize: reserve the destination, show the prompt.                    *)
Authorize(t) ==
  /\ phase[t] = "none"
  /\ phase' = [phase EXCEPT ![t] = "prompt"]
  /\ ReserveDestination(t)
  /\ pending' = pending \cup {t}
  /\ obexd' = [obexd EXCEPT ![t] = "queued"]
  /\ Send(t, "authorization-requested")
  /\ UNCHANGED <<sending, decision, cancels, signalled, monitorVars, feed>>

(* respond, or cancel_transfer on a prompt: remove it from the map ...     *)
Answer(t, answer) ==
  /\ t \in pending
  /\ pending' = pending \ {t}
  /\ sending' = [sending EXCEPT ![t] = answer]
  /\ UNCHANGED <<phase, decision, files, cancels, signalled, monitorVars, sent,
                 obexdVars>>

(* ... and, the lock released, send; nobody may be left to receive it.     *)
Deliver(t) ==
  /\ sending[t] # "none"
  /\ sending' = [sending EXCEPT ![t] = "none"]
  /\ decision' = [decision EXCEPT ![t] =
                    IF phase[t] = "prompt" THEN sending[t] ELSE @]
  /\ UNCHANGED <<phase, pending, files, cancels, signalled, monitorVars, sent,
                 obexdVars>>

(* cancel_authorizations: Agent1.Cancel, Release or a new owner of obexd.  *)
CancelAuthorizations ==
  /\ pending # {}
  /\ decision' = [t \in Incoming |-> IF t \in pending THEN "cancel" ELSE decision[t]]
  /\ pending' = {}
  /\ UNCHANGED <<phase, sending, files, cancels, signalled, monitorVars, sent,
                 obexdVars>>

(* The authorization ends without a transfer: the reservation is removed   *)
(* when `authorization' is dropped, and obexd is given an error.           *)
Refuse(t) ==
  /\ phase' = [phase EXCEPT ![t] = "ended"]
  /\ RemoveReservation(t)
  /\ obexd' = [obexd EXCEPT ![t] = IF @ \in Live THEN "refused" ELSE @]
  /\ Send(t, "cancelled")

(* request_decision: the deadline passes first.                            *)
Timeout(t) ==
  /\ phase[t] = "prompt" /\ decision[t] = "none"
  /\ pending' = pending \ {t}
  /\ Refuse(t)
  /\ UNCHANGED <<sending, decision, cancels, signalled, monitorVars, feed>>

(* authorize: the decision has arrived.                                    *)
Decide(t) ==
  /\ phase[t] = "prompt" /\ decision[t] # "none"
  /\ IF decision[t] = "accept"
       THEN phase' = [phase EXCEPT ![t] = "accepted"] /\ UNCHANGED <<files, obexd, sent>>
       ELSE Refuse(t)
  /\ UNCHANGED <<promptVars, cancels, signalled, monitorVars, feed>>

(* start_incoming: from here on the transfer can be cancelled again.       *)
StartIncoming(t) ==
  /\ phase[t] = "accepted"
  /\ phase' = [phase EXCEPT ![t] = "connect"]
  /\ cancels' = cancels \cup {t}
  /\ UNCHANGED <<promptVars, files, signalled, monitorVars, sent, obexdVars>>

(* Mutant: nothing removes the reservation of a call that is dropped.      *)
DropAuthorizeKeepsFile(t) ==
  /\ phase[t] \in {"prompt", "accepted"}
  /\ phase' = [phase EXCEPT ![t] = "dropped"]
  /\ pending' = pending \ {t}
  /\ obexd' = [obexd EXCEPT ![t] = IF @ \in Live THEN "refused" ELSE @]
  /\ IF t \in pending THEN Send(t, "cancelled") ELSE UNCHANGED sent
  /\ UNCHANGED <<sending, decision, files, cancels, signalled, monitorVars, feed>>

(***************************************************************************)
(* The call of AuthorizePush is dropped at an await of authorize: waiting  *)
(* for the decision, which may have arrived already, or for the lock of    *)
(* start_incoming.  Prompt::drop retires a prompt that nobody has answered *)
(* and tells clients; Destination::drop removes the file, accepted or not. *)
(* obexd has been given no path and receives nothing.                      *)
(***************************************************************************)
DropAuthorize(t) ==
  /\ phase[t] \in {"prompt", "accepted"}
  /\ phase' = [phase EXCEPT ![t] = "dropped"]
  /\ pending' = pending \ {t}
  /\ RemoveReservation(t)
  /\ obexd' = [obexd EXCEPT ![t] = IF @ \in Live THEN "refused" ELSE @]
  /\ IF t \in pending THEN Send(t, "cancelled") ELSE UNCHANGED sent
  /\ UNCHANGED <<sending, decision, cancels, signalled, monitorVars, feed>>

-----------------------------------------------------------------------------
(* cancel_owned, cancel_transfer and, for all of its owner, cancel_owner.  *)
Cancel(ts) ==
  /\ ts # {} /\ ts \subseteq cancels
  /\ cancels' = cancels \ ts
  /\ signalled' = signalled \cup ts
  /\ UNCHANGED <<phase, promptVars, files, monitorVars, sent, obexdVars>>

(* monitor_transfer returns an error.                                      *)
MonitorFails(t) ==
  /\ phase' = [phase EXCEPT ![t] = "cleanup"]
  /\ failed' = failed \cup {t}
  /\ UNCHANGED <<seen, sent>>

(* monitor_transfer publishes a status and stops after a final one.        *)
Observe(t, status) ==
  /\ seen' = [seen EXCEPT ![t] = status]
  /\ Send(t, Event(status))
  /\ phase' = [phase EXCEPT ![t] = IF status \in Final THEN "cleanup" ELSE "watch"]
  /\ UNCHANGED failed

Subscribe(t) ==
  /\ phase[t] = "connect"
  /\ \/ phase' = [phase EXCEPT ![t] = "refresh"] /\ UNCHANGED <<monitorVars, sent>>
     \/ MonitorFails(t)
  /\ UNCHANGED <<promptVars, files, cancels, signalled, obexdVars>>

(* Mutant: the properties are not read again after subscribing.            *)
RefreshSkipped(t) ==
  /\ phase[t] = "refresh"
  /\ Observe(t, seen[t])
  /\ UNCHANGED <<promptVars, files, cancels, signalled, obexdVars>>

(* The properties are read once the subscription exists.                   *)
Refresh(t) ==
  /\ phase[t] = "refresh"
  /\ \/ obexd[t] # "gone" /\ Observe(t, obexd[t])
     \/ MonitorFails(t)
  /\ UNCHANGED <<promptVars, files, cancels, signalled, obexdVars>>

TakeSignal(t) ==
  /\ phase[t] = "watch"
  /\ feed[t] # <<>>
  /\ feed' = [feed EXCEPT ![t] = Tail(@)]
  /\ Observe(t, Head(feed[t]))
  /\ UNCHANGED <<promptVars, files, cancels, signalled, obexd>>

(* Mutant: the cancellation is published before obexd has acknowledged it. *)
BeginCancelPublishing(t) ==
  /\ phase[t] = "watch"
  /\ t \in signalled
  /\ phase' = [phase EXCEPT ![t] = "cancelling"]
  /\ Send(t, "cancelled")
  /\ UNCHANGED <<promptVars, files, cancels, signalled, monitorVars, obexdVars>>

(* The cancel channel wins the select: obexd is called.                    *)
BeginCancel(t) ==
  /\ phase[t] = "watch"
  /\ t \in signalled
  /\ phase' = [phase EXCEPT ![t] = "cancelling"]
  /\ UNCHANGED <<promptVars, files, cancels, signalled, monitorVars, sent,
                 obexdVars>>

(* obexd cancels a transfer it has, or answers with an error.              *)
CancelAnswered(t) ==
  /\ phase[t] = "cancelling"
  /\ IF obexd[t] \in Live
       THEN obexd' = [obexd EXCEPT ![t] = "cancelled"] /\ Observe(t, "cancelled")
       ELSE MonitorFails(t) /\ UNCHANGED obexd
  /\ UNCHANGED <<promptVars, files, cancels, signalled, feed>>

(* cleanup_session, which ends a push that is still going on; then leave   *)
(* the map, and report an error that monitor_transfer returned.            *)
Finish(t) ==
  /\ phase[t] = "cleanup"
  /\ phase' = [phase EXCEPT ![t] = "ended"]
  /\ cancels' = cancels \ {t}
  /\ obexd' = [obexd EXCEPT ![t] = IF t \in Outgoing /\ @ \in Live THEN "gone" ELSE @]
  /\ IF t \in failed \/ seen[t] = "error" THEN Send(t, "failed") ELSE UNCHANGED sent
  /\ UNCHANGED <<promptVars, files, signalled, monitorVars, feed>>

-----------------------------------------------------------------------------
(* The signal subscription of monitor_transfer exists.                     *)
Subscribed(t) == phase[t] \in {"refresh", "watch", "cancelling"}

(* obexd moves a transfer on; an incoming one once it was authorized.      *)
ObexdMoves(t, status) ==
  /\ obexd[t] \in Live
  /\ t \in Incoming => phase[t] \in Monitoring \cup {"cleanup", "ended"}
  /\ \/ obexd[t] = "queued" /\ status = "active"
     \/ obexd[t] = "active" /\ status = "complete"
     \/ status = "error"
  /\ obexd' = [obexd EXCEPT ![t] = status]
  /\ feed' = [feed EXCEPT ![t] = IF Subscribed(t) THEN Append(@, status) ELSE @]
  /\ UNCHANGED <<phase, promptVars, files, cancels, signalled, monitorVars, sent>>

(* obexd crashes: its transfers are gone and nothing is signalled.         *)
ObexdCrashes ==
  /\ \E t \in Transfers : obexd[t] \in Live
  /\ obexd' = [t \in Transfers |-> IF obexd[t] \in Live THEN "gone" ELSE obexd[t]]
  /\ UNCHANGED <<phase, promptVars, files, cancels, signalled, monitorVars, sent,
                 feed>>

Prompting(t) == Deliver(t) \/ Timeout(t) \/ Decide(t) \/ StartIncoming(t)
Following(t) == Subscribe(t) \/ Refresh(t) \/ TakeSignal(t) \/ Finish(t)
Cancelling(t) == BeginCancel(t) \/ CancelAnswered(t)

ObexNext ==
  \/ \E t \in Outgoing, status \in Live \cup {"complete", "error"} : StartOwned(t, status)
  \/ \E t \in Incoming : PrepareFails(t) \/ Authorize(t) \/ Prompting(t)
  \/ \E t \in Incoming : DropAuthorize(t)
  \/ \E t \in Incoming, answer \in Decision \ {"none"} : Answer(t, answer)
  \/ CancelAuthorizations
  \/ \E t \in Transfers : Cancel({t})
  \/ Cancel(cancels \cap Outgoing)
  \/ \E t \in Transfers : Following(t) \/ Cancelling(t)
  \/ \E t \in Transfers, status \in ObexStatus : ObexdMoves(t, status)
  \/ ObexdCrashes

ObexSpec == ObexInit /\ [][ObexNext]_obexVars

(***************************************************************************)
(* The daemon's tasks run, its bus calls are answered and the prompt's     *)
(* deadline passes.  The select of monitor_transfer is fair to the cancel  *)
(* channel.  obexd need not move a transfer on, and nobody has to answer.  *)
(***************************************************************************)
ObexFairSpec ==
  /\ ObexSpec
  /\ \A t \in Incoming : WF_obexVars(Prompting(t))
  /\ \A t \in Transfers : WF_obexVars(Following(t)) /\ WF_obexVars(Cancelling(t))

-----------------------------------------------------------------------------
(* Types; and only what is being monitored can be cancelled as a transfer. *)
TypeOK ==
  /\ phase \in [Transfers -> Phase]
  /\ pending \subseteq Incoming
  /\ sending \in [Incoming -> Decision]
  /\ decision \in [Incoming -> Decision]
  /\ files \subseteq Incoming
  /\ cancels \subseteq {t \in Transfers : phase[t] \in Monitoring \cup {"cleanup"}}
  /\ signalled \subseteq Transfers
  /\ failed \subseteq Transfers
  /\ seen \in [Transfers -> Live \cup Final]
  /\ sent \in [Transfers -> Seq(Events)]
  /\ obexd \in [Transfers -> ObexStatus]
  /\ feed \in [Transfers -> Seq(Live \cup Final)]

Told(t) == {sent[t][i] : i \in 1..Len(sent[t])}

(***************************************************************************)
(* What clients are told about the end of a transfer is true: completed    *)
(* means that obexd has the whole file through, cancelled that it neither  *)
(* has nor will; and no transfer ends in two ways.                         *)
(***************************************************************************)
OutcomeIsTrue ==
  \A t \in Transfers :
    /\ "completed" \in Told(t) => obexd[t] = "complete"
    /\ "cancelled" \in Told(t) => obexd[t] \notin Live \cup {"complete"}
    /\ Cardinality(Told(t) \cap Terminal) <= 1

(***************************************************************************)
(* A reserved destination exists exactly while its prompt is shown, or     *)
(* because the user has accepted the file and obexd's call was not dropped *)
(* before it could be told; and a prompt that can still be answered has    *)
(* that call waiting for the answer.                                       *)
(***************************************************************************)
ReservationMatchesConsent ==
  \A t \in Incoming :
    /\ t \in files <=> \/ phase[t] = "prompt"
                       \/ decision[t] = "accept" /\ phase[t] # "dropped"
    /\ t \in pending => phase[t] = "prompt"

(***************************************************************************)
(* A transfer that obexd has ended gets its terminal event, even if it     *)
(* ended before it was being watched; and once a cancellation was accepted *)
(* the transfer ends, also if obexd has just finished it, has crashed or   *)
(* never signals anything again.                                           *)
(***************************************************************************)
OutcomeReported ==
  \A t \in Transfers :
    /\ (phase[t] \in Monitoring /\ obexd[t] \in Final) ~> (Told(t) \cap Terminal # {})
    /\ t \in signalled ~> (phase[t] = "ended" /\ Told(t) \cap Terminal # {})
=============================================================================
