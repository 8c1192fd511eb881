---------------------------- MODULE DurableStore ----------------------------
(***************************************************************************)
(* What the identity registry promises about its file: changes may reach   *)
(* the disk late and together, older ones are never written over newer     *)
(* ones, and a flush that succeeds means that everything changed before it *)
(* was called is on the disk.  Values are named by their version.          *)
(***************************************************************************)
EXTENDS Naturals

CONSTANTS
  Callers   \* the callers of flush

VARIABLES
  current,  \* the version in memory
  durable,  \* the version on the disk
  need,     \* need[f]: the version in memory when f called flush
  answer    \* answer[f]: what became of f's call

vars == <<current, durable, need, answer>>

Answer == {"none", "pending", "ok", "failed"}

Init ==
  /\ current \in Nat
  /\ durable = current
  /\ need = [f \in Callers |-> 0]
  /\ answer = [f \in Callers |-> "none"]

Change ==
  /\ current' \in Nat
  /\ current' > current
  /\ UNCHANGED <<durable, need, answer>>

Write ==
  /\ durable' \in Nat
  /\ durable <= durable' /\ durable' <= current
  /\ UNCHANGED <<current, need, answer>>

Call(f) ==
  /\ answer[f] # "pending"
  /\ need' = [need EXCEPT ![f] = current]
  /\ answer' = [answer EXCEPT ![f] = "pending"]
  /\ UNCHANGED <<current, durable>>

(* One write answers all that wait for it.                                 *)
Reply(fs) ==
  /\ \A f \in fs : answer[f] = "pending"
  /\ \E result \in {"ok", "failed"} :
       /\ result = "ok" => \A f \in fs : need[f] <= durable
       /\ answer' = [f \in Callers |-> IF f \in fs THEN result ELSE answer[f]]
  /\ need' = [f \in Callers |-> IF f \in fs THEN 0 ELSE need[f]]
  /\ UNCHANGED <<current, durable>>

Crash ==
  /\ current' = durable
  /\ answer' = [f \in Callers |-> "none"]
  /\ need' = [f \in Callers |-> 0]
  /\ UNCHANGED durable

Next ==
  \/ Change
  \/ Write
  \/ \E f \in Callers : Call(f)
  \/ \E fs \in SUBSET Callers : Reply(fs)
  \/ Crash

Spec == Init /\ [][Next]_vars
=============================================================================
