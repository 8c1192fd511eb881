------------------------- MODULE OperationLifecycle -------------------------
(***************************************************************************)
(* What a client may rely on about device operations, whatever tasks,      *)
(* handles and reapers the coordinator uses to provide it: an operation is *)
(* admitted once, on a device no other operation holds; it then takes      *)
(* consecutive revisions while it holds the device, and ends once, in a    *)
(* terminal revision that releases the device and never changes again.     *)
(***************************************************************************)
EXTENDS Naturals

CONSTANTS
  Requests,     \* operation identifiers
  Devices,
  MaxRevision,  \* largest revision a client can represent exactly
  Nowhere       \* the device of an operation not yet admitted

VARIABLES
  phase,        \* phase[r]
  revision,     \* revision[r] of the latest record
  target        \* target[r]: the device r operates on

vars == <<phase, revision, target>>

Phase == {"absent", "holding", "completed", "failed", "cancelled"}

Init ==
  /\ phase = [r \in Requests |-> "absent"]
  /\ revision = [r \in Requests |-> 0]
  /\ target = [r \in Requests |-> Nowhere]

Free(d) == \A r \in Requests : target[r] = d => phase[r] # "holding"

Admit(r, d) ==
  /\ phase[r] = "absent"
  /\ Free(d)
  /\ phase' = [phase EXCEPT ![r] = "holding"]
  /\ revision' = [revision EXCEPT ![r] = 1]
  /\ target' = [target EXCEPT ![r] = d]

(* A record that is not the last: the last revision stays in reserve.      *)
Advance(r) ==
  /\ phase[r] = "holding"
  /\ revision[r] + 1 < MaxRevision
  /\ revision' = [revision EXCEPT ![r] = @ + 1]
  /\ UNCHANGED <<phase, target>>

End(r, outcome) ==
  /\ phase[r] = "holding"
  /\ revision[r] < MaxRevision
  /\ phase' = [phase EXCEPT ![r] = outcome]
  /\ revision' = [revision EXCEPT ![r] = @ + 1]
  /\ UNCHANGED target

Next ==
  \/ \E r \in Requests, d \in Devices : Admit(r, d)
  \/ \E r \in Requests : Advance(r)
  \/ \E r \in Requests, outcome \in {"completed", "failed", "cancelled"} :
       End(r, outcome)

Spec == Init /\ [][Next]_vars
=============================================================================
