-------------------------- MODULE DeliveryContract --------------------------
(***************************************************************************)
(* What the pipeline promises for one stream, whatever happens inside it:  *)
(* every message reaches exactly one outcome, in any order, and the        *)
(* bookmark moves forward only over messages that have theirs.             *)
(***************************************************************************)
EXTENDS Naturals

CONSTANT NumMessages

Messages == 1 .. NumMessages

Outcomes == {"emitted", "dropped", "dead_lettered"}

VARIABLES outcome, bookmark

vars == <<outcome, bookmark>>

Init ==
  /\ outcome = [m \in Messages |-> "pending"]
  /\ bookmark = 0

Resolve(m) ==
  /\ outcome[m] = "pending"
  /\ \E o \in Outcomes : outcome' = [outcome EXCEPT ![m] = o]
  /\ UNCHANGED bookmark

Advance ==
  /\ bookmark' \in bookmark + 1 .. NumMessages
  /\ \A m \in 1 .. bookmark' : outcome[m] # "pending"
  /\ UNCHANGED outcome

Next == Advance \/ \E m \in Messages : Resolve(m)

Spec == Init /\ [][Next]_vars /\ WF_vars(Advance) /\ \A m \in Messages : WF_vars(Resolve(m))

============================================================================
