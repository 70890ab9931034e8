------------------------------ MODULE MCRollout ------------------------------
(* A rollout to the second version and a rollback, for TLC.                *)
EXTENDS Rollout

CONSTANTS c1, c2, p1, v1, v2

KeyDef == {Lock, Staged, Current} \cup {Ready(p) : p \in Pod}

ValueDef == Version \cup Controller

TargetDef == [c \in Controller |-> IF c \in Forward THEN v2 ELSE v1]

=============================================================================
