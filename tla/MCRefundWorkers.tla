---------------------------- MODULE MCRefundWorkers ----------------------------
(* One execution that owns every effect, for TLC.                          *)
EXTENDS RefundWorkers

CONSTANT e1

OwnerDef == [f \in Effect |-> e1]

=============================================================================
