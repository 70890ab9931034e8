----------------------------- MODULE MCAgentState -----------------------------
(* One execution that owns every effect, for TLC.                          *)
EXTENDS AgentState

CONSTANT e1

OwnerDef == [f \in Effect |-> e1]

=============================================================================
