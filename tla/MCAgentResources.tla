--------------------------- MODULE MCAgentResources ---------------------------
(* One execution that owns every effect, for TLC.                          *)
EXTENDS AgentResources, TLC

CONSTANT e1

OwnerDef == [f \in Effect |-> e1]

\* No rule tells one effect, resource or snapshot from another.
Symmetry == Permutations(Effect) \cup Permutations(Resource) \cup Permutations(Snapshot)

=============================================================================
