------------------------------ MODULE MCPreVote ------------------------------
(* Symmetry for the TLC run of PreVote.                                    *)
EXTENDS PreVote, TLC

Symmetry == Permutations(Server)

=============================================================================
