----------------------------- MODULE MCPipeline -----------------------------
(***************************************************************************)
(* What the TLC run of Pipeline starts from.                               *)
(***************************************************************************)
EXTENDS Pipeline

Log(terms) == [k \in DOMAIN terms |-> [term |-> terms[k]]]

\* Nothing yet; and a follower that led term 1 and kept what it appended
\* there.
Started == {<<Log(<<>>), Log(<<>>)>>, <<Log(<<1>>), Log(<<1, 1>>)>>}

=============================================================================
