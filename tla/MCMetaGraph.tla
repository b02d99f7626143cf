---------------------------- MODULE MCMetaGraph ----------------------------
(* Values for the constants of MetaGraph. *)
EXTENDS MetaGraph, TLC

\* Three domains with any dependencies on each other, where the first may
\* also depend on itself; one that depends on a domain the design lacks; and
\* a design without domains and tasks.
Triangles ==
  {g \in [{"d1", "d2", "d3"} -> SUBSET Domain] : "d2" \notin g["d2"] /\ "d3" \notin g["d3"]}
Designs ==
  {[adj |-> g, tasks |-> 1, flows |-> TRUE] : g \in Triangles}
  \union {[adj |-> ("d1" :> {"d2"}), tasks |-> 5, flows |-> f] : f \in BOOLEAN}
  \union {[adj |-> << >>, tasks |-> 0, flows |-> TRUE]}

Gaps == {[severity |-> "high", target |-> "design"],
         [severity |-> "high", target |-> "other"],
         [severity |-> "low", target |-> "testing"]}

=============================================================================
