------------------------- MODULE MCWorkflowEngine -------------------------
(* Small instances of WorkflowEngine for TLC: the plans a planner may      *)
(* write, the spawn.json an executor may write.                            *)
EXTENDS WorkflowEngine

Def(name, deps, strategy) ==
    [name |-> name, depends_on |-> deps, exits |-> TRUE, mode |-> "none",
     strategy |-> strategy, def |-> TRUE]
Discovery(name) ==
    [Def(name, {}, "REVERSE_ANALYSIS") EXCEPT !.mode = "discovery"]

Names == {"planner", "a", "b", "c"}
Names6 == Names \cup {"d", "e", "f"}
NamedFail == Names \X {"named"}
OnlyA == {<<"a", "named">>}
OnlyB == {<<"b", "named">>}
OnlyE == {<<"e", "named">>}
OnlyC == {<<"c", "named">>}

(* b depends on a. *)
ChainPlans == {<<Def("a", {}, "NONE"), Def("b", {"a"}, "NONE")>>}
(* b depends on a, c is independent. *)
MixedPlans == {<<Def("a", {}, "NONE"), Def("b", {"a"}, "NONE"),
                 Def("c", {}, "NONE")>>}
(* Two independent nodes. *)
PairPlans == {<<Def("a", {}, "NONE"), Def("b", {}, "NONE")>>}
(* The workflow of test_run_one_cycle_returns_all_complete_when_done: an   *)
(* alignment audit b after a.                                              *)
AuditPlans == {<<Def("a", {}, "NONE"), Def("b", {"a"}, "FULL_STACK_VALIDATION")>>}
(* a is audited; d depends on c, c and e on b, and b on a. *)
DeepPlans == {<<Def("a", {}, "GOVERNANCE"), Def("b", {"a"}, "NONE"),
                Def("c", {"b"}, "NONE"), Def("d", {"c"}, "NONE"),
                Def("e", {"b"}, "NONE")>>}
(* a is a discovery node, b is independent. *)
DiscoveryPlans == {<<Discovery("a"), Def("b", {}, "NONE")>>}
RedoPlans == DeepPlans \cup DiscoveryPlans

NoSpawn == [n \in NodeName |-> <<>>]
SpawnFrom(name, defs) ==
    [n \in NodeName |-> IF n = name THEN defs ELSE <<>>]
(* A new node f, and b, which the plan has already. *)
SpawnFromA == SpawnFrom("a", <<Def("f", {}, "NONE"), Def("b", {}, "NONE")>>)
===========================================================================
