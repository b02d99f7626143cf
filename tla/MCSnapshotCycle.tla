-------------------------- MODULE MCSnapshotCycle --------------------------
(* Snapshots for TLC.                                                      *)
EXTENDS SnapshotCycle

(* b needs a; c has a seam; a requirement event may change a.              *)
WorkPackage(id, role, priority, fallbacks, deps, seams) ==
    [Package(id, "implementation", role, priority, "codex", fallbacks, deps, 2)
        EXCEPT !.seams = seams]
SmallPackages == <<WorkPackage("a", "software_engineer", 90, <<"claude_code">>, {}, {}),
                   WorkPackage("b", "qa_engineer", 80, <<>>, {"a"}, {}),
                   WorkPackage("c", "software_engineer", 95, <<>>, {}, {"s"})>>
ModifyA == <<[type |-> "modify", affected |-> {"a"}, seams |-> {"s"}, package |-> "patch"]>>
NoRequirements == <<>>
DraftSeam == [s |-> "draft"]
NoSeams == [s \in {} |-> "draft"]

(* `devforge init` in a repository with code.                              *)
Onboarding == <<Package("wp-repo-onboarding", "analysis_design", "technical_architect",
                        100, "codex", <<"claude_code">>, {}, 3)>>

(* The same, behind three packages of higher priority.                     *)
Chore(id, max) == Package(id, "testing", "qa_engineer", 110, "codex", <<>>, {}, max)
Busy == <<Chore("x", 2), Chore("y", 1), Chore("z", 1)>> \o Onboarding

(* fixtures/ecommerce_project.json                                         *)
Cart == <<[Package("wp-cart-frontend", "implementation", "software_engineer", 85,
                   "python", <<"claude_code">>, {}, 3)
             EXCEPT !.domain = "frontend", !.seams = {"seam-web-api-cart"}]>>
FrozenCartSeam == [s \in {"seam-web-api-cart"} |-> "frozen"]
ShopPolicy ==
    [by_work_package |-> <<>>,
     by_domain |-> [frontend |-> "codex", backend |-> "claude_code"],
     by_role |-> [qa_engineer |-> "codex"],
     by_phase |-> [acceptance |-> "python"],
     default |-> "claude_code"]
=============================================================================
