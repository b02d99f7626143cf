----------------------------- MODULE MetaGraph -----------------------------
(***************************************************************************)
(* The planning meta graph and the design nodes around it, which share one *)
(* RuntimeState: graph/langgraph_builder.py runs scheduler, requirement    *)
(* patch, concept, planning, validation, dispatch and verification;        *)
(* graph/nodes.py generates a product design, validates it (with the       *)
(* cross-model audit of tool_enhanced_nodes.py or without), expands its    *)
(* closures ring by ring and judges the deliverables.  The caller calls    *)
(* the nodes in any order until next_step_for_state says "terminate".      *)
(* Everything a language model answers is chosen freely.                   *)
(***************************************************************************)
EXTENDS DomainCycles, FiniteSets, Functions

CONSTANTS
  Work,       \* work packages a planning decision may name
  Event,      \* requirement events
  Design,     \* product designs the language model may generate
  NoDesign,   \* product_design is None
  Gap,        \* gaps an acceptance verdict may list
  XVDomain,   \* domains of the cross-model audit
  MaxRing,    \* max_ring of closure_expansion_node
  MaxCalls    \* bound: calls of the caller

\* Of a product design, what the nodes look at: the dependencies of its
\* domains, how many ring-0 tasks it has, and whether it has a user flow.
DesignType == [adj : DomainGraphs, tasks : Nat, flows : BOOLEAN]

Severity == <<"low", "medium", "high">>
GapType == [severity : {"low", "medium", "high"},
            target : {"design", "decomposition", "implementation", "testing", "other"}]

StructuralTypes == {"dependency_cycle", "empty_ring_0", "no_user_flows"}

ASSUME MetaAssumption ==
  /\ Design \subseteq DesignType
  /\ NoDesign \notin Design
  /\ Gap \subseteq GapType
  /\ MaxRing \in Nat
  /\ MaxCalls \in Nat
  /\ XVDomain \cap StructuralTypes = {}

VARIABLES
  pc,           \* the node being run, or idle between two calls
  workset,      \* current_workset
  pending,      \* pending_requirement_events
  running,      \* running_queue
  verified,     \* recent_executor_results
  replan,       \* replan_reason; of "acceptance_gaps:<node>", the node
  termination,  \* termination_signal
  design,       \* product_design
  valid,        \* design_valid, unknown while it is None
  issues,       \* error types of design_validation_issues
  sources,      \* ring_1_source_count: ring-0 tasks inside the concept boundary
  closures,     \* closures of the expansion: in ring 1, and beyond
  ring,         \* loop variable of expand_closures
  scale,        \* _CONVERGENCE_FACTOR ** (ring - 1) is 1 / scale
  calls,        \* calls made so far
  validated     \* history: the design that design_valid is about

runtime == <<workset, pending, running, verified, replan, termination>>
review == <<design, valid, issues, validated>>
expansion == <<sources, closures, ring, scale>>
vars == <<pc, runtime, review, expansion, calls, searchVars>>

GraphNodes == {"project_scheduler", "requirement_patch", "concept_collection",
               "planning_and_shaping", "graph_validation", "batch_dispatch",
               "batch_verification"}

Reentry == [design |-> "product_design", decomposition |-> "task_decomposition",
            implementation |-> "batch_dispatch", testing |-> "batch_verification",
            other |-> "acceptance_failed"]

Reasons == {"none", "no_runnable_work", "no_design", "design_validation_failed",
            "acceptance_failed"} \union Range(Reentry)

\* needs_user_input is set by no node.
NextStep ==
  IF termination THEN "terminate"
  ELSE IF pending # {} THEN "requirement_patch"
  ELSE IF replan # "none" THEN "planning_and_shaping"
  ELSE IF workset = {} THEN "project_scheduler"
  ELSE IF running # {} THEN "batch_verification"
  ELSE "batch_dispatch"

Call(node) ==
  /\ pc = "idle"
  /\ calls < MaxCalls
  /\ NextStep # "terminate"
  /\ calls' = calls + 1
  /\ pc' = node

-----------------------------------------------------------------------------
(* The meta graph *)

\* graph.invoke with the runtime state, a workset and new events.
Invoke ==
  /\ Call("project_scheduler")
  /\ \E ws \in SUBSET Work, ev \in SUBSET Event : workset' = ws /\ pending' = ev
  /\ UNCHANGED <<running, verified, replan, termination, review, expansion, searchVars>>

At(node, next) ==
  /\ pc = node
  /\ pc' = next
  /\ UNCHANGED <<termination, review, expansion, calls, searchVars>>

ProjectScheduler ==
  /\ At("project_scheduler",
        IF pending # {} THEN "requirement_patch" ELSE "concept_collection")
  /\ UNCHANGED <<workset, pending, running, verified, replan>>

\* The events the snapshot knows are applied, the others forgotten.
RequirementPatch ==
  /\ At("requirement_patch", "concept_collection")
  /\ pending' = {}
  /\ replan' = "none"
  /\ UNCHANGED <<workset, running, verified>>

ConceptCollection ==
  /\ At("concept_collection", "planning_and_shaping")
  /\ UNCHANGED <<workset, pending, running, verified, replan>>

\* selected_workset is taken from the answer as it is; no package offered is
\* the default only when the answer has no such field.
Selections == SUBSET Work

PlanningAndShaping_keepsReason ==
  /\ At("planning_and_shaping", "graph_validation")
  /\ workset' \in Selections
  /\ UNCHANGED <<pending, running, verified, replan>>

PlanningAndShaping ==
  /\ At("planning_and_shaping", "graph_validation")
  /\ workset' \in Selections
  /\ replan' = "none"
  /\ UNCHANGED <<pending, running, verified>>

\* The route reads the reason the node has just written.
GraphValidation ==
  /\ replan' = IF workset = {} THEN "no_runnable_work" ELSE replan
  /\ At("graph_validation",
        IF replan' # "none" THEN "project_scheduler" ELSE "batch_dispatch")
  /\ UNCHANGED <<workset, pending, running, verified>>

BatchDispatch ==
  /\ At("batch_dispatch", "batch_verification")
  /\ running' = workset
  /\ UNCHANGED <<workset, pending, verified, replan>>

BatchVerification ==
  /\ At("batch_verification", "idle")
  /\ verified' = running
  /\ running' = {}
  /\ UNCHANGED <<workset, pending, replan>>

Graph ==
  \/ ProjectScheduler
  \/ RequirementPatch
  \/ ConceptCollection
  \/ PlanningAndShaping
  \/ GraphValidation
  \/ BatchDispatch
  \/ BatchVerification

-----------------------------------------------------------------------------
(* The product design *)

\* The new design replaces the old one; design_valid, its issues and
\* replan_reason stay those of the old one.
ProductDesign ==
  /\ Call("idle")
  /\ design' \in Design
  /\ UNCHANGED <<runtime, valid, issues, validated, expansion, searchVars>>

ValidateNothing ==
  /\ Call("idle")
  /\ design = NoDesign
  /\ valid' = "invalid"
  /\ replan' = "no_design"
  /\ UNCHANGED <<workset, pending, running, verified, termination, design, issues,
                 validated, expansion, searchVars>>

\* validate_design starts with the cycle search.
DesignValidation(node) ==
  /\ Call(node)
  /\ design # NoDesign
  /\ Search(design.adj)
  /\ UNCHANGED <<runtime, review, expansion>>

Searching ==
  /\ pc \in {"design_validation", "design_validation_with_xv"}
  /\ SearchStep
  /\ UNCHANGED <<pc, runtime, review, expansion, calls>>

StructuralIssues_noFlowCheck ==
  (IF cycles # {} THEN {"dependency_cycle"} ELSE {}) \union
  (IF design.tasks = 0 THEN {"empty_ring_0"} ELSE {})

StructuralIssues ==
  (IF cycles # {} THEN {"dependency_cycle"} ELSE {}) \union
  (IF design.tasks = 0 THEN {"empty_ring_0"} ELSE {}) \union
  (IF ~design.flows THEN {"no_user_flows"} ELSE {})

\* The audit looks at structurally valid designs only; an audit that fails,
\* or for which no model can be reached, finds nothing.
Audits ==
  IF pc = "design_validation_with_xv" /\ StructuralIssues = {}
  THEN SUBSET XVDomain ELSE {{}}

Validated ==
  /\ pc \in {"design_validation", "design_validation_with_xv"}
  /\ Searched
  /\ \E critical \in Audits : issues' = StructuralIssues \union critical
  /\ valid' = IF issues' = {} THEN "valid" ELSE "invalid"
  /\ replan' = IF issues' = {} THEN replan ELSE "design_validation_failed"
  /\ validated' = design
  /\ pc' = "idle"
  /\ UNCHANGED <<workset, pending, running, verified, termination, design, expansion,
                 calls, searchVars>>

-----------------------------------------------------------------------------
(* Closure expansion *)

Tasks == IF design = NoDesign THEN 0 ELSE design.tasks

\* Templates per source task: two in each of six dimensions.
Templates == 12

Budget_geometricSources == sources

\* int(ring_1_source_count * 0.5 ** (ring - 1))
Budget == sources \div scale

ClosureExpansion ==
  /\ Call("closure_expansion")
  /\ sources' \in 0 .. Tasks
  /\ closures' = [first |-> 0, more |-> 0]
  /\ ring' = 1
  /\ scale' = 1
  /\ UNCHANGED <<runtime, review, searchVars>>

\* Each source of this ring yields Templates closures, all of them accepted
\* (the node gives no scale_overrides), so the next budget never lacks sources.
ExpandRing ==
  /\ pc = "closure_expansion"
  /\ ring <= MaxRing
  /\ Budget > 0
  /\ closures' = IF ring = 1
                 THEN [closures EXCEPT !.first = Budget * Templates]
                 ELSE [closures EXCEPT !.more = @ + Budget * Templates]
  /\ ring' = ring + 1
  /\ scale' = 2 * scale
  /\ UNCHANGED <<pc, sources, runtime, review, calls, searchVars>>

\* zero_output or max_ring_reached.
ExpansionStops ==
  /\ pc = "closure_expansion"
  /\ ring > MaxRing \/ Budget = 0
  /\ pc' = "idle"
  /\ UNCHANGED <<runtime, review, expansion, calls, searchVars>>

Expansion == ExpandRing \/ ExpansionStops

-----------------------------------------------------------------------------
(* Acceptance *)

\* The first of the gaps of the highest severity; without gaps, no node.
ReentryPoint(gaps) ==
  LET rank(i) == CHOOSE n \in 1 .. 3 : Severity[n] = gaps[i].severity
      highest == CHOOSE i \in DOMAIN gaps :
                   \A j \in DOMAIN gaps :
                     rank(j) < rank(i) \/ (rank(j) = rank(i) /\ i <= j)
  IN IF gaps = << >> THEN "acceptance_failed" ELSE Reentry[gaps[highest].target]

Acceptance ==
  /\ Call("idle")
  /\ \/ termination' = TRUE /\ UNCHANGED replan
     \/ /\ \E gaps \in {<< >>} \union {<<g>> : g \in Gap} \union (Gap \X Gap) :
             replan' = ReentryPoint(gaps)
        /\ UNCHANGED termination
  /\ UNCHANGED <<workset, pending, running, verified, review, expansion, searchVars>>

-----------------------------------------------------------------------------
Init ==
  /\ pc = "idle"
  /\ workset = {}
  /\ pending = {}
  /\ running = {}
  /\ verified = {}
  /\ replan = "none"
  /\ termination = FALSE
  /\ design = NoDesign
  /\ valid = "unknown"
  /\ issues = {}
  /\ sources = 0
  /\ closures = [first |-> 0, more |-> 0]
  /\ ring = 1
  /\ scale = 1
  /\ calls = 0
  /\ validated = NoDesign
  /\ SearchInit

Caller ==
  \/ Invoke
  \/ ProductDesign
  \/ ValidateNothing
  \/ \E node \in {"design_validation", "design_validation_with_xv"} : DesignValidation(node)
  \/ ClosureExpansion
  \/ Acceptance

Node == Graph \/ Searching \/ Validated \/ Expansion

Next == Caller \/ Node

Spec == Init /\ [][Next]_vars

\* A node runs to its end; the caller need not call another.
FairSpec == Spec /\ WF_vars(Node)

-----------------------------------------------------------------------------
(* Properties *)

\* Every variable keeps its type, and an expansion has fewer than twice the
\* closures of its first ring, whatever max_ring is.
MetaTyped ==
  /\ pc \in GraphNodes \union {"idle", "design_validation", "design_validation_with_xv",
                               "closure_expansion"}
  /\ workset \subseteq Work
  /\ pending \subseteq Event
  /\ running \subseteq Work
  /\ verified \subseteq Work
  /\ replan \in Reasons
  /\ termination \in BOOLEAN
  /\ design \in Design \union {NoDesign}
  /\ valid \in {"unknown", "valid", "invalid"}
  /\ issues \subseteq StructuralTypes \union XVDomain
  /\ sources \in Nat
  /\ closures \in [first : Nat, more : Nat]
  /\ closures.more <= closures.first
  /\ ring \in Nat
  /\ scale \in Nat \ {0}
  /\ calls \in Nat
  /\ validated \in Design \union {NoDesign}

\* design_valid and the issues are those of the design validated last: valid
\* means acyclic dependencies, ring-0 tasks, a user flow and no critical
\* finding of the audit, which saw structurally sound designs only.
Sound(d) == Acyclic(d.adj) /\ d.tasks # 0 /\ d.flows
VerdictOnDesign ==
  validated # NoDesign =>
    /\ valid = "valid" <=> issues = {}
    /\ Sound(validated) <=> issues \subseteq XVDomain

\* A call returns: the graph goes round without end only as long as every
\* planning decision selects no work.
CallsReturn ==
  pc # "idle" ~> \/ pc = "idle"
                 \/ pc = "graph_validation" /\ workset = {}

=============================================================================
