--------------------------- MODULE SnapshotCycle ---------------------------
(***************************************************************************)
(* The orchestration kernel: run_cycle (graph/builder.py) with workset     *)
(* selection, requirement patches, the retry guardrail and policy, and the *)
(* commands that run it: `devforge snapshot`, with or without a            *)
(* --persistence-root, and the REPL's `continue`.                          *)
(*                                                                         *)
(* One cycle reads the snapshot file, works on a copy of it (mem), lets    *)
(* executors run up to three work packages, verifies their results, and    *)
(* appends the events of the cycle and a history snapshot to the stores;   *)
(* `snapshot`, not `continue`, writes the copy back.  A crash may fall     *)
(* between any two of these steps.                                         *)
(***************************************************************************)
EXTENDS Integers, Sequences, FiniteSets

CONSTANTS
    Packages,      \* the work packages of the first snapshot, in order
    Requirements,  \* requirement events: [type, affected, seams, package], in order
    SeamStatus,    \* the status of each seam in the first snapshot
    Policy,        \* the project's executor policy, or NoPolicy
    ExistingRepo,  \* the project is of kind "existing_repo"
    Commands,      \* which commands are used
    Subprocess,    \* DEVFORGE_EXECUTOR_TRANSPORT is "subprocess"
    MayFail,       \* packages whose executors may fail
    Missing,       \* executors that are not on PATH
    Live,          \* retry decisions are made by a live language model
    MaxCycles, MaxCrashes   \* bounds on stored cycles and crashes

NoPolicy == [by_work_package |-> <<>>, by_domain |-> <<>>, by_role |-> <<>>,
             by_phase |-> <<>>, default |-> "none"]
AllCommands == {"snapshot", "snapshot-with-stores", "continue"}
Executors == {"python", "claude_code", "codex"}
Phases == {"concept_collect", "analysis_design", "implementation", "testing",
           "acceptance", "requirement_patch"}
Roles == {"product_manager", "execution_planner", "interaction_designer", "ui_designer",
          "technical_architect", "software_engineer", "qa_engineer", "integration_owner"}
Statuses == {"ready", "running", "blocked", "verified", "completed", "failed",
             "deprecated"}
SeamStatuses == {"draft", "reviewing", "frozen", "implemented", "verified",
                 "broken", "deprecated"}
EventTypes == {"requirement_patch_applied", "work_package_dispatched",
               "executor_result_normalized", "work_package_requeued",
               "work_package_executor_switched", "work_package_blocked",
               "work_package_replan_requested", "cycle_completed"}
Actions == {"final_fail", "requeue", "switch_executor", "block", "replan"}
Limit == 3      \* of a workset

VARIABLES
    file,     \* the snapshot file: [packages, requirements, seams]
    torn,     \* it was left half written
    cycles,   \* the number of history snapshots in the store
    log,      \* the event store
    pc,       \* the place in the cycle
    command,  \* the command that runs it
    mem,      \* updated_snapshot
    tried,    \* how many seeders of this cycle were tried
    todo,     \* selected packages not dispatched yet (indices)
    raw,      \* raw results not verified yet
    unsent,   \* cycle_events not appended yet
    patched,  \* requirement_patch_applied of this cycle
    crashes

disk == <<file, torn, cycles, log>>
volatile == <<command, mem, tried, todo, raw, unsent, patched>>
vars == <<disk, pc, volatile, crashes>>

EventDef == [type: {"add", "modify", "remove", "reprioritize"},
             affected: SUBSET STRING, seams: SUBSET STRING, package: STRING]
(* The names a snapshot can hold.                                          *)
SeededIds == {"wp-initial-work-plan", "wp-bootstrap-acceptance",
              "wp-runtime-state-persistence", "wp-executor-live-adapters",
              "wp-onboarding-entry-flow",
              "wp-self-hosting-regression", "wp-self-hosting-acceptance"}
FirstIds == {Packages[i].id : i \in DOMAIN Packages}
FixedIds == SeededIds \cup {"wp-repo-onboarding"}
Names == FirstIds \cup FixedIds \cup {Requirements[r].package : r \in DOMAIN Requirements}
         \cup UNION {Packages[i].depends_on : i \in DOMAIN Packages}
Domains == {"core", "planning"} \cup {Packages[i].domain : i \in DOMAIN Packages}

PackageDef ==
    [id: Names, phase: Phases, domain: Domains, role: Roles, status: Statuses,
     priority: Int, executor: Executors \cup {"none"}, fallbacks: Seq(Executors),
     depends_on: SUBSET Names, seams: SUBSET STRING, attempts: Nat, max: Nat,
     retry: Actions \cup {"none"}]
EventRecord == [cycle: Nat, n: Nat, type: EventTypes, scope: Names \cup {"workspace"},
                status: {"none", "completed", "failed"}]
ResultDef == [at: Nat, executor: Executors, status: {"completed", "failed"},
              summary: {"plain", "seam", "rejected"}]

(* The first snapshot is at rest.                                          *)
ASSUME PackagesAssumption ==
    /\ Packages \in Seq(PackageDef)
    /\ \A i \in DOMAIN Packages : Packages[i].status # "running"
ASSUME RequirementsAssumption == Requirements \in Seq(EventDef)
(* Ids are distinct; the package of an event, named after it, is new.      *)
ASSUME IdsAssumption ==
    /\ \A i, j \in DOMAIN Packages : Packages[i].id = Packages[j].id => i = j
    /\ \A r \in DOMAIN Requirements :
          /\ Requirements[r].package \notin FirstIds \cup SeededIds
          /\ \A q \in DOMAIN Requirements :
                Requirements[q].package = Requirements[r].package => q = r
ASSUME CommandsAssumption == Commands \subseteq AllCommands
ASSUME SeamsAssumption == SeamStatus \in [DOMAIN SeamStatus -> SeamStatuses]
ASSUME PolicyAssumption ==
    /\ \A by \in {Policy.by_work_package, Policy.by_domain, Policy.by_role, Policy.by_phase} :
          \A key \in DOMAIN by : by[key] \in Executors
    /\ Policy.default \in Executors \/ Policy = NoPolicy
ASSUME BoundsAssumption == MaxCycles \in Nat /\ MaxCrashes \in Nat

-----------------------------------------------------------------------------
(* Records.                                                                *)

Package(id, phase, role, priority, executor, fallbacks, deps, max) ==
    [id |-> id, phase |-> phase, domain |-> "core", role |-> role,
     status |-> "ready", priority |-> priority, executor |-> executor,
     fallbacks |-> fallbacks, depends_on |-> deps, seams |-> {},
     attempts |-> 0, max |-> max, retry |-> "none"]

Ids(s) == {s.packages[i].id : i \in DOMAIN s.packages}
Find(s, id) == CHOOSE i \in DOMAIN s.packages : s.packages[i].id = id
HasStatus(s, id, status) ==
    id \in Ids(s) /\ s.packages[Find(s, id)].status = status
FinallyFailed(s, id) ==
    HasStatus(s, id, "failed") /\ s.packages[Find(s, id)].retry = "final_fail"
Added(s, new) == [s EXCEPT !.packages = @ \o new]

-----------------------------------------------------------------------------
(* apply_requirement_events, one event: what it affects is deprecated, and *)
(* a package that reworks the plan is added.  Every event of the snapshot  *)
(* that is not applied counts as pending.                                  *)

Pending(s) == {r \in DOMAIN Requirements : s.requirements[r] = "pending"}

PatchPackage(r) ==
    [Package(Requirements[r].package, "requirement_patch", "execution_planner", 100,
             "python", <<"claude_code">>, {}, 1)
        EXCEPT !.seams = Requirements[r].seams, !.domain = "planning"]

Deprecates(r, p) ==
    /\ Requirements[r].type \in {"add", "remove", "modify"}
    /\ p.id \in Requirements[r].affected
Deprecated(s, r) ==
    [i \in DOMAIN s.packages |->
        IF Deprecates(r, s.packages[i])
          THEN [s.packages[i] EXCEPT !.status = "deprecated"] ELSE s.packages[i]]

Patched(s, r) ==
    [s EXCEPT !.packages = Append(Deprecated(s, r), PatchPackage(r)),
              !.requirements[r] = "applied"]

-----------------------------------------------------------------------------
(* select_workset: ready packages on completed dependencies whose known    *)
(* seams are frozen; the three of highest priority, earlier ones first.    *)

DoneIds(s) == {s.packages[i].id :
    i \in {j \in DOMAIN s.packages : s.packages[j].status \in {"completed", "verified"}}}
IsReady(s, i) ==
    s.packages[i].status = "ready" /\ s.packages[i].depends_on \subseteq DoneIds(s)
HasFrozenSeams(s, i) ==
    \A seam \in s.packages[i].seams \cap DOMAIN s.seams : s.seams[seam] = "frozen"

Before(s, i, j) ==
    \/ s.packages[i].priority > s.packages[j].priority
    \/ s.packages[i].priority = s.packages[j].priority /\ i < j
(* Mutant: seams are not looked at.                                        *)
Candidates_anySeam(s) == {i \in DOMAIN s.packages : IsReady(s, i)}
Candidates(s) == {i \in DOMAIN s.packages : IsReady(s, i) /\ HasFrozenSeams(s, i)}
Workset(s) ==
    {i \in Candidates(s) : Cardinality({j \in Candidates(s) : Before(s, j, i)}) < Limit}

-----------------------------------------------------------------------------
(* The seeders of an existing repository, each tried only while nothing    *)
(* can be selected.                                                        *)

FollowUpWork(s) ==
    IF /\ HasStatus(s, "wp-repo-onboarding", "verified")
       /\ "wp-initial-work-plan" \notin Ids(s)
      THEN Added(s, <<Package("wp-initial-work-plan", "analysis_design",
                              "execution_planner", 90, "codex", <<"claude_code">>,
                              {"wp-repo-onboarding"}, 3)>>)
      ELSE s

FailedOnboardingAcceptance(s) ==
    IF /\ FinallyFailed(s, "wp-repo-onboarding")
       /\ "wp-bootstrap-acceptance" \notin Ids(s)
      THEN Added(s, <<Package("wp-bootstrap-acceptance", "acceptance",
                              "integration_owner", 95, "python", <<>>, {}, 1)>>)
      ELSE s

Slice(id, priority, deps) ==
    Package(id, "implementation", "software_engineer", priority, "codex",
            <<"claude_code">>, deps, 3)
Slices == <<Slice("wp-runtime-state-persistence", 95, {"wp-initial-work-plan"}),
            Slice("wp-executor-live-adapters", 90, {"wp-runtime-state-persistence"}),
            Slice("wp-onboarding-entry-flow", 85, {"wp-runtime-state-persistence"})>>

ImplementationWork(s) ==
    IF /\ HasStatus(s, "wp-initial-work-plan", "verified")
       /\ \A k \in DOMAIN Slices : Slices[k].id \notin Ids(s)
      THEN Added(s, Slices)
      ELSE s

Implementation(s) ==
    {i \in DOMAIN s.packages : s.packages[i].phase = "implementation"}

(* Mutant: the acceptance does not depend on the regression.               *)
ValidationWork_unordered(s) ==
    IF /\ Implementation(s) # {}
       /\ \A i \in Implementation(s) : s.packages[i].status = "verified"
       /\ {"wp-self-hosting-regression", "wp-self-hosting-acceptance"} \cap Ids(s) = {}
      THEN LET ids == {s.packages[i].id : i \in Implementation(s)} IN
           Added(s, <<Package("wp-self-hosting-regression", "testing", "qa_engineer",
                              80, "codex", <<"claude_code">>, ids, 3),
                      Package("wp-self-hosting-acceptance", "acceptance",
                              "integration_owner", 70, "claude_code", <<"python">>,
                              ids, 3)>>)
      ELSE s

ValidationWork(s) ==
    IF /\ Implementation(s) # {}
       /\ \A i \in Implementation(s) : s.packages[i].status = "verified"
       /\ {"wp-self-hosting-regression", "wp-self-hosting-acceptance"} \cap Ids(s) = {}
      THEN Added(s, <<Package("wp-self-hosting-regression", "testing", "qa_engineer",
                              80, "codex", <<"claude_code">>,
                              {s.packages[i].id : i \in Implementation(s)}, 3),
                      Package("wp-self-hosting-acceptance", "acceptance",
                              "integration_owner", 70, "claude_code", <<"python">>,
                              {"wp-self-hosting-regression"}, 3)>>)
      ELSE s

(* Mutant: the acceptance keeps its dependencies.                          *)
ReleaseAcceptance_keepsDeps(s) ==
    LET a == Find(s, "wp-self-hosting-acceptance") IN
    IF /\ FinallyFailed(s, "wp-self-hosting-regression")
       /\ HasStatus(s, "wp-self-hosting-acceptance", "ready")
      THEN [s EXCEPT !.packages[a] = [@ EXCEPT !.executor = "python", !.fallbacks = <<>>]]
      ELSE s

ReleaseAcceptance(s) ==
    LET a == Find(s, "wp-self-hosting-acceptance") IN
    IF /\ FinallyFailed(s, "wp-self-hosting-regression")
       /\ HasStatus(s, "wp-self-hosting-acceptance", "ready")
       /\ s.packages[a].depends_on # {}
      THEN [s EXCEPT !.packages[a] =
               [@ EXCEPT !.depends_on = {}, !.executor = "python", !.fallbacks = <<>>]]
      ELSE s

Seeder(k, s) ==
    CASE k = 1 -> FollowUpWork(s)
      [] k = 2 -> FailedOnboardingAcceptance(s)
      [] k = 3 -> ImplementationWork(s)
      [] k = 4 -> ValidationWork(s)
      [] k = 5 -> ReleaseAcceptance(s)
Seeders == IF ExistingRepo THEN 5 ELSE 0

-----------------------------------------------------------------------------
(* Executors.                                                              *)

(* ExecutorPolicy.resolve; without a policy, the executor of the package.  *)
Resolved(p) ==
    LET own == IF p.executor = "none" THEN "python" ELSE p.executor IN
    IF Policy = NoPolicy THEN own
    ELSE IF p.id \in DOMAIN Policy.by_work_package THEN Policy.by_work_package[p.id]
    ELSE IF p.domain \in DOMAIN Policy.by_domain THEN Policy.by_domain[p.domain]
    ELSE IF p.role \in DOMAIN Policy.by_role THEN Policy.by_role[p.role]
    ELSE IF p.phase \in DOMAIN Policy.by_phase THEN Policy.by_phase[p.phase]
    ELSE Policy.default

SupportedPhases ==
    [python |-> {"concept_collect", "acceptance", "requirement_patch"},
     claude_code |-> Phases \ {"requirement_patch"},
     codex |-> {"analysis_design", "implementation", "testing"}]
SupportedRoles ==
    [python |-> {"product_manager", "execution_planner", "integration_owner"},
     claude_code |-> Roles,
     codex |-> {"technical_architect", "software_engineer", "qa_engineer"}]
Supports(executor, p) ==
    p.phase \in SupportedPhases[executor] /\ p.role \in SupportedRoles[executor]

(* What dispatch and submit return.  The stub completes what it supports;  *)
(* a subprocess is run whether the package is supported or not, and its    *)
(* exit code decides.  Of a summary only the words matter that the retry   *)
(* policy looks for.                                                       *)
Completed == [status |-> "completed", summary |-> "plain"]
Failed(summary) == [status |-> "failed", summary |-> summary]
Outcomes(executor, p) ==
    IF ~Subprocess
      THEN {IF Supports(executor, p) THEN Completed ELSE Failed("rejected")}
      ELSE {Completed} \cup
           IF p.id \in MayFail THEN {Failed("plain"), Failed("seam"), Failed("rejected")}
           ELSE {}

-----------------------------------------------------------------------------
(* Retry decisions about a package p (the failed attempt counted) and the  *)
(* result res of that attempt.                                             *)

AtLimit(p) == p.attempts >= p.max
HasOtherFallback(p, executor) == \E k \in DOMAIN p.fallbacks : p.fallbacks[k] # executor
FirstOtherFallback(p, executor) ==
    p.fallbacks[CHOOSE k \in DOMAIN p.fallbacks :
                    /\ p.fallbacks[k] # executor
                    /\ \A j \in 1..(k - 1) : p.fallbacks[j] = executor]
Switch(p, executor) ==
    [action |-> "switch_executor", next |-> FirstOtherFallback(p, executor)]
Decision(action) == [action |-> action, next |-> "none"]

(* build_retry_guardrail *)
Forbidden(p, res) ==
    (IF patched \/ res.summary = "seam" THEN {"requeue", "switch_executor"} ELSE {})
    \cup (IF p.fallbacks = <<>> THEN {"switch_executor"} ELSE {})
Allowed(p, res) ==
    ((IF AtLimit(p) THEN {"final_fail"} ELSE Actions)
        \cup (IF res.summary = "seam" THEN {"block"} ELSE {})
        \cup (IF p.fallbacks # <<>> THEN {"switch_executor"} ELSE {}))
    \ Forbidden(p, res)

(* resolve_retry_action *)
RetryAction(p, res) ==
    CASE AtLimit(p) -> Decision("final_fail")
      [] ~AtLimit(p) /\ patched -> Decision("replan")
      [] ~AtLimit(p) /\ ~patched /\ res.summary = "seam" -> Decision("block")
      [] ~AtLimit(p) /\ ~patched /\ res.summary # "seam" ->
            IF res.summary = "rejected" /\ HasOtherFallback(p, res.executor)
              THEN Switch(p, res.executor) ELSE Decision("requeue")

(* MockLLMClient, or anything a live model may answer.                     *)
MockDecision(p, res) ==
    IF patched THEN Decision("replan")
    ELSE IF res.summary = "seam" /\ \E seam \in p.seams \cap DOMAIN mem.seams :
                mem.seams[seam] \notin {"frozen", "verified"}
      THEN Decision("block")
    ELSE IF /\ res.summary = "rejected" \/ p.attempts >= 2
            /\ HasOtherFallback(p, res.executor)
      THEN Switch(p, res.executor)
    ELSE Decision("requeue")
LiveDecisions ==
    {Decision(a) : a \in Actions}
    \cup {[action |-> "switch_executor", next |-> e] : e \in Executors}

Semantic(p, res) == IF Live THEN LiveDecisions ELSE {MockDecision(p, res)}
Guarded(p, res, d) == IF d.action \in Allowed(p, res) THEN d ELSE RetryAction(p, res)

(* Mutant: a replan that leaves its action as the status.                  *)
StatusAfter_replan ==
    [requeue |-> "ready", switch_executor |-> "ready", block |-> "blocked",
     replan |-> "replan_required", final_fail |-> "failed"]

StatusAfter ==
    [requeue |-> "ready", switch_executor |-> "ready", block |-> "blocked",
     replan |-> "blocked", final_fail |-> "failed"]

(* Mutant: the attempt is not counted.                                     *)
Attempted_uncounted(p) == p

(* _apply_executor_result *)
Attempted(p) == [p EXCEPT !.attempts = @ + 1]
Retried(p, d) ==
    [p EXCEPT !.status = StatusAfter[d.action], !.retry = d.action,
              !.executor = IF d.action = "switch_executor" THEN d.next ELSE @]

-----------------------------------------------------------------------------
(* The cycle.                                                              *)

Stores(cmd) == cmd # "snapshot"

(* Mutant: cycles are not numbered.                                        *)
CycleId_fixed(cmd) == 1

(* _next_cycle_id *)
CycleId(cmd) == IF Stores(cmd) THEN cycles + 1 ELSE 1

Event(type, scope, status) == [type |-> type, scope |-> scope, status |-> status]
Numbered(events, id, seq) ==
    [k \in DOMAIN seq |-> [cycle |-> id, n |-> Len(events) + k, type |-> seq[k].type,
                           scope |-> seq[k].scope, status |-> seq[k].status]]
Emit(seq) == unsent' = unsent \o Numbered(unsent, CycleId(command), seq)

(* Back at rest: what was in memory is gone.                               *)
Rest ==
    /\ pc' = "idle"
    /\ mem' = file'
    /\ tried' = 0 /\ todo' = {} /\ raw' = <<>> /\ unsent' = <<>> /\ patched' = FALSE
    /\ UNCHANGED command

Begin(cmd) ==
    /\ pc = "idle" /\ ~torn
    /\ Stores(cmd) => cycles < MaxCycles
    /\ command' = cmd
    /\ mem' = file
    /\ patched' = (Pending(file) # {})
    /\ tried' = 0 /\ todo' = {} /\ raw' = <<>> /\ unsent' = <<>>
    /\ pc' = "patch"
    /\ UNCHANGED <<disk, crashes>>

ApplyRequirement(r) ==
    /\ pc = "patch"
    /\ r \in Pending(mem) /\ \A q \in Pending(mem) : r <= q
    /\ mem' = Patched(mem, r)
    /\ Emit(<<Event("requirement_patch_applied", Requirements[r].package, "none")>>)
    /\ UNCHANGED <<disk, pc, command, tried, todo, raw, patched, crashes>>

AllApplied ==
    /\ pc = "patch" /\ Pending(mem) = {}
    /\ pc' = "select"
    /\ UNCHANGED <<disk, volatile, crashes>>

(* One seeder after the other, until there is something to select.         *)
Seed ==
    /\ pc = "select" /\ Workset(mem) = {} /\ tried < Seeders
    /\ tried' = tried + 1
    /\ mem' = Seeder(tried + 1, mem)
    /\ UNCHANGED <<disk, pc, command, todo, raw, unsent, patched, crashes>>

(* Mutant: selected from the snapshot as it was loaded.                    *)
Select_beforePatch ==
    /\ pc = "select" /\ (Workset(mem) # {} \/ tried = Seeders)
    /\ todo' = Workset(file)
    /\ tried' = 0
    /\ pc' = "run"
    /\ UNCHANGED <<disk, command, mem, raw, unsent, patched, crashes>>

Select ==
    /\ pc = "select" /\ (Workset(mem) # {} \/ tried = Seeders)
    /\ todo' = Workset(mem)
    /\ tried' = 0
    /\ pc' = "run"
    /\ UNCHANGED <<disk, command, mem, raw, unsent, patched, crashes>>

(* _dispatch_selected_work, one package.                                   *)
IsFirst(i) == i \in todo /\ \A j \in todo \ {i} : Before(mem, i, j)

Dispatch(i) ==
    /\ pc = "run" /\ IsFirst(i)
    /\ LET p == mem.packages[i]
           executor == Resolved(p)
       IN  /\ Subprocess => executor \notin Missing
           /\ mem' = [mem EXCEPT !.packages[i] = [p EXCEPT !.status = "running"]]
           /\ \E out \in Outcomes(executor, p) :
                raw' = Append(raw, [at |-> i, executor |-> executor,
                                    status |-> out.status, summary |-> out.summary])
           /\ Emit(<<Event("work_package_dispatched", p.id, "none")>>)
    /\ todo' = todo \ {i}
    /\ UNCHANGED <<disk, pc, command, tried, patched, crashes>>

(* Popen raises FileNotFoundError, which ends the cycle.                   *)
ExecutorNotFound(i) ==
    /\ pc = "run" /\ IsFirst(i) /\ Subprocess
    /\ Resolved(mem.packages[i]) \in Missing
    /\ UNCHANGED <<disk, crashes>>
    /\ Rest

(* _verify_results, one result, and the events about it.                   *)
RetryEvents(p, d) ==
    CASE d.action = "requeue" -> <<Event("work_package_requeued", p.id, "none")>>
      [] d.action = "switch_executor" ->
            <<Event("work_package_requeued", p.id, "none"),
              Event("work_package_executor_switched", p.id, "none")>>
      [] d.action = "block" -> <<Event("work_package_blocked", p.id, "none")>>
      [] d.action = "replan" -> <<Event("work_package_replan_requested", p.id, "none")>>
      [] OTHER -> <<>>

Verify ==
    /\ pc = "run" /\ todo = {} /\ raw # <<>>
    /\ LET res == Head(raw)
           p == Attempted(mem.packages[res.at])
           normalized == <<Event("executor_result_normalized", p.id, res.status)>>
       IN  \/ /\ res.status = "completed"
              /\ mem' = [mem EXCEPT !.packages[res.at] = [p EXCEPT !.status = "verified"]]
              /\ Emit(normalized)
           \/ /\ res.status = "failed"
              /\ \E answer \in Semantic(p, res) :
                    LET d == Guarded(p, res, answer) IN
                    /\ mem' = [mem EXCEPT !.packages[res.at] = Retried(p, d)]
                    /\ Emit(normalized \o RetryEvents(p, d))
    /\ raw' = Tail(raw)
    /\ UNCHANGED <<disk, pc, command, tried, todo, patched, crashes>>

CycleCompleted ==
    /\ pc = "run" /\ todo = {} /\ raw = <<>>
    /\ Emit(<<Event("cycle_completed", "workspace", "none")>>)
    /\ pc' = IF Stores(command) THEN "append" ELSE "write"
    /\ UNCHANGED <<disk, command, mem, tried, todo, raw, patched, crashes>>

(* append_event replaces an event of the same id.                          *)
SameId(e, f) == e.cycle = f.cycle /\ e.n = f.n /\ e.type = f.type /\ e.scope = f.scope
AppendEvent ==
    /\ pc = "append" /\ unsent # <<>>
    /\ log' = {e \in log : ~SameId(e, Head(unsent))} \cup {Head(unsent)}
    /\ unsent' = Tail(unsent)
    /\ UNCHANGED <<file, torn, cycles, pc, command, mem, tried, todo, raw, patched, crashes>>

(* Mutant: the snapshot is stored before the events.                       *)
PersistSnapshot_first ==
    /\ pc = "append"
    /\ cycles' = IF unsent = <<>> THEN cycles ELSE cycles + 1
    /\ UNCHANGED <<file, torn, log, crashes>>
    /\ IF command = "continue" THEN Rest
       ELSE pc' = "write" /\ UNCHANGED volatile

(* _persist_snapshot; the REPL's continue ends with it.                    *)
PersistSnapshot ==
    /\ pc = "append" /\ unsent = <<>>
    /\ cycles' = cycles + 1
    /\ UNCHANGED <<file, torn, log, crashes>>
    /\ IF command = "continue" THEN Rest
       ELSE pc' = "write" /\ UNCHANGED volatile

(* _write_snapshot_file truncates the file, then writes it.                *)
OpenFile ==
    /\ pc = "write"
    /\ pc' = "writing"
    /\ UNCHANGED <<disk, volatile, crashes>>

(* Mutant: only the work packages are written.                             *)
WriteFile_packagesOnly ==
    /\ pc = "writing"
    /\ file' = [file EXCEPT !.packages = mem.packages]
    /\ UNCHANGED <<torn, cycles, log, crashes>>
    /\ Rest

WriteFile ==
    /\ pc = "writing"
    /\ file' = mem
    /\ UNCHANGED <<torn, cycles, log, crashes>>
    /\ Rest

Crash ==
    /\ pc # "idle" /\ crashes < MaxCrashes
    /\ crashes' = crashes + 1
    /\ torn' = (pc = "writing")
    /\ UNCHANGED <<file, cycles, log>>
    /\ Rest

(* The snapshot file is edited between cycles: a requirement event about   *)
(* packages that exist is recorded, a seam is frozen or verified.          *)
Edits(s) == pc = "idle" /\ ~torn /\ file' = s /\ mem' = s
            /\ UNCHANGED <<torn, cycles, log, pc, command, tried, todo, raw, unsent,
                           patched, crashes>>
RecordRequirement(r) ==
    /\ file.requirements[r] = "absent" /\ Requirements[r].affected \subseteq Ids(file)
    /\ Edits([file EXCEPT !.requirements[r] = "pending"])
FreezeSeam(seam) ==
    Edits([file EXCEPT !.seams[seam] = "frozen"])
VerifySeam(seam) ==
    /\ file.seams[seam] \in {"frozen", "implemented", "verified"}
    /\ Edits([file EXCEPT !.seams[seam] = "verified"])

Init ==
    /\ file = [packages |-> Packages, seams |-> SeamStatus,
               requirements |-> [r \in DOMAIN Requirements |-> "absent"]]
    /\ torn = FALSE /\ cycles = 0 /\ log = {}
    /\ pc = "idle" /\ command = "snapshot"
    /\ mem = file /\ tried = 0 /\ todo = {} /\ raw = <<>> /\ unsent = <<>> /\ patched = FALSE
    /\ crashes = 0

Cycle == (\E r \in DOMAIN Requirements : ApplyRequirement(r)) \/ AllApplied
         \/ Seed \/ Select \/ (\E i \in todo : Dispatch(i) \/ ExecutorNotFound(i)) \/ Verify
         \/ CycleCompleted \/ AppendEvent \/ PersistSnapshot \/ OpenFile \/ WriteFile
Edit == \/ \E r \in DOMAIN Requirements : RecordRequirement(r)
        \/ \E seam \in DOMAIN SeamStatus : FreezeSeam(seam) \/ VerifySeam(seam)
Next == (\E cmd \in Commands : Begin(cmd)) \/ Cycle \/ Crash \/ Edit

Spec == Init /\ [][Next]_vars
(* Cycles are run again and again, and one that began goes on.             *)
FairSpec == Spec /\ WF_vars(\E cmd \in Commands : Begin(cmd)) /\ WF_vars(Cycle)

-----------------------------------------------------------------------------
(* Properties.                                                             *)

SnapshotDef == [packages: Seq(PackageDef), seams: [DOMAIN SeamStatus -> SeamStatuses],
                requirements: [DOMAIN Requirements -> {"absent", "pending", "applied"}]]

SnapshotTyped ==
    /\ file \in SnapshotDef /\ mem \in SnapshotDef
    /\ torn \in BOOLEAN /\ patched \in BOOLEAN
    /\ cycles \in 0..MaxCycles /\ crashes \in 0..MaxCrashes
    /\ log \subseteq EventRecord /\ unsent \in Seq(EventRecord)
    /\ pc \in {"idle", "patch", "select", "run", "append", "write", "writing"}
    /\ command \in AllCommands
    /\ todo \subseteq DOMAIN mem.packages
    /\ tried \in 0..Seeders
    /\ raw \in Seq(ResultDef) /\ \A k \in DOMAIN raw : raw[k].at \in DOMAIN mem.packages

(* A package runs only on dependencies that are done and seams that are    *)
(* frozen in the snapshot that the cycle will save, the requirement events *)
(* of this cycle applied.                                                  *)
FirmGround ==
    \A i \in DOMAIN mem.packages :
        mem.packages[i].status = "running" =>
            /\ mem.packages[i].depends_on \subseteq DoneIds(mem)
            /\ HasFrozenSeams(mem, i)

(* What an applied requirement event affects stays deprecated: no cycle    *)
(* that selected it before, and no retry, brings it back.                  *)
AffectedDeprecated ==
    \A r \in DOMAIN Requirements :
        /\ file.requirements[r] = "applied"
        /\ Requirements[r].type \in {"add", "remove", "modify"}
        => \A i \in DOMAIN file.packages :
              file.packages[i].id \in Requirements[r].affected =>
                  file.packages[i].status = "deprecated"

(* A requirement event is applied exactly once: its patch package is in    *)
(* the snapshot once if the event says applied, and not if it does not,    *)
(* whatever crashed or was repeated in between.                            *)
PatchOnce ==
    \A r \in DOMAIN Requirements :
        Cardinality({i \in DOMAIN file.packages :
                        file.packages[i].id = Requirements[r].package})
            = IF file.requirements[r] = "applied" THEN 1 ELSE 0

Results(id) == {e \in log : e.type = "executor_result_normalized" /\ e.scope = id}

(* Every attempt the snapshot counts can be reconstructed from the events  *)
(* (docs/superpowers/specs/2026-04-02-acceptance-plan-design.md:243).      *)
AttemptsLogged ==
    \A i \in DOMAIN file.packages :
        file.packages[i].attempts <= Cardinality(Results(file.packages[i].id))

(* A history snapshot is stored only after all events of its cycle.        *)
HistoryLogged ==
    \A c \in 1..cycles : \E e \in log : e.cycle = c /\ e.type = "cycle_completed"

(* No package is attempted more often than its max_attempts.               *)
AttemptLimit ==
    \A i \in DOMAIN mem.packages : mem.packages[i].attempts <= mem.packages[i].max

(* A cycle that crashes after the batch is dispatched is recovered from    *)
(* the snapshot with the dispatched packages running, no progress lost     *)
(* (docs/superpowers/specs/2026-04-02-acceptance-plan-design.md:239).      *)
DispatchedSurvives ==
    [][(crashes' = crashes + 1 /\ pc = "run" /\ todo = {} /\ ~torn') =>
          \A i \in DOMAIN mem.packages :
              mem.packages[i].status = "running" =>
                  HasStatus(file', mem.packages[i].id, "running")]_vars

AllIds == FirstIds \cup SeededIds

Ready(id) == id \in Ids(file) /\ IsReady(file, Find(file, id))

(* A package that is ready is not starved by three of higher priority that *)
(* keep failing, nor retried for ever.                                     *)
ReadyServed == \A id \in AllIds : Ready(id) ~> ~Ready(id)

(* When an existing repository's onboarding or regression has used up its  *)
(* executors, an acceptance still closes the attempt.                      *)
Ended(id) ==
    \E status \in {"verified", "failed", "blocked"} : HasStatus(file, id, status)
ExhaustedClosesOut ==
    /\ FinallyFailed(file, "wp-repo-onboarding") ~> Ended("wp-bootstrap-acceptance")
    /\ FinallyFailed(file, "wp-self-hosting-regression")
          ~> Ended("wp-self-hosting-acceptance")

(* The self-hosting acceptance is attempted only on verified slices, after *)
(* the regression was verified or has used up its executors.               *)
AcceptanceLast ==
    LET id == "wp-self-hosting-acceptance" IN
    id \in Ids(file) /\ file.packages[Find(file, id)].attempts > 0 =>
        /\ \A k \in DOMAIN Slices : HasStatus(file, Slices[k].id, "verified")
        /\ \/ HasStatus(file, "wp-self-hosting-regression", "verified")
           \/ FinallyFailed(file, "wp-self-hosting-regression")
=============================================================================
