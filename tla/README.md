# DevForge: specification and proofs

TLA+ models of DevForge (`src/devforge`), an orchestrator of coding agents: it
keeps a graph of work on disk, starts executors (`codex`, `claude`, local
Python), looks at what they leave behind, and decides what to run, repeat,
diagnose or redo. Paths below are relative to the repository.

## 1. Inventory

| Part | State | Operations | What is hard |
|---|---|---|---|
| Workflow cycle (`workflow/graph.py`) | manifest in memory, candidates | load, reconcile, route, dispatch, persist, finalize (complete, failed, awaiting, blocked) | side effects before the manifest is written; several starts after one count |
| Workflow engine (`workflow/engine.py`, `artifacts.py`, `models.py`) | node status, attempts, pid | artifact reconciliation, rewind, spawn, audit, meta children (diagnose, verify, refactor), selection, launch | executors nobody waits for, zombies, ids computed from attempts, ends of chains |
| Workflow commands (`repl.py`, `main.py`) | index.json, pending_plan.json | `wf init`, `run`, `confirm`, `reset`, `switch` | several writes per command, REPL and CLI differ |
| Workflow store (`workflow/store.py`) | manifest.json, index.json, node files, logs | atomic replace of one file | two files that must agree |
| Workflow validation (`workflow/validation.py`) | none | ids, dependencies, cycles | nothing calls it |
| Orchestration kernel (`graph/builder.py` `run_cycle`) | snapshot: projects, work packages, seams, requirement events | apply requirement events, select a workset, seed work, dispatch, verify, record | patch before selection, retry decisions, persistence at the end of the cycle |
| Scheduler (`scheduler/workset_selector.py`) | none | three ready packages by priority with frozen seams | starvation, blocked seams |
| Planning (`planning/graph_patch.py`, `retry_policy.py`, `retry_decision.py`) | work packages | patch by requirement events, guardrail, retry | attempt limit combined with other guardrails |
| Planning analyses (`planning/closure_expander.py`, `design_validator.py`, `gap_analyzer.py`, `acceptance.py`, ...) | none | closures, cycle detection, prompts | a depth-first search from a set of roots |
| Planning meta graph (`graph/langgraph_builder.py`, `nodes.py`, `tool_enhanced_nodes.py`) | one runtime state: workset, pending events, replan reason, design and its verdict | scheduler, patch, concept, planning, validation, batch; design, audit, closures, acceptance | the loop back to the scheduler; a verdict about another design |
| Seam verifier (`seams/verifier.py`) | none | keywords in findings | nothing a command runs calls it |
| Executors (`executors/*`) | running processes, their pipes and start times | submit, poll, deadline, normalise a result | a full pipe, a process that ignores SIGTERM, exceptions that lose other packages' results |
| Persistence (`persistence/*`) | snapshot, events, artifacts, memory | save, append, load | a crash between the stores |
| Session and REPL (`repl.py`, `session/*`) | session.json, last_cycle.json; session, runs and view in memory | load, continue, attach, detach, free text, quit, interrupt | several files written in place; two processes; runs of an older cycle |
| Project initialization (`main.py`, `topology/*`, onboarding in `repl.py`) | snapshot and project config | init, onboarding | looks for the files, asks a model, then writes both |
| Workflow index (`index.json`) | the workflows, their status, the active one | init, switch, status changes of a cycle | read, changed and replaced without a lock |
| Context broker, roles, knowledge, LLM clients, tools | caches and text | lookups, HTTP | no state another part depends on |

The workflow engine and the orchestration kernel are two independent
orchestrators: they share the REPL and the executors' command lines, but no
state. Inside the workflow engine everything goes through files: a command
(or one cycle) reads manifest.json, works on its copy, and writes it back;
executors communicate by exit artifacts, `spawn.json`, `rewind.json` and
`pending_plan.json`; index.json repeats the status for the user.

Processes share these files without locks. The design document of the engine
(line 480) asks for one devforge instance at a time; nothing enforces it, so the
modules on single components assume it, and `Session` says what holds without it.

What makes each part correct:

* cycle and engine: limits on concurrency and attempts hold; no executor is
  forgotten or doubled; a retry follows a diagnosis of that very attempt; what
  is completed stands on completed dependencies and existing artifacts; no
  write loses a node; the workflow ends, and its end is told alike by both
  files; what a spawn or a plan adds arrives, once.
* kernel: a work package never runs on unfinished dependencies or on a seam that
  is not frozen, is attempted at most `max_attempts` times, and is never
  dispatched once a requirement event deprecated it.
* executors: a verdict is that of the package's own process, a process that
  still runs is polled or was told to stop, a package costs a bounded number of
  processes, and a cycle ends whatever its executors do.
* planning: a cycle among domains is found exactly when there is one, the
  verdict kept is that of the design last validated, and a call returns.
* persistence: after a crash the snapshot and the event log agree up to a
  known suffix.
* session and index: a workflow the index lists can be run, config and snapshot
  are of one initialization, the view shows a run that exists, the saved session
  has seen the last cycle, and no command loses a workflow.

## 2. Modules

| Module | Content |
|---|---|
| `WorkflowEngine` | workflow cycle, engine, commands and store, executor processes as environment; all properties |
| `WorkflowLifecycle` | abstract specification: the workflow and its nodes as a reader of manifest.json sees them, write by write |
| `MCWorkflowEngine` | small plans, spawn files and sets of failing executors for TLC |
| `WorkflowEngine_proofs` | type correctness, limits on slots and attempts, writes lose no node |
| `WorkflowSteps_proofs` | what each action does to the manifest, as lemmas; verification has no end |
| `WorkflowOutcome_proofs` | what retries, executors, ids, dependencies, findings and a complete workflow stand on: six safety theorems |
| `WorkflowRefinement_proofs` | `WorkflowEngine` implements `WorkflowLifecycle` |
| `SnapshotCycle` | the orchestration kernel: one cycle over the snapshot, its seeders, executors, retry decisions and stores, and the commands that run it; all its properties |
| `MCSnapshotCycle` | small snapshots for TLC |
| `SnapshotCycle_proofs` | type correctness of the kernel and seven safety theorems |
| `ExecutorTransport` | how one kernel cycle runs real processes: pipes, deadline, exit codes, exceptions, crashes |
| `MCExecutorTransport` | the kinds of executors that differ for the transport |
| `ExecutorTransport_proofs` | type correctness and three safety theorems |
| `DomainCycles` | the three-colour search of `design_validator.py`, for any order of visiting |
| `MetaGraph` | the planning meta graph and the design nodes on one runtime state; composes `DomainCycles` |
| `MCMetaGraph` | designs over three domains, gaps of an acceptance verdict |
| `MetaGraph_proofs` | type correctness (closures within their budget), and that the search is right, and so the verdict it ends in |
| `WorkflowIndex` | index.json and the manifests' phases under the commands of several processes |
| `Session` | interactive sessions and commands over the runtime's files; composes `WorkflowIndex` |
| `MCSession` | symmetry of terminals, runs and workflows |
| `Session_proofs` | type correctness and five safety theorems |

`WorkflowEngine` and `SnapshotCycle` are what one process does inside a workflow
or a cycle; `WorkflowIndex` and `Session` replace that by its outcome (a phase, a
cycle number) and look at how processes meet over the files. In the same way
`SnapshotCycle` has one outcome for an execution, and `ExecutorTransport` opens it.

### How `WorkflowEngine` corresponds to the code

`disk` is manifest.json (phase and entries), `index` this workflow's status in
index.json, `plan` pending_plan.json with the planner attempt that wrote it.
`mem` is the manifest of the running command, `cand` the selected entries it
has not dispatched yet, `cursor` the loop variable, `pc` the place in the
command. `arts`, `dirty`, `spawns` and `rewinds` are what executors left: ids
with complete artifacts, with audit findings, with an unprocessed spawn.json
or rewind.json. `procs` are all executors ever started: live, zombie (exited,
not waited for by its parent) or gone.

* A cycle: `StartCycle` (load), `ReconcileNode` once per entry that reconciling
  changes, `ResolveParents`, `RewindNode`, `RewindsDone`, `SpawnNode`, then
  `RouteAwaiting` or `Route`, then `LaunchExecutor`/`ExecutorNotFound` and
  `WriteLaunched`, or `StartSync` ... `SyncReturns`, for each candidate, then
  `Persist`; or `Finalize` and `SyncIndex`. These are separate steps because
  executors may end, and the engine may crash, between any two of them; visits
  that change nothing are skipped, the order is the list's.
* `Settle` is `apply_strategy_postprocessing`: audit, then at most one meta
  child. It happens in the same step as the change of status, as in the code.
* Meta ids carry the parent id, the kind and the attempt, as the code's string
  `diagnose-<id>-a<n>` does; names are otherwise model values. Named nodes are
  assumed not to begin with a meta prefix.
* `Popen` is followed by a separate `WriteLaunched`: the executor runs before
  the manifest says so. `Reaped` is what CPython's `subprocess` does with
  children nobody waits for when the next `Popen` is made; `Orphaned` is what
  the operating system does when the engine process ends.
* `Confirm` deletes the plan, `WriteConfirmed` writes the manifest.
  `ResetNode` and `ReopenWorkflow` are the three writes of `wf reset`; the
  REPL's version keeps the pid.

`HelpersDefined` is a constant because four helpers that `graph.py`, `main.py`
and `repl.py` name are missing from `engine.py`: they keep the goal text and
the failure history, which no guard reads. Every run has `TRUE` and checks
everything else the code does. With `FALSE`, the code as it is, there is nothing
to check: `load_manifest_node` calls `_sync_manifest_goal_with_intent` (`graph.py:46`),
so every cycle ends in AttributeError one step after it began, although
`tests/test_workflow_engine.py:194` expects it to dispatch; `_record_failure`
(`graph.py:82`), `_bump_epoch` (`main.py:1051`) and `_ITERATIVE_CONVERGENCE_SOP`
(`repl.py:338`, imported by `wf init`) are missing the same way. `WorkflowIndex` and
`Session` let `wf init` and the cycles succeed, as if the four were there.

A node of the plan gets its file from `wf confirm`, a meta node from
`_write_meta_node`; a spawned one has none (`def` is FALSE for it), and
`DispatchAborts` is the dispatch that `read_node` ends.

### What `WorkflowLifecycle` promises

It knows the phase and the nodes, and nothing of files, processes, crashes or
cycles in progress. A node waits, starts only on completed dependencies with an
attempt and a slot left (one per write), and ends by running; what ran moves
again only when a diagnosis is completed or the user resets it; the workflow is
complete when all nodes are, and failed when one has used up its attempts.
`ImplementsLifecycle` is the refinement: `phase` and `nodes` are read off `disk`
(`Ledger`), so `Persist`, `Finalize`, `WriteLaunched`, `StartSync`, `SyncReturns`, `WriteConfirmed`, `ResetNode` and
`ReopenWorkflow` map to its actions and all other steps stutter. It says what the
invariants of single states cannot: that no *combination* of steps between
two writes (reconcile, rewind, launch, crash) moves a node outside its life.

### How `SnapshotCycle` corresponds to the code

`file` is the snapshot file (work packages in list order, requirement events,
seams) and `torn` says that a crash left it truncated; `cycles` counts the
history snapshots in `workspace.sqlite3`, `log` is its events table. `mem` is
`updated_snapshot`, `todo` the selected packages still to be dispatched, `raw`
the raw results, `unsent` is `cycle_events`. Nothing of these survives the
process: `Rest` drops them.

* A cycle: `Begin` (load, cycle id, pending events), `ApplyRequirement` per
  event, `Seed` per seeder while nothing can be selected, `Select`, `Dispatch`
  per package, `Verify` per result, `CycleCompleted`; with stores `AppendEvent`
  per event and `PersistSnapshot`; then, for `devforge snapshot`, `OpenFile` and
  `WriteFile`. `continue` in the REPL ends with `PersistSnapshot`.
* `Workset` is `select_workset`: the sort by priority is `Before` (it is
  stable), the limit a count of what comes before. A package is named in `todo`
  and `raw` by its index, since a cycle only appends.
* `Outcomes` is what `dispatch` returns: the stub completes what the adapter
  supports; the subprocess transport runs the package whether the adapter
  supports it or not, and its exit code decides. Of a summary only the words
  "seam"/"contract" and "rejected" matter, hence three kinds of failure. A
  timeout is a failure like any other here.
* `Forbidden`, `Allowed`, `RetryAction`, `MockDecision` and `Guarded` are the
  guardrail, the policy and the decision; with `Live` the language model may
  answer anything, and the guardrail decides.
* The cycle id and an event's position in its cycle are its `event_id`;
  `AppendEvent` replaces an event with the same id.
* Requirement events and seam changes enter as edits of the file between cycles:
  `freeze_seam` and `verify_seam` are the only operations the code has for seams,
  none records a requirement event. The model lets an event name only packages
  that exist when it is recorded: `apply_requirement_events` looks at the packages
  once, so one that is seeded later under a name given before would not be
  deprecated.

Left out: projects other than the active one, knowledge selection, prompts,
the planning nodes inside `run_cycle`, artifact and memory stores (written, and read only to build
prompts), statuses the cycle never sets, and the fields nothing reads.

### How `ExecutorTransport` corresponds to the code

`procs` are the processes `Popen` started, oldest first, each with its package,
its exit code and its fate: watched, sent SIGTERM, or an orphan of a crash. The
adapter polls the one it submitted last, so `Awaited` is the last. `raw` are the
cycle's raw results, `ledger` status and attempts in the snapshot, `age` the time
since the submit in polls, `lost` the cycles that ended in an exception or crash.

* `Begin`, then per package `NotConfigured` (an adapter without a live command),
  `ExecutorNotFound` (Popen raises) or `Submit`, `Sleep` between two polls, and a
  poll: `TimedOut` is tested before the exit code, as in `poll`; `Collected` reads
  the pipes; `PipeHeld` is `communicate(timeout=5)` raising because a descendant
  keeps the pipe open. Then `DispatchDone` and `Verify`, or `NormalizeRaises` where
  `Finding(**item)` raises. Every exception takes the whole cycle (`Lost`).
* Nothing reads a pipe before the process has ended: an executor that prints more
  than `Capacity` never exits by itself (`Exits`). `Terminated` is one that obeys
  SIGTERM. Both also happen to processes no one watches any more.
* `Settled` is `_apply_executor_result` without a fallback and with the rule-based
  decision; `SnapshotCycle` has the rest of it.

Left out: `cancel`, and a `poll` without a deadline, which tests alone call; two
processes of one request, which the code does not start.

### How `DomainCycles` and `MetaGraph` correspond to the code

`DomainCycles` is `_detect_cycles`: `colour` of each domain, `stack` the path,
`rest` the neighbours the `for` loops have not come to, `cycles` the reported
sets. `Root` and `Neighbour` take any domain, since `known_ids` is a set.
A dependency on a domain that is not defined is skipped, as in the code.

`MetaGraph` has one variable per field of `RuntimeState` that a node reads or
writes. `Invoke` runs the graph; `ProjectScheduler` ... `BatchVerification` are its
nodes, each with its route. `ProductDesign`, `DesignValidation`, `ClosureExpansion`
and `Acceptance` are the nodes of `nodes.py` and `tool_enhanced_nodes.py`, which the
caller calls in any order until `next_step_for_state` (`NextStep`) says to stop.
`validated` is a history variable: the design `design_valid` is about. `Audits` is
the cross-model audit, which only sees structurally valid designs. `Budget` is the
number of sources of a ring, `int(n * 0.5 ** (ring - 1))`. `ReentryPoint` is
`gap_analyzer`'s: the first gap of the highest severity decides. What a language
model answers is chosen freely. Of the tool wrappers only the audit can change
more than text: the others catch every exception and add to what the base node
returns.

### How `WorkflowIndex` and `Session` correspond to the code

A *terminal* is a place where a user starts devforge, one process at a time: an
interactive session (`repl`), or a command. `pc` is the step its process is at;
each step reads or writes one file, because between any two of them another
process may run, or this one be killed (`Kill`).

* index.json and the manifests are replaced whole, but a command reads the index
  (`ReadIndex`), changes its copy (`Edited`) and writes it later (`WriteIndex`). What a
  cycle does inside a workflow is a step to some phase (`FinishWorkflowCycle`).
* Snapshot, project config, session.json and last_cycle.json are written in place;
  a process killed at such a step may leave the file cut off ("torn").
* `session` and `last` carry the number of the cycle they were made of, the runs
  and the run the view is attached to; `mem` is the same in memory. `continue`
  (`BeginCycle` ... `SaveLastCycle`) replaces it; `AttachRun`, `DetachRun`,
  `InputInformation`, `Quit` and `Interrupt` are the commands that change it.
* `Initialize` and `Onboard` check, `WriteSnapshot` and `WriteConfig` write; the layout
  a model chooses (one project, a business, a workspace) stands for the content.
* `overlap` is a history variable: a command was ever given while another process
  was open. It is the condition the design document asks of the user.

Choice 3 of the onboarding (another directory) is the same session over another
root. Workflow ids have a granularity of one second and are assumed distinct.

### Left out of `WorkflowEngine`

Not modelled there: prompt and context construction, transitions.jsonl, run logs,
status.json, pull events (written only), several workflows (`WorkflowIndex` has
them), two engine processes at once (the design document excludes them), pid
reuse. Rewinds find the first entry of an id and the model all of them, so rewinds
are only combined with plans of unique ids.

## 3. Runs

| Run | Shows | States |
|---|---|---|
| `cycles` | two-node chain beside an independent node, all may fail, one executor may be missing: `TypeOK`, `NoOrphanExecutor`, `RetriesDiagnosed`, `CompleteMeansDone`, and under fairness `Terminates`, `ExhaustedFails` | 83 675 |
| `redo` | all commands in one REPL process with its zombies; an audited node with findings, and rewinds of the node that stands on it, on which three others depend, directly or not; or, in a second plan, a discovery node whose spawn.json names a new and a known id: `GovernedGate`, `UpstreamDone`, `UniqueIds` | 162 407 |
| `crash` | one crash anywhere and one reset of any node at any time, two independent nodes beside the planner: `RunningBound`, `AttemptBound`, `ManifestGrows`, `IndexFollows`, and the refinement `ImplementsLifecycle` | 232 675 |
| `kernel` | two stored cycles over three packages, a seam and a requirement event, with failures, a missing executor, any retry answer and one crash anywhere: `SnapshotTyped`, `FirmGround`, `PatchOnce`, `AttemptsLogged`, `HistoryLogged`, `AffectedDeprecated` | 434 260 |
| `pipeline` | onboarding, plan, three slices, regression and acceptance of an existing repository, behind three failing packages of higher priority: `AcceptanceLast`, and under fairness `ReadyServed`, `ExhaustedClosesOut` | 96 276 |
| `transport` | two packages, executors that block on a full pipe, ignore SIGTERM, leave the pipe to a descendant or print nonsense, a missing one, and two lost cycles: `TransportTyped`, `LiveAreWatched`, `VerdictFits`, `LaunchesBounded`, and under fairness `CycleEnds` | 322 593 |
| `meta` | the meta graph and the design nodes in any order, over all dependency graphs of three domains but for two self-loops: `MetaTyped`, `CycleVerdict`, `VerdictOnDesign`, and under fairness `CallsReturn` | 144 186 |
| `session` | two terminals, sessions and commands, two workflows, one killed process: `AttachedRunKnown`, `RuntimeFits`, `SessionCurrent`, `ListedRunnable`, `WorkflowsKept` | 2 925 447 up to symmetry |

`MAX_CONCURRENT` and `MAX_ATTEMPTS` are 2 in the runs of `WorkflowEngine` (3 in the
code; `redo`, where a third attempt makes a difference, has three of them): two is the
smallest value that has a first, a last and a retried attempt, and a free and a taken slot. `MaxMeta` = 2 lets executors of meta nodes nested
deeper never end: a meta node of a meta node is the first place where the rules
for named and meta nodes meet. `MaxCrashes` and `MaxResets` are 1 where a run is
about them; the REPL is in `redo`, resets and crashes are in `crash` with one process per
command, so a reset in the REPL, which keeps the pid, is in the model and in the
proofs but in no run. `MayFail`, `MayViolate`, `MayMiss` say whose executors may fail, write
findings, or be missing; they are what keeps each run small.

In `kernel`, `MaxCycles` = 2 because the interesting states lie between a cycle
and its repetition or successor; a chain of two, a package on a seam and an
event that affects the chain's head make every guard of the selection both
true and false; three packages and a patch exceed the limit of three. One crash
is enough for each place between two writes; the second cycle is then the
recovery. `pipeline` has no bound but the attempts; all seven packages of the
pipeline, and the acceptance that closes a failed one, occur. The attempt limit
is only checked by `attempt_limit`, where it fails.

In `transport`, two packages are the least with one result that an exception of
the other can lose. A pipe holds 1, executors print 1 or 2; the deadline is one
poll, so a process can end before it, between it and the poll that notices, and
after it; two attempts and two lost cycles let both ways of repeating a launch
meet. In `meta`, three domains have cycles of length one, two and three and
branches that meet again; three calls are enough to validate, redesign and ask
again; three rings let the budget reach both its limits. In `session`, two
terminals are enough for a read and a write of another process between them, two
workflows for one to be active and one to be lost, and five commands for two
inits, a switch, a cycle and one more; two runs tell apart the attached one from
another.

`kernel`, `transport`, `meta`, `session` and `running_on_disk` are without a deadlock
check: they stop where a bound on cycles, losses, calls or commands is reached
(or, in `kernel`, the file is cut off; in `meta`, the caller was told to terminate).

In `transport` only one of the two packages starts processes; the other has no live
command and answers at once, so what is checked of two packages is the loss of
a result by the other's exception, not two live executors. The proofs have any number.

`VerdictOnDesign` compares the verdict with the design it was made of, by a history
variable: it finds a verdict mixed of two validations, not one that outlives its
design (below). `WorkflowsKept` is about processes that do not overlap; what
overlapping ones can lose is listed below and checked by no property. Nor does a
property of a passing run catch the worst outcomes of a crash in the workflow
engine: a second executor for a node, a workflow that awaits a confirmation it
has no plan for, a spawn that is lost. They are listed below too.

Every property of these runs has a mutant: a definition changed the way a slip
in the code would change it (`Settles_unchecked`, `Descendants_direct`,
`Exhausted_offByOne`, `Slots_ignoresRunning`, ...), defined beside the original
and used nowhere, under which the property fails.

Runs that end in a violation show where the code does not do what a document,
comment or test says; the quotations are in PROJECT.json:

| Run | Property | What the code does |
|---|---|---|
| `repl_zombie` | `DeadExecutorSettled` | in the REPL a dead executor is taken for alive until something else is started |
| `attempt_limit` | `AttemptLimit` | at the limit the guardrail still allows `switch_executor` when there is a fallback; the policy keeps the old executor, so the switch is made for ever |
| `verified_complete` | `DoneIsComplete` | a node with strategy FULL_STACK_VALIDATION is verified when it completes, the verification has that strategy too, and so on: with all planned nodes and their verifications completed the workflow runs a verification of a verification, and never becomes complete |
| `running_on_disk` | `DispatchedSurvives` | a cycle keeps what it dispatched in memory until it ends: after a crash the snapshot has the package as it was before the cycle, ready, and it is run again |

The test behind `verified_complete` (`tests/test_workflow_engine.py:238`) starts from a
manifest that has the audit completed and no verification of it. The engine never
writes such a manifest: the step that completes the audit adds its verification
(`engine.py:416`). The design document states the rule for any workflow. With the verification of another strategy `DoneIsComplete` holds for
the same plan. `VerificationEndless` and `RunningNeverSaved` (section 4) prove that
both disagreements are there for every value of the constants.

Smaller divergences met while modelling, without a run of their own. In the
workflow engine and its commands:

* a spawned node has no node file (`_process_node_spawn` only appends the entry,
  `engine.py:180`), so `read_node` raises when it is dispatched (`graph.py:167`,
  `store.py:139`), whether its parent ran in the background or in the foreground.
  Usually that is in the cycle that processed spawn.json: nothing is written, the file
  was already renamed, and the node is lost, against `engine.py:215` ("expand the
  manifest accordingly"). If it had to wait, or a candidate before it was written, the
  entry is on disk, and every dispatch of it raises and ends its cycle;
* a crash between the rename of spawn.json (or rewind.json) and the write of the
  manifest loses what it asked for; one between `Popen` and the write
  leaves an executor that no manifest names, and the next cycle starts a second one;
  one in `wf confirm` between the deletion of the plan and the write leaves the workflow
  waiting for a confirmation that no plan is left for (`repl.py:478`);
* after `wf reset` of the planner a second `wf confirm` adds the plan's ids again
  (design document, line 488, forbids duplicate ids);
* `wf reset` of a node of a complete workflow leaves the workflow complete, and
  the index active if the reset follows a crash;
* `wf switch` does not pause the workflow it leaves (`repl.py:795`; design document,
  line 146), while `wf init` writes "paused" also over a complete one (line 140);
* after as many rejected plans as attempts the planner is never run again,
  although `repl.py:496` tells the user to run it (rejection keeps the count);
* a node without exit artifacts always fails, whatever its exit code (the
  engine design document, line 443, says returncode 0 is success);
* an exhausted node that a rewind makes pending or stale blocks the workflow
  for ever instead of failing it (design document, line 512);
* a confirmed plan is not validated (`validation.py:3` says it is);
* nodes from a spawn.json of the planner are lost too, because
  `finalize_awaiting` drops the reconciled manifest;
* a rewind forgets the executor of a running node, whose slot is given away;
* when two diagnoses of one pass rewind a node and one that stands on it, the second
  comes to wait again, and what its forgotten executor still writes completes it at
  the next cycle, on a dependency that runs (`engine.py:531` completes any
  pending node whose artifacts exist). `redo` has one node to rewind, for which
  `UpstreamDone` holds and is proved;
* the executor that a rewind forgets may also report findings on its node after the
  next executor completed it: nothing audits the node again (`engine.py` audits when it
  settles a node), and its dependants run on the findings. It takes a second diagnosis
  that rewinds the node while it runs again, and a third attempt. In `redo` the
  governed node is not among those rewound, and `GovernedGate` holds; with
  `RewindTo = {"a"}`, the governed node, it fails;
* a crash while a planner or discovery node runs in the foreground leaves it
  running without a pid, which no later cycle looks at;
* a planner run that writes no plan succeeds if an earlier run left a
  pending_plan.json (`engine.py:845`; `graph.py:81` means to fail it).

In the kernel:

* `continue` in the REPL does not write its snapshot back: the next one executes
  verified packages again (`README.md:23` calls it resuming);
* requirement events that were rejected, or are still analysed, are applied:
  every `patch_status` but `applied` counts as pending (`builder.py:1079`);
* a package of a *verified* seam is not selected, only of a frozen one, although
  `retry_decision`'s mock takes both for stable;
* blocked packages and `replan_required` are read by nothing; packages that
  depend on a deprecated or failed one stay ready for ever;
* with a policy for the package, `switch_executor` changes a field that
  `_resolve_executor_name` does not read;
* an unsupported package is rejected by the stub, but with the subprocess
  transport it is run all the same, and may be verified;
* an executor that is not on PATH raises out of the cycle: the results of the
  packages that already ran are lost and no fallback is tried;
* a crash before the write-back repeats the cycle under the same cycle id, on
  packages that are `ready` again (`running_on_disk`). The event log then counts an attempt the snapshot lost, never the
  other way round (`AttemptsLogged`);
* a crash inside `write_text` leaves a truncated snapshot file, which no later
  cycle can read; the history in the store is not read back by any command.

In the transport:

* a process past its deadline is sent SIGTERM and never waited for; one that
  ignores it runs beside the next attempt on the same files;
* a process that ended in time but is polled too late is "timed_out", and the
  adapter makes "failed" of it: the retry decision cannot tell the two apart;
* whatever raises in one package (no such program, a pipe still open, findings
  that are none) loses the results of all packages of the cycle, whose executors
  are then started again: `LaunchesBounded` counts these apart.

In planning:

* a new design keeps `design_valid`, the issues and the replan reason of the old
  one until it is validated, and a sound verdict does not clear the reason;
* the reentry points "product_design" and "task_decomposition" name no node of the
  graph: any reason leads to planning, which clears it;
* LangGraph ends an endless replanning by its recursion limit; the fallback
  `invoke`, used where LangGraph is not installed, goes on.

In sessions, between processes:

* two processes that overlap can drop a workflow from index.json, or write an
  older session.json over a newer one; an init that comes between the check and the
  writes of another mixes two initializations; a runtime that appears during the
  onboarding ends it with FileExistsError;
* `init --force` keeps the session.json of the runtime it replaces;
* a result that is not completed is shown as running for ever (`repl.py:190`);
* a session.json cut off ends every later session until `devforge snapshot`
  writes it again, a snapshot cut off until `init --force`.

### Fairness

A cycle is run again and again (`WF` of `StartCycle`), a command that began goes
on (`WF` of `EngineStep`), executors end (`WF` of `Executors`), a planner in
the foreground writes its plan if it does not fail (`WF` of `PlannerWrites`:
`subprocess.run` has a timeout, after which the run has failed), and the user
answers a question asked again and again (`SF` of `Confirm`, because a cycle
may be run instead each time). Nothing forces a crash, a reset or a rejected
plan, and nobody has to leave the REPL: the code never waits for its children, so
there a cycle may never see that one ended, which `repl_zombie` shows. The passing
runs about liveness have one process per command.
`Terminates` counts a planner that used up its attempts by rejections as an
end, and assumes that diagnoses succeed: with failing diagnoses the chain of
diagnoses of diagnoses has no end.

`SnapshotCycle`'s `FairSpec` assumes that the command is run again and again (`WF`
of `Begin`) and that a cycle that began goes on (`WF` of `Cycle`: it is one
sequential function, and `_run_subprocess_request` ends every execution at its
timeout). Nothing forces an edit or a crash.

`ExecutorTransport`'s `FairSpec` is `WF` of `Cycle` (the same sequential function) and
of `Sleep` (the clock goes on): executors are under no obligation to end, or to
obey, and no cycle has to begin. `MetaGraph`'s is `WF` of `Node`: a node that was
called runs on; the caller need not call. `Session` has safety properties only.

## 4. Proofs

`WorkflowEngine_proofs` proves for all plans, spawn files, bounds and sets of
failing executors:

* `TypeCorrect`: `Spec => []TypeOK`. The inductive invariant `TypeInv` adds that
  `procs` is finite and `PcInv`: candidates exist only while dispatching, an
  executor just launched is one of them, and the entry run in the foreground
  is an entry but no longer a candidate. `TypeOK` alone is not inductive:
  `Candidate` and `cursor` must name entries.
* `RunningBounded`: `Spec => []RunningBound`. What is inductive is a bound on
  the running entries *together with* the selected ones not dispatched yet
  (`Waiting`): a start moves an entry from one to the other. `SelectedBound`
  says that a selection fits into the free slots.
* `AttemptsBounded`: `Spec => []AttemptBound`, with: every entry still waiting
  for its dispatch has an attempt left.
* `WritesGrow`: `Spec => ManifestGrows`, from `GrowsInv`: the manifest in memory
  always extends the one on disk, so a write loses nothing.

The last three share `ManifestStep`: under `TypeInv` every step does one of four
things to the manifest: a command starts from disk (`FromDisk`), no entry starts
(`Quiet`), one waiting entry starts (`Starts`), or entries are selected
(`Selects`). The lemmas before it say what each operator of the model returns
(`SettleShape`, `RewoundShape`, `SpawnedShape`, ...). The assumptions are those on
the constants in `WorkflowEngine`.

`WorkflowSteps_proofs` opens every action once: `ReconcileNodeEffect`, `RouteEffect`,
`RewindNodeEffect` and the others say, without the operators the action is built
from, what it leaves in `mem` and `disk`; `StepCases` lists them. On them rest the
facts about meta nodes (`MetaInv`: their mode, strategy and parents follow from their
kind) and the planner (`PlannerInv`, `PlanningInv`), and

* `VerificationEndless`: a workflow with a node of strategy FULL_STACK_VALIDATION or
  TDD_REFACTOR is never finalized as complete (`VerifiedNeverFinal`), without any
  hypothesis: why `verified_complete` fails, for every plan. The
  proof is by counting, not by induction over the nesting: `VerifiedInv` says that a
  completed node of such a strategy has its verification as an entry, of the same
  strategy. So if all entries were completed, ids of growing depth would be entries
  without end, and a manifest is finite.

`WorkflowOutcome_proofs` proves what holds between a node and the rest of the
manifest:

| Theorem | Property | Holds when |
|---|---|---|
| `RetriesAreDiagnosed` | `RetriesDiagnosed` | nothing is rewound or reset; crashes are allowed |
| `ExecutorsOwned` | `NoOrphanExecutor` | nothing is rewound, reset or crashes |
| `CompleteIsDone` | `CompleteMeansDone` | the same |
| `NodeIdsUnique` | `UniqueIds` | the planner is not rewound; crashes, other rewinds and resets of other commands are allowed (`UniqueIds` itself ends with the first reset) |
| `UpstreamIsDone` | `UpstreamDone` | whatever is rewound is the same one node, and not the planner, however often and by however many diagnoses; nothing is reset or crashes |
| `FindingsRefactored` | `GovernedGate` | as for `UpstreamIsDone`, and what is rewound is no governed node, nor one that it depends on or is spawned by, directly or not (`GovernedSpared`) |

The hypotheses are about what happens, and each one is needed: a node put back
keeps its attempts, and starts again without a diagnosis of them; a rewind forgets
an executor, and a crash between `Popen` and the write loses its pid, so the workflow
can be complete while it runs; a planner run again appends its plan again; and
rewinds of two nodes (section 3), or a crash that leaves artifacts to be found in list
order, complete a node before its dependency; and a governed node that is rewound leaves an
executor that reports findings after the audit (section 3). `redo` satisfies them all,
with rewinds. The rest are about the input, which
nothing in the code validates: `PlannerOwn` (no definition takes the planner's
name, by which it is known), `NamesOnce` (no plan and no `spawn.json` names a node
twice; `finalize_awaiting` and `process_spawn` only compare with the entries that
are there) and `OnePlanner` (no definition has the mode "planning": such a node
asks for a confirmation of its own, with the planner's plan in hand).

Each theorem has its inductive invariant, because each property is about what the
code forgot since:

* `RetryInv`: a node still waiting for its dispatch has a completed diagnosis of *all*
  its attempts, any other of all but the last; on disk as in memory, since a crash
  takes the engine back to the disk.
* `OwnedInv`: the entry that names a live executor is on disk as well, but for the one
  just launched; the next cycle starts from the disk. It is stated for the nodes that no
  rewind reaches (`Spared`, the largest set of names without a rewound one that is closed
  under dependencies and spawners; all of them when nothing is rewound).
  `DescendantsApart` shows that what `Descendants` finds below a target is none of them.
* `DoneInv`: when all entries are completed, the `spawn.json` files before the cursor
  are gone, so that nothing is added between the last look and the last write.
* `EraInv`: as long as the planner is not completed there is nothing but it and its
  meta nodes (`Fresh`), so its plan can be appended only once, and while an answer is awaited it
  was not. It is stated up to the first reset.
* `UpstreamInv`: whatever was *attempted* and is not stale stands on completed
  dependencies (`Stands`), and whoever has artifacts or an executor was attempted
  (`RanInv`). `UpstreamDone` alone is not inductive: reconciling completes a pending node
  with artifacts. For a rewind it takes two more facts. `DescendantsClosed`: as many
  rounds as there are nodes find all that stand on the target (by pigeonhole: a round that adds
  nothing is the last), so what stays completed stands on nothing that was put back. And
  `Layered`: attempted nodes depend on attempted ones, and every set of them has one that
  depends on none in it; so the target, which is made pending and not stale, does not
  stand on what is put back with it (`NoLoop`). The code checks neither: `Layered` holds because
  a node is dispatched only on completed dependencies. With `EraInv`, because dependencies
  are looked up by id.
* `GovernedInv`: a completed governed node with findings has its refactoring
  completed, one that needs it has it as an entry (`Refactoring`), and with `OwnedInv`
  an executor that still writes findings on a governed node belongs to one that still
  runs. A rewind leaves refactorings alone: they are meta nodes.

`WorkflowRefinement_proofs` proves, given `OnePlanner` and with crashes, rewinds and
resets wherever they happen,

* `EngineImplementsLifecycle`: `Spec => ImplementsLifecycle`. The abstract state is
  on disk, the engine works in memory; `LedgerInv` says for every place of a command
  what memory is relative to the disk (`CycleInv`, `CommandInv`): after reconciling,
  each node as it was or ended; after rewinds and spawns, `Moved`; just launched, one
  node started on top of that. Whenever the manifest is written this is one step
  of the lifecycle (`Begin`, ends, retries and new nodes at once), and a crash, which
  puts memory back to the disk, is none.

`SnapshotCycle_proofs` proves for all snapshots, requirement events, policies,
seams, bounds and sets of failing or missing executors, any answer of the
language model included:

* `SnapshotTypeCorrect`: `Spec => []SnapshotTyped`.
* `RunningNeverSaved`: no package is ever running in the file, which is why
  `running_on_disk` fails.
* `GroundStaysFirm`: `Spec => []FirmGround`.
* `DeprecatedForGood` and `AppliedOnce`: what an applied event affects stays
  deprecated, and its patch package is there exactly once.
* `HistoryAfterEvents`: a history snapshot follows the event that ends its cycle.
* `AttemptsReconstructable`: `Spec => []AttemptsLogged`, of a project whose first
  packages were never attempted (`FirstUnattempted`) and commands that keep stores
  (`WithStores`: `devforge snapshot` without them logs nothing).
* `AcceptanceComesLast`: `Spec => []AcceptanceLast`, of a project that does not start with
  implementation packages or with a package named like a seeded one (`FirstPlain`),
  and whose requirement events leave the seeded packages alone (`SeededSpared`; an
  event may deprecate a slice after the acceptance was seeded).

The first six share the inductive invariant `KernelInv`. None of the properties is
inductive alone: they speak of the file, or of running packages, and what reaches
the file is prepared in memory over many steps. `Settled` is what file and copy
have in common: a recorded event names packages that exist, an applied one has
deprecated them and has its one patch package. `InFlight` says that the running
packages are exactly those with a result still to be verified, each once, so
that nothing runs when the last result is verified and the copy may be saved.
`StillSelectable` says that the packages selected and not yet dispatched still
satisfy what they were selected for: dispatching one does not take the ground
from the next. `EndComes` and `Storing` say that a stored cycle's last event is
stored or still to be appended. The lemmas `ChangedKeeps`, `AddedKeeps`,
`PatchedKeeps`, `SeededKeeps` and `EditedKeeps` say that each way the code has of
changing a snapshot keeps it settled; then there is one lemma per action.

`LoggedInv` counts, for each package of the file, the results the event store has of
finished cycles: never fewer than its attempts. Of a package in memory they may be one
fewer while this cycle's result is among the events it stored or is still to append
(`Underway`); a crash loses the memory and keeps the store, and a cycle repeated
under the same number only adds to it. `LadderInv` is about file
and memory alike: the seeded packages are there once each, slices come together,
regression waits for the slices (`ClosedBySlices`) and acceptance for both
(`AcceptanceWaits`). The assumptions are those on the constants in `SnapshotCycle`.

`ExecutorTransport_proofs` proves, for all packages, kinds of executors, capacities
and bounds, from the assumptions on the constants alone:

* `TransportTypeCorrect`: `Spec => []TransportTyped`;
* `ExecutorsWatched`: `Spec => []LiveAreWatched`;
* `VerdictsTrue`: `Spec => []VerdictFits`;
* `LaunchesAreBounded`: `Spec => []LaunchesBounded`.

The bound on launches is about all processes ever started, while the attempts are
counted only when a cycle is verified. The invariant that closes the gap is
`Counted`: launches of a package are at most its recorded attempts, plus one if it
was begun in this cycle, plus the cycles lost; with `Once` (a cycle deals with each
selected package once) and `Budget` (what is selected has an attempt left). For
the verdicts, `Answered` says that an execution with a result is not polled again
and that what was given up was late, and `Fits` that an exit code 0 was printed
into a pipe that holds it.

`MetaGraph_proofs` proves, for every set of domains and every order of visiting:

* `CyclesDetected`: `Spec => []CycleVerdict`. `SearchInv` is the invariant of a
  three-colour search: the stack is a path of grey domains without repetition, white
  domains have all their neighbours still to come, and every reported set is a
  cycle. While none was reported, the neighbours of black domains are black, those
  dealt with of a grey one are black or next on the path, and the black domains
  have no cycle among themselves; a grey neighbour closes one along the stack. `VerdictRight` takes this to `Acyclic`, which
  does not speak of paths: every set of domains has one without a dependency in
  the set. So the proof needs no induction over paths.
* `VerdictTrue`: `Spec => []VerdictOnDesign`, with `ReviewInv`: the search that is
  running is over the design that is kept.
* `MetaTypeCorrect`: `Spec => []MetaTyped`, whatever the answers of the language model. Its
  bound, no more closures in all later rings than in the first, is not inductive; `Converges`
  is: the closures so far and one more ring of the last budget stay within the first ring's,
  because the next budget is at most half of it (`HalfBudget`), and the rings end before
  the bound is passed.

`Session_proofs` proves, for any number of terminals, workflows, runs, commands,
cycles and kills: `SessionTypeCorrect`, `ListedStayRunnable`, `ViewFits`,
`RuntimeConsistent`, `SessionStaysCurrent` and `NoWorkflowLost` (the action property
`WorkflowsKept`). `SessionInv` adds to the properties what processes in the middle
of a command know: an edit in progress has written its files before it reaches
the index (`EditsFit`), a process that writes the config has written its snapshot
(`RuntimeHeld`), and, without overlap, the copy of the index is the index
(`CopyCurrent`), the process at work is the only one (`Solo`), and its session is as
new as the last cycle (`MemoryCurrent`, `SessionFirst`). `StepAlone` is the lemma that
makes these inductive: as long as nothing overlapped, a terminal takes a
step only while all others are closed.

Only model-checked: all liveness, `IndexFollows` included (no prover for fairness and
ENABLED is at hand). Every invariant and every safety action property of a passing run
is proved; the theorems about `WorkflowEngine` under the hypotheses above, which every run
that checks the property satisfies. `AttemptLimit` does not hold (`attempt_limit`).

## 5. Plan

1. Done: the workflow engine, its commands and its proofs.
2. Done: `WorkflowLifecycle`, which `WorkflowEngine` implements (checked and proved).
3. Done: `SnapshotCycle`, the orchestration kernel with crashes between its stores.
4. Done: `ExecutorTransport`, submit, poll and timeout of real processes.
5. Done: the cycle search and the structural checks of a design (`DomainCycles`,
   `MetaGraph`). Left: `closure_expander` beyond its budget (which closures are
   accepted), and `workflow/validation.py`.
6. Done: `MetaGraph`, the replan loop.
7. Done: several workflows and processes (`WorkflowIndex`, `Session`).
8. Done: proofs of every safety property of the passing runs.

## 6. Not modelled

* `workflow/validation.py`: a pure check that nothing calls.
* Pull context, executor payloads and pull policy, context broker, knowledge and
  roles: they select and format text; what they write is read by no guard.
* The seam verifier: a search for keywords; only `seam_verification_with_tools`
  calls it, which no node and no command uses.
* Language model clients and tools: stateless HTTP; their answers are free choices
  in every module that asks them.
* The codec and the stores of artifacts and memory: written in full, and read back
  only into prompts.
