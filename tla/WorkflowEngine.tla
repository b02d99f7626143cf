--------------------------- MODULE WorkflowEngine ---------------------------
(***************************************************************************)
(* The file-based DAG workflow engine (src/devforge/workflow): one active  *)
(* workflow, its manifest.json on disk, the engine process that runs       *)
(* cycles (`wf run`) and the user's commands (`wf confirm`, `wf reset`)    *)
(* one at a time, the executor processes it starts and does not wait for,  *)
(* and the files those processes leave behind.                             *)
(*                                                                         *)
(* A cycle is load -> reconcile -> route -> dispatch -> persist.  It works *)
(* on a copy of the manifest in memory (mem); disk changes only where the  *)
(* code calls write_manifest.  Executors finish, and the engine may crash, *)
(* between any two steps.                                                  *)
(***************************************************************************)
EXTENDS Integers, Sequences, FiniteSets

CONSTANTS
    NodeName,         \* slugs of nodes a person or the planner names
    Plans,            \* what a planner run may write to pending_plan.json
    SpawnOf,          \* what the executor of a node may write to spawn.json
    RewindTo,         \* nodes a diagnosis may name in rewind.json
    MayFail,          \* <<slug, kind>>: executors that may end without artifacts
    MayViolate,       \* slugs whose artifacts may carry audit findings
    MayMiss,          \* <<slug, kind>>: executors that may not be on PATH
    MAX_CONCURRENT,
    MAX_ATTEMPTS,
    HelpersDefined,   \* engine.py defines the helpers its callers name
    Repl,             \* TRUE: one process for all commands; FALSE: CLI
    MaxMeta,          \* bound: meta nodes nested deeper never finish
    MaxCrashes,       \* bound on crashes of the engine process
    MaxResets         \* bound on `wf reset`

Planner == "planner"
NoPid == 0
MetaKinds == {"diagnose", "verify", "refactor"}
Strategies == {"NONE", "REVERSE_ANALYSIS", "FULL_STACK_VALIDATION",
               "TDD_REFACTOR", "GOVERNANCE"}
Modes == {"none", "planning", "discovery"}
NodeStatuses == {"pending", "running", "completed", "failed",
                 "needs_refactor", "stale"}
Phases == {"planning", "awaiting_confirm", "running", "complete", "failed"}

NodeDef == [name: NodeName, depends_on: SUBSET NodeName, exits: BOOLEAN,
            mode: Modes, strategy: Strategies, def: BOOLEAN]

ASSUME NodeNameAssumption == Planner \in NodeName
ASSUME BoundsAssumption ==
    /\ MAX_CONCURRENT \in Nat \ {0}
    /\ MAX_ATTEMPTS \in Nat \ {0}
    /\ HelpersDefined \in BOOLEAN
ASSUME InputsAssumption ==
    /\ Plans \subseteq Seq(NodeDef)
    /\ SpawnOf \in [NodeName -> Seq(NodeDef)]
    /\ RewindTo \subseteq NodeName

VARIABLES
    disk,      \* manifest.json: [phase, nodes]
    index,     \* this workflow's status in index.json
    plan,      \* pending_plan.json: the planner run that wrote it, its nodes
    arts,      \* ids whose exit_artifacts all exist and are not empty
    dirty,     \* ids whose artifacts carry audit findings
    spawns,    \* ids with an unprocessed spawn.json
    rewinds,   \* <<id, target>>: an unprocessed rewind.json of id
    procs,     \* executor processes ever started
    pc,        \* where the engine process is; "idle" between commands
    mem,       \* the manifest in the engine process's memory
    cursor,    \* next entry of mem.nodes the current loop visits
    cand,      \* selected entries not dispatched yet (indices of mem.nodes)
    crashes, resets

files == <<disk, index, plan, arts, dirty, spawns, rewinds>>
bounds == <<crashes, resets>>
vars == <<disk, index, plan, arts, dirty, spawns, rewinds, procs,
          pc, mem, cursor, cand, crashes, resets>>

-----------------------------------------------------------------------------
(* Node ids.  A named node, or a meta node: kind-parent-a<attempt>.        *)

Id == [base: NodeName, meta: Seq(MetaKinds \X Nat)]
NamedId(name) == [base |-> name, meta |-> <<>>]
MetaId(kind, id, attempt) ==
    [id EXCEPT !.meta = Append(@, <<kind, attempt>>)]
KindOf(id) ==
    IF id.meta = <<>> THEN "named" ELSE id.meta[Len(id.meta)][1]
IsMeta(id) == KindOf(id) # "named"

Entry == [id: Id, status: NodeStatuses, attempt_count: Nat, pid: Nat,
          depends_on: SUBSET Id, exits: BOOLEAN, mode: Modes,
          strategy: Strategies, parent: SUBSET Id,  \* {} or {parent_node_id}
          def: BOOLEAN]
Manifest == [phase: Phases, nodes: Seq(Entry)]

Ids(ns) == {ns[i].id : i \in DOMAIN ns}
CompletedIds(ns) == {ns[i].id : i \in {j \in DOMAIN ns : ns[j].status = "completed"}}
Running(ns) == {i \in DOMAIN ns : ns[i].status = "running"}

(* Mutant: only what still waits counts as not completed. *)
AllCompleted_ignoresRunning(ns) ==
    \A i \in DOMAIN ns : ns[i].status \notin {"pending", "failed", "stale"}

AllCompleted(ns) == \A i \in DOMAIN ns : ns[i].status = "completed"
FirstOf(S) == CHOOSE i \in S : \A j \in S : i <= j
Nth(S, m) == CHOOSE i \in S : Cardinality({j \in S : j <= i}) = m

(* A manifest entry for a definition taken from a plan or from spawn.json. *)
(* Only the planner writes node files: a spawned entry has none.           *)
EntryOf(d, extra_deps, parent) ==
    [id |-> NamedId(d.name), status |-> "pending", attempt_count |-> 0,
     pid |-> NoPid,
     depends_on |-> {NamedId(x) : x \in d.depends_on} \cup extra_deps,
     exits |-> d.exits, mode |-> d.mode, strategy |-> d.strategy,
     parent |-> parent, def |-> d.def /\ parent = {}]

PlannerEntry ==
    EntryOf([name |-> Planner, depends_on |-> {}, exits |-> FALSE,
             mode |-> "planning", strategy |-> "NONE", def |-> TRUE], {}, {})

-----------------------------------------------------------------------------
(* Meta nodes the engine adds by itself.                                   *)

MetaStrategy(kind) == CASE kind = "diagnose" -> "REVERSE_ANALYSIS"
                        [] kind = "verify"   -> "FULL_STACK_VALIDATION"
                        [] kind = "refactor" -> "TDD_REFACTOR"

(* _append_manifest_node: the child takes its parent's dependencies.       *)
MetaEntry(kind, e) ==
    [id |-> MetaId(kind, e.id, e.attempt_count), status |-> "pending",
     attempt_count |-> 0, pid |-> NoPid, depends_on |-> e.depends_on,
     exits |-> TRUE, mode |-> "none", strategy |-> MetaStrategy(kind),
     parent |-> {e.id}, def |-> TRUE]

(* Without a node file the definition falls back to capability "coding".   *)
StrategyOf(e) ==
    IF ~e.def /\ e.strategy = "NONE" THEN "TDD_REFACTOR" ELSE e.strategy

(* The kinds of child an entry in this status gets: at most one.           *)
ChildKinds(e) ==
    {k \in MetaKinds :
        \/ k = "diagnose" /\ e.status = "failed"
        \/ k = "verify" /\ e.status = "completed"
           /\ StrategyOf(e) \in {"FULL_STACK_VALIDATION", "TDD_REFACTOR"}
        \/ k = "refactor" /\ e.status = "needs_refactor"}

(* Mutant: findings are recorded, the status stays. *)
Audited_ignoresFindings(e) == e

(* The audit of a governance node's artifacts.                             *)
Audited(e) ==
    IF e.status = "completed" /\ StrategyOf(e) = "GOVERNANCE" /\ e.id \in dirty
      THEN [e EXCEPT !.status = "needs_refactor"]
      ELSE e

EnsureMetaChild(ns, e) ==
    LET missing == {k \in ChildKinds(e) :
                        MetaId(k, e.id, e.attempt_count) \notin Ids(ns)}
    IN  IF missing = {} THEN ns
        ELSE Append(ns, MetaEntry(CHOOSE k \in missing : TRUE, e))

(* Entry i gets the outcome e: audit it, then add its meta child.          *)
Settle(ns, i, e) ==
    EnsureMetaChild([ns EXCEPT ![i] = Audited(e)], Audited(e))

-----------------------------------------------------------------------------
(* Executor processes.  A process is the run-th executor started for a     *)
(* node; run is its pid.  A child of the engine process that has exited    *)
(* stays a zombie, which os.kill(pid, 0) reports as alive, until a later   *)
(* Popen of the same engine process polls it or that process ends.         *)

Proc == [node: Id, run: Nat, state: {"live", "zombie", "gone"}, child: BOOLEAN]

Launches(id) == Cardinality({p \in procs : p.node = id})
Alive(id, pid) ==
    \E p \in procs : p.node = id /\ p.run = pid /\ p.state # "gone"
Reaped(ps) ==
    {IF p.state = "zombie" THEN [p EXCEPT !.state = "gone"] ELSE p : p \in ps}

Orphaned(ps) == {[p EXCEPT !.child = FALSE] : p \in Reaped(ps)}

(* A command returns: the CLI process exits, the REPL prompts again.       *)
Return(manifest) ==
    /\ pc' = "idle"
    /\ mem' = manifest
    /\ cursor' = 1
    /\ cand' = {}

Exit == procs' = IF Repl THEN procs ELSE Orphaned(procs)

ExecutorExits(p, wrote) ==
    /\ p \in procs /\ p.state = "live"
    /\ Len(p.node.meta) <= MaxMeta
    /\ wrote \/ <<p.node.base, KindOf(p.node)>> \in MayFail
    /\ procs' = (procs \ {p}) \cup
           {[p EXCEPT !.state = IF p.child THEN "zombie" ELSE "gone"]}
    /\ IF wrote
         THEN /\ arts' = arts \cup {p.node}
              /\ \E bad \in BOOLEAN :
                    /\ bad => p.node.base \in MayViolate /\ ~IsMeta(p.node)
                    /\ dirty' = IF bad THEN dirty \cup {p.node}
                                       ELSE dirty \ {p.node}
              /\ \/ UNCHANGED rewinds
                 \/ /\ KindOf(p.node) = "diagnose"
                    /\ \E target \in RewindTo :
                          rewinds' = {r \in rewinds : r[1] # p.node}
                                       \cup {<<p.node, NamedId(target)>>}
              /\ \/ UNCHANGED spawns
                 \/ /\ ~IsMeta(p.node) /\ SpawnOf[p.node.base] # <<>>
                    /\ spawns' = spawns \cup {p.node}
         ELSE UNCHANGED <<arts, dirty, rewinds, spawns>>
    /\ UNCHANGED <<disk, index, plan, pc, mem, cursor, cand, bounds>>

-----------------------------------------------------------------------------
(* Cycle: load_manifest, which calls a helper of engine.py by name.        *)

StartCycle ==
    /\ pc = "idle"
    /\ HelpersDefined
    /\ pc' = "reconcile"
    /\ mem' = disk
    /\ cursor' = 1
    /\ cand' = {}
    /\ UNCHANGED <<files, procs, bounds>>

(* reconcile_artifacts, first loop.  Whether a visit of e would settle it, *)
(* and how.                                                                *)
HasArtifacts(e) == e.exits /\ e.id \in arts

(* Mutant: no liveness check. *)
Settles_unchecked(e) ==
    /\ e.mode = "none"
    /\ \/ e.status = "running" /\ e.pid # NoPid
       \/ e.status \in {"pending", "running"} /\ HasArtifacts(e)

Settles(e) ==
    /\ e.mode = "none"
    /\ \/ e.status = "running" /\ e.pid # NoPid /\ ~Alive(e.id, e.pid)
       \/ e.status = "running" /\ e.pid = NoPid /\ HasArtifacts(e)
       \/ e.status = "pending" /\ HasArtifacts(e)

(* Mutants: the workflow's word for a node; the attempts of a completed    *)
(* node start anew.                                                        *)
Settled_phaseWord(e) == [e EXCEPT !.status = "complete", !.pid = NoPid]
Settled_forgetsAttempts(e) ==
    [e EXCEPT !.status = IF HasArtifacts(e) THEN "completed" ELSE "failed",
              !.attempt_count = IF HasArtifacts(e) THEN 0 ELSE @,
              !.pid = NoPid]
Settled(e) ==
    IF e.status = "running" /\ e.pid # NoPid
      THEN [e EXCEPT !.status = IF HasArtifacts(e) THEN "completed" ELSE "failed",
                     !.pid = NoPid]
      ELSE [e EXCEPT !.status = "completed"]

ToSettle == {i \in DOMAIN mem.nodes : i >= cursor /\ Settles(mem.nodes[i])}

(* Entries appended by a visit are visited too: the loop runs on the list  *)
(* it extends.                                                             *)
ReconcileNode ==
    /\ pc = "reconcile"
    /\ ToSettle # {}
    /\ LET i == FirstOf(ToSettle) IN
          /\ mem' = [mem EXCEPT !.nodes = Settle(@, i, Settled(@[i]))]
          /\ cursor' = i + 1
    /\ UNCHANGED <<files, procs, pc, cand, bounds>>

(* _resolve_meta_parent_states, after the loop.                            *)
Children(ns, id) == {i \in DOMAIN ns : ns[i].parent = {id}}
Refactored(ns, e) ==
    /\ e.status = "needs_refactor"
    /\ Children(ns, e.id) # {}
    /\ \A i \in Children(ns, e.id) :
          KindOf(ns[i].id) = "refactor" => ns[i].status = "completed"

Resolved(ns) ==
    [i \in DOMAIN ns |-> IF Refactored(ns, ns[i])
                            THEN [ns[i] EXCEPT !.status = "completed"]
                            ELSE ns[i]]

ResolveParents ==
    /\ pc = "reconcile"
    /\ ToSettle = {}
    /\ mem' = [mem EXCEPT !.nodes = Resolved(@)]
    /\ pc' = "rewind"
    /\ cursor' = 1
    /\ UNCHANGED <<files, procs, cand, bounds>>

(* Mutant: direct dependents only. *)
Descendants_direct(ns, id) ==
    {ns[i].id : i \in {j \in DOMAIN ns : id \in ns[j].depends_on}}

(* process_all_node_rewinds: a completed diagnosis may name a target to    *)
(* run again; everything that depends on it, meta nodes aside, is stale.   *)
Descendants(ns, id) ==
    LET reach[k \in 0 .. Len(ns)] ==
          IF k = 0 THEN {id}
          ELSE LET seen == reach[k - 1] IN
               seen \cup {ns[i].id : i \in {j \in DOMAIN ns :
                                    ns[j].depends_on \cap seen # {}}}
    IN  reach[Len(ns)] \ {id}

StaleIds(ns, target) == {id \in Descendants(ns, target) : ~IsMeta(id)}

Rewound(ns, target) ==
    LET stale == StaleIds(ns, target) IN
    [i \in DOMAIN ns |->
        IF ns[i].id = target
          THEN [ns[i] EXCEPT !.status = "pending", !.pid = NoPid]
        ELSE IF ns[i].id \in stale
          THEN [ns[i] EXCEPT !.status = "stale", !.pid = NoPid]
        ELSE ns[i]]

RewindsOf(e) == {r \in rewinds : r[1] = e.id /\ r[2] \in Ids(mem.nodes)}
ToRewind == {i \in DOMAIN mem.nodes :
                /\ i >= cursor
                /\ mem.nodes[i].status = "completed"
                /\ KindOf(mem.nodes[i].id) = "diagnose"
                /\ RewindsOf(mem.nodes[i]) # {}}

(* Artifacts are deleted and rewind.json renamed at once; the manifest     *)
(* that says so is only in memory.                                         *)
RewindNode ==
    /\ pc = "rewind"
    /\ ToRewind # {}
    /\ LET i == FirstOf(ToRewind) IN
       \E r \in RewindsOf(mem.nodes[i]) :
          LET gone == {r[2]} \cup StaleIds(mem.nodes, r[2]) IN
          /\ mem' = [mem EXCEPT !.nodes = Rewound(@, r[2])]
          /\ arts' = arts \ gone
          /\ dirty' = dirty \ gone
          /\ rewinds' = rewinds \ {r}
          /\ cursor' = i + 1
    /\ UNCHANGED <<disk, index, plan, spawns, procs, pc, cand, bounds>>

RewindsDone ==
    /\ pc = "rewind"
    /\ ToRewind = {}
    /\ pc' = "spawn"
    /\ cursor' = 1
    /\ UNCHANGED <<files, procs, mem, cand, bounds>>

(* process_all_node_spawns: spawn.json adds entries to the manifest in     *)
(* memory, and is renamed at once.                                         *)
ToSpawn == {i \in DOMAIN mem.nodes : /\ i >= cursor
                                     /\ mem.nodes[i].status = "completed"
                                     /\ mem.nodes[i].id \in spawns}

(* Mutant: no check for ids that exist. *)
SpawnedEntries_unchecked(ns, e) ==
    [k \in DOMAIN SpawnOf[e.id.base] |->
        EntryOf(SpawnOf[e.id.base][k], {e.id}, {e.id})]

SpawnedEntries(ns, e) ==
    LET defs == SpawnOf[e.id.base]
        fresh == {k \in DOMAIN defs : NamedId(defs[k].name) \notin Ids(ns)}
    IN  [m \in 1 .. Cardinality(fresh) |->
            EntryOf(defs[Nth(fresh, m)], {e.id}, {e.id})]

SpawnNode ==
    /\ pc = "spawn"
    /\ ToSpawn # {}
    /\ LET i == FirstOf(ToSpawn) IN
          /\ mem' = [mem EXCEPT !.nodes = @ \o SpawnedEntries(@, @[i])]
          /\ spawns' = spawns \ {mem.nodes[i].id}
          /\ cursor' = i + 1
    /\ UNCHANGED <<disk, index, plan, arts, dirty, rewinds, procs, pc, cand, bounds>>

-----------------------------------------------------------------------------
(* select_next_nodes and the two routing functions.                        *)

(* Mutants: an unfinished diagnosis will do; the next attempt's diagnosis.  *)
DiagnosisReady_unfinished(ns, e) ==
    MetaId("diagnose", e.id, e.attempt_count) \in Ids(ns)
DiagnosisReady_nextAttempt(ns, e) ==
    MetaId("diagnose", e.id, e.attempt_count + 1) \in CompletedIds(ns)

DiagnosisReady(ns, e) ==
    \E i \in Children(ns, e.id) :
        /\ ns[i].id = MetaId("diagnose", e.id, e.attempt_count)
        /\ ns[i].status = "completed"

(* Mutant: no attempt limit. *)
Ready_unlimited(ns) ==
    {i \in DOMAIN ns :
        /\ ns[i].status \in {"pending", "failed", "stale"}
        /\ ns[i].status = "failed" => DiagnosisReady(ns, ns[i])
        /\ ns[i].depends_on \subseteq CompletedIds(ns)}

Ready(ns) ==
    {i \in DOMAIN ns :
        /\ ns[i].status \in {"pending", "failed", "stale"}
        /\ ns[i].attempt_count < MAX_ATTEMPTS
        /\ ns[i].status = "failed" => DiagnosisReady(ns, ns[i])
        /\ ns[i].depends_on \subseteq CompletedIds(ns)}

(* Mutant: what runs already takes no slot. *)
Slots_ignoresRunning(ns) == MAX_CONCURRENT

Slots(ns) == MAX_CONCURRENT - Cardinality(Running(ns))

(* The first Slots(ns) ready entries in manifest order.                    *)
Selected(ns) ==
    {i \in Ready(ns) : Cardinality({j \in Ready(ns) : j < i}) < Slots(ns)}

(* Mutant: one attempt too many. *)
Exhausted_offByOne(ns) ==
    {i \in DOMAIN ns : /\ ns[i].status = "failed"
                       /\ ns[i].attempt_count > MAX_ATTEMPTS}

Exhausted(ns) ==
    {i \in DOMAIN ns : /\ ns[i].status = "failed"
                       /\ ns[i].attempt_count >= MAX_ATTEMPTS}

Routing == pc = "spawn" /\ ToSpawn = {}

(* finalize_awaiting: the reconciled manifest is dropped, not written.     *)
RouteAwaiting ==
    /\ Routing
    /\ mem.phase = "awaiting_confirm"
    /\ Return(disk)
    /\ Exit
    /\ UNCHANGED <<files, bounds>>

Route ==
    /\ Routing
    /\ mem.phase # "awaiting_confirm"
    /\ LET ns == mem.nodes
           done == ns # <<>> /\ AllCompleted(ns)
       IN  /\ cand' = IF done THEN {} ELSE Selected(ns)
           /\ pc' = CASE done                 -> "complete"
                      [] ~done /\ Selected(ns) # {} -> "dispatch"
                      [] ~done /\ Selected(ns) = {} ->
                           IF Running(ns) = {} /\ Exhausted(ns) # {}
                             THEN "failed" ELSE "blocked"
    /\ UNCHANGED <<files, procs, mem, cursor, bounds>>

-----------------------------------------------------------------------------
(* dispatch_nodes: one candidate after the other, in manifest order.       *)

Candidate == FirstOf(cand)     \* the one dispatched now
Started(e) == [e EXCEPT !.status = "running", !.attempt_count = @ + 1]
Dispatching == pc = "dispatch" /\ cand # {}

(* read_node finds no node file: the exception ends the engine process.    *)
DispatchAborts ==
    /\ Dispatching
    /\ ~mem.nodes[Candidate].def
    /\ Return(disk)
    /\ procs' = Orphaned(procs)
    /\ UNCHANGED <<files, bounds>>

(* Popen returned; the manifest does not say so yet.                       *)
LaunchExecutor ==
    /\ Dispatching
    /\ LET e == mem.nodes[Candidate]
           run == Launches(e.id) + 1
       IN  /\ e.def /\ e.mode = "none"
           /\ procs' = Reaped(procs) \cup
                {[node |-> e.id, run |-> run, state |-> "live", child |-> TRUE]}
           /\ mem' = [mem EXCEPT !.nodes[Candidate] = [Started(e) EXCEPT !.pid = run]]
    /\ pc' = "launched"
    /\ UNCHANGED <<files, cursor, cand, bounds>>

(* Popen raised FileNotFoundError.                                         *)
ExecutorNotFound ==
    /\ Dispatching
    /\ LET e == mem.nodes[Candidate]
           failed == [Started(e) EXCEPT !.status = "failed", !.pid = NoPid]
       IN  /\ e.def /\ e.mode = "none" /\ <<e.id.base, KindOf(e.id)>> \in MayMiss
           /\ mem' = [mem EXCEPT !.nodes = Settle(@, Candidate, failed)]
    /\ procs' = Reaped(procs)
    /\ pc' = "launched"
    /\ UNCHANGED <<files, cursor, cand, bounds>>

WriteLaunched ==
    /\ pc = "launched"
    /\ disk' = mem
    /\ cand' = cand \ {Candidate}
    /\ pc' = "dispatch"
    /\ UNCHANGED <<index, plan, arts, dirty, spawns, rewinds, procs, mem, cursor, bounds>>

(* Planning and discovery nodes are written as running, then run in the    *)
(* foreground; cursor is the entry being run.                              *)
StartSync ==
    /\ Dispatching
    /\ LET e == mem.nodes[Candidate]
           started == [mem EXCEPT !.nodes[Candidate] = Started(e)]
       IN  /\ e.def /\ e.mode \in {"planning", "discovery"}
           /\ mem' = started
           /\ disk' = started
    /\ cursor' = Candidate
    /\ cand' = cand \ {Candidate}
    /\ pc' = "sync"
    /\ procs' \in IF mem.nodes[Candidate].mode = "planning"
                    THEN {Reaped(procs)} ELSE {procs, Reaped(procs)}
    /\ UNCHANGED <<index, plan, arts, dirty, spawns, rewinds, bounds>>

NoPlan == [run |-> 0, nodes |-> <<>>]

(* What the foreground run writes before it returns.                       *)
PlannerWrites ==
    /\ pc = "sync"
    /\ LET e == mem.nodes[cursor] IN
          /\ e.mode = "planning" /\ plan.run # e.attempt_count
          /\ \E nodes \in Plans :
                plan' = [run |-> e.attempt_count, nodes |-> nodes]
    /\ UNCHANGED <<disk, index, arts, dirty, spawns, rewinds,
                   procs, pc, mem, cursor, cand, bounds>>

SyncSpawns ==
    /\ pc = "sync"
    /\ SpawnOf[mem.nodes[cursor].id.base] # <<>>
    /\ spawns' = spawns \cup {mem.nodes[cursor].id}
    /\ UNCHANGED <<disk, index, plan, arts, dirty, rewinds,
                   procs, pc, mem, cursor, cand, bounds>>

(* The foreground run returns.  A planner succeeds when it exits 0 and     *)
(* pending_plan.json exists, whoever wrote it.                             *)
SyncReturns(ok) ==
    /\ pc = "sync"
    /\ LET e == mem.nodes[cursor]
           wrote == e.mode = "planning" => plan.run = e.attempt_count
           success == ok /\ (e.mode = "planning" => plan # NoPlan)
           settled == [mem EXCEPT
               !.nodes = Settle(@, cursor, [e EXCEPT !.status =
                             IF success THEN "completed" ELSE "failed"]),
               !.phase = IF success /\ e.mode = "planning"
                           THEN "awaiting_confirm" ELSE @]
           exhausted == ~success /\ e.attempt_count >= MAX_ATTEMPTS
           failed == [settled EXCEPT !.phase = "failed"]
       IN  /\ (ok /\ wrote) \/ <<e.id.base, KindOf(e.id)>> \in MayFail
           /\ mem' = IF exhausted THEN failed ELSE settled
           /\ disk' = IF exhausted THEN failed ELSE disk
           /\ pc' = IF exhausted THEN "indexFailed" ELSE "dispatch"
           /\ cand' = IF exhausted THEN {} ELSE cand
    /\ cursor' = 1
    /\ UNCHANGED <<index, plan, arts, dirty, spawns, rewinds, procs, bounds>>

(* persist, and the finalize nodes.                                        *)
WriteManifest(manifest) ==
    /\ disk' = manifest
    /\ UNCHANGED <<index, plan, arts, dirty, spawns, rewinds, bounds>>

Persist ==
    /\ (pc = "dispatch" /\ cand = {}) \/ pc = "blocked"
    /\ WriteManifest(mem)
    /\ Return(mem)
    /\ Exit

(* Mutant: nothing to do for a manifest that is final already. *)
Finalize_once(phase, next) ==
    LET final == [mem EXCEPT !.phase = phase] IN
    /\ pc = phase
    /\ WriteManifest(final)
    /\ mem' = final
    /\ pc' = IF disk.phase = phase THEN "idle" ELSE next
    /\ UNCHANGED <<procs, cursor, cand>>

Finalize(phase, next) ==
    LET final == [mem EXCEPT !.phase = phase] IN
    /\ pc = phase
    /\ WriteManifest(final)
    /\ mem' = final
    /\ pc' = next
    /\ UNCHANGED <<procs, cursor, cand>>

(* _sync_index_status, a second file.                                      *)
SyncIndex(at, status) ==
    /\ pc = at
    /\ index' = status
    /\ Return(disk)
    /\ Exit
    /\ UNCHANGED <<disk, plan, arts, dirty, spawns, rewinds, bounds>>

-----------------------------------------------------------------------------
(* User commands.                                                          *)

(* wf confirm y: pending_plan.json is deleted before the manifest is       *)
(* written.  The plan is taken as it is.                                   *)
Accepted(m) ==
    [phase |-> "running",
     nodes |-> m.nodes \o [k \in DOMAIN plan.nodes |->
                              EntryOf(plan.nodes[k], {}, {})]]

(* wf confirm n: the node files of the plan go, the planner is pending.    *)
Rejected(m) ==
    LET names == {plan.nodes[k].name : k \in DOMAIN plan.nodes} IN
    [phase |-> "planning",
     nodes |-> [i \in DOMAIN m.nodes |->
        [m.nodes[i] EXCEPT
            !.def = @ /\ m.nodes[i].id \notin {NamedId(x) : x \in names},
            !.status = IF m.nodes[i].id = NamedId(Planner) THEN "pending" ELSE @]]]

Confirm(answer) ==
    /\ pc = "idle"
    /\ disk.phase = "awaiting_confirm"
    /\ plan # NoPlan
    /\ mem' = IF answer = "y" THEN Accepted(disk) ELSE Rejected(disk)
    /\ plan' = NoPlan
    /\ pc' = "confirm"
    /\ UNCHANGED <<disk, index, arts, dirty, spawns, rewinds,
                   procs, cursor, cand, bounds>>

WriteConfirmed ==
    /\ pc = "confirm"
    /\ WriteManifest(mem)
    /\ Return(mem)
    /\ Exit

(* wf reset <node>: three writes.  The REPL leaves pid as it is.           *)
ResetNode(i) ==
    /\ pc = "idle"
    /\ resets < MaxResets
    /\ i \in DOMAIN disk.nodes
    /\ \A j \in 1 .. i - 1 : disk.nodes[j].id # disk.nodes[i].id
    /\ Repl \/ HelpersDefined
    /\ LET e == disk.nodes[i]
           reset == [disk EXCEPT !.nodes[i] =
                       [e EXCEPT !.status = "pending",
                                 !.pid = IF Repl THEN @ ELSE NoPid]]
       IN  /\ disk' = reset
           /\ mem' = reset
           /\ pc' = IF disk.phase = "failed" THEN "reset" ELSE "idle"
    /\ resets' = resets + 1
    /\ UNCHANGED <<index, plan, arts, dirty, spawns, rewinds,
                   procs, cursor, cand, crashes>>

ReopenWorkflow ==
    LET reopened == [mem EXCEPT !.phase = "running"] IN
    /\ pc = "reset"
    /\ WriteManifest(reopened)
    /\ mem' = reopened
    /\ pc' = "indexActive"
    /\ UNCHANGED <<procs, cursor, cand>>

(* The engine process is killed, or the REPL is left: its memory is lost,  *)
(* its executors go on without a parent.                                   *)
Crash ==
    /\ pc # "idle"
    /\ crashes < MaxCrashes
    /\ crashes' = crashes + 1
    /\ Return(disk)
    /\ procs' = Orphaned(procs)
    /\ UNCHANGED <<files, resets>>

QuitRepl ==
    /\ Repl /\ pc = "idle"
    /\ \E p \in procs : p.child
    /\ procs' = Orphaned(procs)
    /\ UNCHANGED <<files, pc, mem, cursor, cand, bounds>>

-----------------------------------------------------------------------------

(* _init_workflow: the manifest holds one pending planner.                 *)
Init ==
    /\ disk = [phase |-> "planning", nodes |-> <<PlannerEntry>>]
    /\ index = "active"
    /\ plan = NoPlan
    /\ arts = {} /\ dirty = {} /\ spawns = {} /\ rewinds = {}
    /\ procs = {}
    /\ pc = "idle" /\ mem = disk /\ cursor = 1 /\ cand = {}
    /\ crashes = 0 /\ resets = 0

Reconcile == ReconcileNode \/ ResolveParents \/ RewindNode \/ RewindsDone \/ SpawnNode
Dispatch == DispatchAborts \/ LaunchExecutor \/ ExecutorNotFound \/ WriteLaunched
              \/ StartSync \/ \E ok \in BOOLEAN : SyncReturns(ok)
Finish == \/ Persist
          \/ Finalize("complete", "indexComplete") \/ Finalize("failed", "indexFailed")
          \/ SyncIndex("indexComplete", "complete") \/ SyncIndex("indexFailed", "failed")

(* What the engine process does once a cycle or a command has begun.       *)
EngineStep ==
    \/ Reconcile \/ RouteAwaiting \/ Route \/ Dispatch \/ Finish
    \/ WriteConfirmed \/ ReopenWorkflow \/ SyncIndex("indexActive", "active")

Executors == \E p \in procs, wrote \in BOOLEAN : ExecutorExits(p, wrote)
User == \/ \E answer \in {"y", "n"} : Confirm(answer)
        \/ \E i \in DOMAIN disk.nodes : ResetNode(i)

Next == \/ StartCycle \/ EngineStep \/ PlannerWrites \/ SyncSpawns \/ Executors
        \/ User \/ Crash \/ QuitRepl

Spec == Init /\ [][Next]_vars

(* Cycles are run again and again, a command that began goes on, executors *)
(* end (the code sets them a timeout only in the foreground), and the user *)
(* answers.  Nothing makes a crash, a reset or leaving the REPL happen.    *)
Fairness ==
    /\ WF_vars(StartCycle)
    /\ WF_vars(EngineStep)
    /\ WF_vars(Executors)
    /\ WF_vars(PlannerWrites)
    /\ SF_vars(\E answer \in {"y", "n"} : Confirm(answer))

FairSpec == Spec /\ Fairness

-----------------------------------------------------------------------------
(* Properties.                                                             *)

TypeOK ==
    /\ disk \in Manifest /\ mem \in Manifest
    /\ index \in {"active", "complete", "failed"}
    /\ plan = NoPlan \/ (plan.run \in Nat /\ plan.nodes \in Plans)
    /\ arts \subseteq Id /\ dirty \subseteq Id
    /\ spawns \subseteq Id /\ rewinds \subseteq Id \X Id
    /\ procs \subseteq Proc
    /\ pc \in {"idle", "reconcile", "rewind", "spawn", "dispatch", "launched",
               "sync", "blocked", "complete", "failed", "indexComplete",
               "indexFailed", "confirm", "reset", "indexActive"}
    /\ cursor \in Nat \ {0}
    /\ cand \subseteq DOMAIN mem.nodes
    /\ crashes \in Nat /\ resets \in Nat

(* No manifest, on disk or in memory, ever shows more than MAX_CONCURRENT  *)
(* running nodes, whatever crashes, resets and rewinds happen              *)
(* (select_next_nodes counts once, the dispatch loop starts several).      *)
RunningBound ==
    \A m \in {disk, mem} : Cardinality(Running(m.nodes)) <= MAX_CONCURRENT

(* No node is attempted more than MAX_ATTEMPTS times: neither a retry      *)
(* after a diagnosis, nor a rewind, a reset or a crash gives it more.      *)
AttemptBound ==
    \A m \in {disk, mem} : \A i \in DOMAIN m.nodes :
        m.nodes[i].attempt_count <= MAX_ATTEMPTS

(* Every executor that still runs is the one a running entry names by its  *)
(* pid: none is forgotten, and no node has two.                            *)
NoOrphanExecutor ==
    \A p \in procs : p.state = "live" =>
        \E i \in DOMAIN mem.nodes :
            /\ mem.nodes[i].id = p.node /\ mem.nodes[i].pid = p.run
            /\ mem.nodes[i].status = "running"

(* A background node gets its next attempt only after every earlier one    *)
(* was diagnosed (_diagnosis_ready).                                       *)
RetriesDiagnosed ==
    \A i \in DOMAIN mem.nodes : LET e == mem.nodes[i] IN
        e.mode = "none" => \A a \in 1 .. e.attempt_count - 1 :
            MetaId("diagnose", e.id, a) \in CompletedIds(mem.nodes)

IdsUnique(m) ==
    \A i, j \in DOMAIN m.nodes : m.nodes[i].id = m.nodes[j].id => i = j

(* Node ids stay unique although plans, spawn.json and the engine itself   *)
(* all add nodes; everything looks nodes up by id.  (Not after wf reset of *)
(* the planner: wf confirm then appends its plan to the manifest again.)   *)
UniqueIds == resets = 0 => IdsUnique(disk) /\ IdsUnique(mem)

(* A named node that runs or is completed stands on completed              *)
(* dependencies, also after one node was rewound with all that stand on    *)
(* it.  (Not when two diagnoses of one pass rewind a node and one that     *)
(* stands on it: the second comes to wait again, and its old executor's    *)
(* artifacts complete it at once.)                                         *)
UpstreamDone ==
    \A i \in DOMAIN mem.nodes : LET e == mem.nodes[i] IN
        (~IsMeta(e.id) /\ e.status \in {"running", "completed"})
            => e.depends_on \subseteq CompletedIds(mem.nodes)

(* A complete workflow is at rest: every node is completed and no executor  *)
(* of it still runs (finalize_complete looks at the manifest only).        *)
CompleteMeansDone ==
    disk.phase = "complete" =>
        /\ \A i \in DOMAIN disk.nodes : disk.nodes[i].status = "completed"
        /\ \A p \in procs : p.state # "live"

(* A node runs on a governed dependency with audit findings only after     *)
(* they were refactored.  (Not when the dependency is rewound while it     *)
(* runs: the rewind forgets its executor, which may report findings after  *)
(* a later executor completed the node.)                                   *)
GovernedGate ==
    \A i, j \in DOMAIN mem.nodes :
        LET e == mem.nodes[i]
            dep == mem.nodes[j]
        IN  (/\ e.status \in {"running", "completed"} /\ ~IsMeta(e.id)
             /\ dep.id \in e.depends_on \cap dirty
             /\ dep.strategy = "GOVERNANCE")
            => MetaId("refactor", dep.id, dep.attempt_count)
                   \in CompletedIds(mem.nodes)

(* The planner was rejected until it had no attempt left.                  *)
PlannerSpent ==
    /\ disk.phase = "planning"
    /\ \E i \in DOMAIN disk.nodes : /\ disk.nodes[i].id = NamedId(Planner)
                                    /\ disk.nodes[i].status = "pending"
                                    /\ disk.nodes[i].attempt_count >= MAX_ATTEMPTS

(* Whatever is lost with the engine's memory, no write of manifest.json    *)
(* loses a node or takes back an attempt that an earlier write counted.    *)
ManifestGrows ==
    [][\A i \in DOMAIN disk.nodes :
          /\ i \in DOMAIN disk'.nodes
          /\ disk'.nodes[i].id = disk.nodes[i].id
          /\ disk'.nodes[i].attempt_count >= disk.nodes[i].attempt_count
      ]_disk

(* Cycles, executors and the user going on, the workflow ends.             *)
Terminates == <>[](disk.phase \in {"complete", "failed"} \/ PlannerSpent)

(* A node that failed its last attempt fails the workflow (design document *)
(* 2026-04-11-workflow-engine-core-design.md, test matrix).                *)
ExhaustedFails ==
    (/\ disk.phase = "running"
     /\ \E i \in DOMAIN disk.nodes :
            /\ disk.nodes[i].status = "failed"
            /\ disk.nodes[i].attempt_count >= MAX_ATTEMPTS)
        ~> disk.phase = "failed"

(* index.json follows the manifest, also after a crash between the two;    *)
(* unless wf reset reopens the failed workflow first, or makes a node of   *)
(* the complete one pending, which does not reopen it.                     *)
IndexFollows ==
    /\ disk.phase = "complete" ~>
         (index = "complete" \/ ~AllCompleted(disk.nodes))
    /\ disk.phase = "failed" ~> (index = "failed" \/ disk.phase # "failed")

(* The manifest on disk, seen as a ledger of nodes, lives the life that    *)
(* WorkflowLifecycle describes: whatever is in the engine's memory, and    *)
(* wherever it crashes, each write moves nodes only as promised there.     *)
Ledger ==
    [i \in DOMAIN disk.nodes |->
        [id |-> disk.nodes[i].id, kind |-> KindOf(disk.nodes[i].id),
         status |-> disk.nodes[i].status,
         attempts |-> disk.nodes[i].attempt_count,
         depends_on |-> disk.nodes[i].depends_on]]
Lifecycle == INSTANCE WorkflowLifecycle
                 WITH phase <- disk.phase, nodes <- Ledger,
                      Planner <- NamedId(Planner)
ImplementsLifecycle == Lifecycle!LifeSpec

-----------------------------------------------------------------------------
(* What documents, comments and tests say, which the code does not do.     *)

(* tests/test_workflow_engine.py and the engine's design document: when    *)
(* all nodes are completed the workflow is complete, one with strategy     *)
(* FULL_STACK_VALIDATION among them.  Read here as generously as can be:   *)
(* all planned nodes and the verification each of them gets.               *)
DoneIsComplete ==
    (pc = "idle" /\ disk.phase = "running") =>
        \E i \in DOMAIN disk.nodes : /\ Len(disk.nodes[i].id.meta) <= 1
                                     /\ disk.nodes[i].status # "completed"

(* reconcile_artifacts: a running node whose process is dead is completed  *)
(* or failed by a later cycle.                                             *)
DeadExecutorSettled ==
    \A n \in NodeName :
        (\E p \in procs : /\ p.node = NamedId(n) /\ p.state # "live"
                          /\ \E i \in Running(disk.nodes) :
                                /\ disk.nodes[i].id = p.node
                                /\ disk.nodes[i].pid = p.run)
        ~> (\A i \in Running(disk.nodes) : disk.nodes[i].id # NamedId(n))
=============================================================================
