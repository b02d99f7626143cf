--------------------------- MODULE WorkflowIndex ---------------------------
(***************************************************************************)
(* The files of .devforge/workflows that several workflows share, and the  *)
(* commands on them (wf init, switch, run, confirm, reset), as processes   *)
(* started in different terminals interleave over them.  index.json and    *)
(* each manifest.json are replaced whole (store.py, _atomic_write), but a  *)
(* command reads the index, and writes its own copy of it later.  What a   *)
(* cycle does inside one workflow is WorkflowEngine's; here is its phase.  *)
(* Session.tla adds the runtime files and composes the processes.          *)
(***************************************************************************)
EXTENDS Naturals, FiniteSets

CONSTANTS
  Terminal,     \* where a user starts devforge processes, one at a time each
  Workflow,     \* ids that wf init makes of a name and the second
  Nil,          \* no active workflow, no attached run
  MaxCommands,  \* bound: commands given in all
  MaxCrashes    \* bound: processes killed

ASSUME IndexAssumption ==
  /\ Nil \notin Workflow
  /\ MaxCommands \in Nat
  /\ MaxCrashes \in Nat

VARIABLES
  pc,        \* the step each terminal's process is at
  repl,      \* the terminals whose process is the interactive session
  commands,  \* commands given so far
  overlap,   \* a command was ever given while another process was open
  index,     \* index.json
  manifest,  \* workflow_status in each manifest.json
  planner,   \* workflows whose nodes/planner.json is written
  edit       \* what each process is about to do to the index

indexVars == <<index, manifest, planner, edit>>

Phases == {"planning", "awaiting_confirm", "running", "complete", "failed"}
Statuses == {"active", "complete", "paused", "failed"}

Index == [active : Workflow \cup {Nil},
          status : [Workflow -> Statuses \cup {"absent"}]]

NoIndex == [active |-> Nil, status |-> [w \in Workflow |-> "absent"]]

\* phase: the manifest's, as the command read it; copy: the index, likewise.
Edit == [op : {"none", "init", "switch", "sync"}, workflow : Workflow \cup {Nil},
         phase : Phases, copy : Index]

NoEdit == [op |-> "none", workflow |-> Nil, phase |-> "planning", copy |-> NoIndex]

Known(ix) == {w \in Workflow : ix.status[w] # "absent"}

Busy(t) == pc[t] \notin {"closed", "prompt"}
Home(t) == IF t \in repl THEN "prompt" ELSE "closed"
Goto(t, step) == pc' = [pc EXCEPT ![t] = step]

\* A user gives a command, in the session or as a process of its own.
Command(t) ==
  /\ ~Busy(t)
  /\ commands < MaxCommands
  /\ commands' = commands + 1
  /\ overlap' = (overlap \/ \E u \in Terminal \ {t} : pc[u] # "closed")
  /\ UNCHANGED repl

Continues(t, step) == pc[t] = step /\ UNCHANGED <<repl, commands, overlap>>

Proposed(t, op, w, phase) ==
  edit' = [edit EXCEPT ![t] = [op |-> op, workflow |-> w, phase |-> phase,
                               copy |-> NoIndex]]

\* Mutated: wf init registers the workflow before its node is written.
InitWorkflow_indexFirst(t, w) ==
  /\ Command(t)
  /\ manifest[w] = "absent"
  /\ manifest' = [manifest EXCEPT ![w] = "planning"]
  /\ Proposed(t, "init", w, "planning")
  /\ Goto(t, "read-index")
  /\ UNCHANGED <<index, planner>>

InitWorkflow(t, w) ==
  /\ Command(t)
  /\ manifest[w] = "absent"
  /\ manifest' = [manifest EXCEPT ![w] = "planning"]
  /\ Proposed(t, "init", w, "planning")
  /\ Goto(t, "write-node")
  /\ UNCHANGED <<index, planner>>

WriteNode(t) ==
  /\ Continues(t, "write-node")
  /\ planner' = planner \cup {edit[t].workflow}
  /\ Goto(t, "read-index")
  /\ UNCHANGED <<index, manifest, edit>>

\* Only the session has wf switch; it takes any text for an id.
SwitchWorkflow(t, w) ==
  /\ Command(t)
  /\ t \in repl
  /\ Proposed(t, "switch", w, "planning")
  /\ Goto(t, "read-index")
  /\ UNCHANGED <<index, manifest, planner>>

\* run_one_cycle returns at once when there is nothing to run.
RunWorkflow(t) ==
  /\ Command(t)
  /\ index.active # Nil
  /\ manifest[index.active] \notin {"absent", "awaiting_confirm"}
  /\ Proposed(t, "sync", index.active, manifest[index.active])
  /\ Goto(t, "wf-cycle")
  /\ UNCHANGED <<index, manifest, planner>>

\* The cycle writes its own copy of the manifest, and then, when that ends
\* the workflow, goes on to the index.
Outcomes(phase) == {phase, "awaiting_confirm", "complete", "failed"}

FinishWorkflowCycle(t) ==
  /\ Continues(t, "wf-cycle")
  /\ \E phase \in Outcomes(edit[t].phase) :
       /\ manifest' = [manifest EXCEPT ![edit[t].workflow] = phase]
       /\ \/ /\ phase \in {"complete", "failed"}
             /\ edit' = [edit EXCEPT ![t].phase = phase]
             /\ Goto(t, "read-index")
          \/ /\ phase \in {edit[t].phase, "awaiting_confirm"}
             /\ edit' = [edit EXCEPT ![t] = NoEdit]
             /\ Goto(t, Home(t))
  /\ UNCHANGED <<index, planner>>

\* wf confirm y and n.
Confirm(t) ==
  /\ Command(t)
  /\ index.active # Nil
  /\ manifest[index.active] = "awaiting_confirm"
  /\ \E phase \in {"running", "planning"} :
       manifest' = [manifest EXCEPT ![index.active] = phase]
  /\ Goto(t, Home(t))
  /\ UNCHANGED <<index, planner, edit>>

\* wf reset of a node of a failed workflow; otherwise it only touches nodes.
ReopenWorkflow(t) ==
  /\ Command(t)
  /\ index.active # Nil
  /\ manifest[index.active] = "failed"
  /\ manifest' = [manifest EXCEPT ![index.active] = "running"]
  /\ Proposed(t, "sync", index.active, "running")
  /\ Goto(t, "read-index")
  /\ UNCHANGED <<index, planner>>

ReadIndex(t) ==
  /\ Continues(t, "read-index")
  /\ IF edit[t].op = "switch" /\ edit[t].workflow \notin Known(index)
       THEN edit' = [edit EXCEPT ![t] = NoEdit] /\ Goto(t, Home(t))
       ELSE edit' = [edit EXCEPT ![t].copy = index] /\ Goto(t, "write-index")
  /\ UNCHANGED <<index, manifest, planner>>

\* Mutated: the index is written anew instead of extended.
Registered_startsOver(ix, w) ==
  [active |-> w,
   status |-> [v \in Workflow |-> IF v = w THEN "active" ELSE "absent"]]

Registered(ix, w) ==
  [active |-> w,
   status |-> [v \in Workflow |->
                 IF v = w THEN "active"
                 ELSE IF v = ix.active /\ v \in Known(ix) THEN "paused"
                 ELSE ix.status[v]]]

\* _sync_index_status; a reset reopens with "active".
Synced(ix, w, phase) ==
  IF w \in Known(ix)
    THEN [ix EXCEPT !.status[w] = IF phase = "running" THEN "active" ELSE phase]
    ELSE ix

Edited(e) ==
  CASE e.op = "init" -> Registered(e.copy, e.workflow)
    [] e.op = "switch" -> [e.copy EXCEPT !.active = e.workflow]
    [] OTHER -> Synced(e.copy, e.workflow, e.phase)

WriteIndex(t) ==
  /\ Continues(t, "write-index")
  /\ index' = Edited(edit[t])
  /\ edit' = [edit EXCEPT ![t] = NoEdit]
  /\ Goto(t, Home(t))
  /\ UNCHANGED <<manifest, planner>>

IndexInit ==
  /\ index = NoIndex
  /\ manifest = [w \in Workflow |-> "absent"]
  /\ planner = {}
  /\ edit = [t \in Terminal |-> NoEdit]

IndexStep(t) ==
  \/ \E w \in Workflow : InitWorkflow(t, w) \/ SwitchWorkflow(t, w)
  \/ RunWorkflow(t) \/ Confirm(t) \/ ReopenWorkflow(t)
  \/ WriteNode(t) \/ FinishWorkflowCycle(t) \/ ReadIndex(t) \/ WriteIndex(t)
-----------------------------------------------------------------------------
IndexTyped ==
  /\ index \in Index
  /\ manifest \in [Workflow -> Phases \cup {"absent"}]
  /\ planner \subseteq Workflow
  /\ edit \in [Terminal -> Edit]

(* Whatever process is killed or writes back an old copy, each workflow    *)
(* the index lists, the active one among them, has its manifest and its    *)
(* planner node: wf run never finds the active workflow's files missing    *)
(* (_init_workflow writes the index last).                                 *)
ListedRunnable ==
  /\ index.active \in Known(index) \cup {Nil}
  /\ \A w \in Known(index) : manifest[w] # "absent" /\ w \in planner

(* As long as processes do not overlap, no command loses a workflow from   *)
(* the index, and none but wf init and wf switch changes the active one,   *)
(* also after a process was killed between two writes.                     *)
WorkflowsKept ==
  [][~overlap' => /\ Known(index) \subseteq Known(index')
                  /\ \A t \in Terminal :
                       (pc[t] = "write-index" /\ pc'[t] # pc[t]
                          /\ edit[t].op = "sync")
                       => index'.active = index.active]_<<index, pc, overlap>>

=============================================================================
