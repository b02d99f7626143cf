--------------------------- MODULE Session_proofs ---------------------------
(***************************************************************************)
(* For any number of terminals, commands, cycles and kills: the files of a *)
(* .devforge directory stay consistent with one another, and, as long as   *)
(* processes do not overlap, no saved session or listed workflow is lost.  *)
(***************************************************************************)
EXTENDS Session, TLAPS

IndexSteps == {"write-node", "wf-cycle", "read-index", "write-index"}

\* Workflows that may be listed.
Good == {w \in Workflow : manifest[w] # "absent" /\ w \in planner}

ActiveKnown(ix) == ix.active \in Known(ix) \cup {Nil}

\* What a process that is about to write the index may write.
EditFits(t) ==
  /\ ActiveKnown(edit[t].copy) /\ Known(edit[t].copy) \subseteq Good
  /\ pc[t] \in IndexSteps => edit[t].workflow \in Workflow
  /\ pc[t] = "write-node" =>
       edit[t].op = "init" /\ manifest[edit[t].workflow] # "absent"
  /\ pc[t] = "wf-cycle" => edit[t].op = "sync"
  /\ pc[t] \in {"read-index", "write-index"} =>
       /\ edit[t].op # "none"
       /\ edit[t].op = "init" => edit[t].workflow \in Good
       /\ edit[t].op = "sync" => edit[t].phase \in {"complete", "failed", "running"}
  /\ (pc[t] = "write-index" /\ edit[t].op = "switch") =>
       edit[t].workflow \in Known(edit[t].copy)

EditsFit == \A t \in Terminal : EditFits(t)

\* Without overlap, at most one process is open.
Solo == ~overlap =>
  \A t, u \in Terminal : (pc[t] # "closed" /\ pc[u] # "closed") => t = u

-----------------------------------------------------------------------------
(* Typing *)

LEMMA BlankTyped ==
  /\ NoIndex \in Index /\ NoEdit \in Edit
  /\ DefaultSession \in Bundle
  /\ Known(NoIndex) = {} /\ ActiveKnown(NoIndex)
<1>1. NoIndex \in Index
  BY DEF NoIndex, Index, Statuses
<1>2. NoEdit \in Edit
  BY <1>1 DEF NoEdit, Edit, Phases
<1>3. DefaultSession \in Bundle
  BY DEF DefaultSession, Bundle
<1>4. Known(NoIndex) = {} /\ ActiveKnown(NoIndex)
  BY DEF Known, NoIndex, ActiveKnown
<1>. QED  BY <1>1, <1>2, <1>3, <1>4

\* What processes have in common with one another in every step.
Ghosts ==
  /\ repl' \subseteq Terminal /\ commands' \in Nat /\ overlap' \in BOOLEAN

LEMMA CommandTyped ==
  ASSUME SessionTyped, NEW t \in Terminal, Command(t)
  PROVE  Ghosts
BY DEF SessionTyped, Command, Ghosts

LEMMA EditedTyped ==
  ASSUME NEW e \in Edit, e.workflow \in Workflow, e.op # "none",
         e.op = "sync" => e.phase \in {"complete", "failed", "running"}
  PROVE  Edited(e) \in Index
<1>1. e.copy \in Index /\ e.copy.status \in [Workflow -> Statuses \cup {"absent"}]
  BY DEF Edit, Index
<1>2. CASE e.op = "init"
  <2>1. Registered(e.copy, e.workflow) \in Index
    BY <1>1 DEF Registered, Index, Statuses
  <2>. QED  BY <1>2, <2>1 DEF Edited
<1>3. CASE e.op = "switch"
  <2>1. [e.copy EXCEPT !.active = e.workflow] \in Index
    BY <1>1 DEF Index
  <2>. QED  BY <1>3, <2>1 DEF Edited
<1>4. CASE e.op = "sync"
  <2>1. Synced(e.copy, e.workflow, e.phase) \in Index
    BY <1>1, <1>4 DEF Synced, Index, Statuses
  <2>. QED  BY <1>4, <2>1 DEF Edited
<1>. QED  BY <1>2, <1>3, <1>4 DEF Edit

LEMMA IndexStepTyped ==
  ASSUME SessionTyped, EditsFit, NEW t \in Terminal, IndexStep(t)
  PROVE  IndexTyped' /\ pc' \in [Terminal -> Steps] /\ Ghosts
<1>. USE DEF SessionTyped, IndexTyped, Goto, Steps, Ghosts
<1>0. Home(t) \in Steps
  BY DEF Home
<1>1. ASSUME NEW w \in Workflow, InitWorkflow(t, w)
      PROVE  IndexTyped' /\ pc' \in [Terminal -> Steps] /\ Ghosts
  <2>1. [op |-> "init", workflow |-> w, phase |-> "planning", copy |-> NoIndex] \in Edit
    BY BlankTyped DEF Edit, Phases
  <2>. QED  BY <1>1, <2>1, CommandTyped DEF InitWorkflow, Proposed, Phases
<1>2. ASSUME NEW w \in Workflow, SwitchWorkflow(t, w)
      PROVE  IndexTyped' /\ pc' \in [Terminal -> Steps] /\ Ghosts
  <2>1. [op |-> "switch", workflow |-> w, phase |-> "planning", copy |-> NoIndex] \in Edit
    BY BlankTyped DEF Edit, Phases
  <2>. QED  BY <1>2, <2>1, CommandTyped DEF SwitchWorkflow, Proposed
<1>3. CASE RunWorkflow(t)
  <2>1. index.active \in Workflow /\ manifest[index.active] \in Phases
    BY <1>3 DEF RunWorkflow, Index
  <2>2. [op |-> "sync", workflow |-> index.active, phase |-> manifest[index.active],
         copy |-> NoIndex] \in Edit
    BY BlankTyped, <2>1 DEF Edit
  <2>. QED  BY <1>3, <2>2, CommandTyped DEF RunWorkflow, Proposed
<1>4. CASE Confirm(t)
  <2>1. index.active \in Workflow
    BY <1>4 DEF Confirm, Index
  <2>. QED  BY <1>0, <1>4, <2>1, CommandTyped DEF Confirm, Phases
<1>5. CASE ReopenWorkflow(t)
  <2>1. index.active \in Workflow
    BY <1>5 DEF ReopenWorkflow, Index
  <2>2. [op |-> "sync", workflow |-> index.active, phase |-> "running",
         copy |-> NoIndex] \in Edit
    BY BlankTyped, <2>1 DEF Edit, Phases
  <2>. QED  BY <1>5, <2>1, <2>2, CommandTyped DEF ReopenWorkflow, Proposed, Phases
<1>6. CASE WriteNode(t)
  <2>1. edit[t].workflow \in Workflow
    BY <1>6 DEF WriteNode, Continues, EditsFit, EditFits, IndexSteps
  <2>. QED  BY <1>6, <2>1 DEF WriteNode, Continues
<1>7. CASE FinishWorkflowCycle(t)
  <2>1. edit[t].workflow \in Workflow /\ edit[t] \in Edit
    BY <1>7 DEF FinishWorkflowCycle, Continues, EditsFit, EditFits, IndexSteps
  <2>2. PICK phase \in Outcomes(edit[t].phase) :
          /\ manifest' = [manifest EXCEPT ![edit[t].workflow] = phase]
          /\ \/ /\ edit' = [edit EXCEPT ![t].phase = phase]
                /\ Goto(t, "read-index")
             \/ edit' = [edit EXCEPT ![t] = NoEdit] /\ Goto(t, Home(t))
    BY <1>7 DEF FinishWorkflowCycle
  <2>3. phase \in Phases
    BY <2>1 DEF Outcomes, Edit, Phases
  <2>4. manifest' \in [Workflow -> Phases \cup {"absent"}]
    BY <2>2, <2>3
  <2>5. [edit[t] EXCEPT !.phase = phase] \in Edit
    BY <2>1, <2>3 DEF Edit
  <2>6. edit' \in [Terminal -> Edit] /\ pc' \in [Terminal -> Steps]
    BY <1>0, <2>2, <2>5, BlankTyped
  <2>. QED  BY <1>7, <2>4, <2>6 DEF FinishWorkflowCycle, Continues
<1>8. CASE ReadIndex(t)
  <2>1. [edit[t] EXCEPT !.copy = index] \in Edit
    BY DEF Edit
  <2>2. edit' \in [Terminal -> Edit] /\ pc' \in [Terminal -> Steps]
    BY <1>0, <1>8, <2>1, BlankTyped DEF ReadIndex
  <2>. QED  BY <1>8, <2>2 DEF ReadIndex, Continues
<1>9. CASE WriteIndex(t)
  <2>1. Edited(edit[t]) \in Index
    <3>1. /\ edit[t] \in Edit /\ edit[t].workflow \in Workflow /\ edit[t].op # "none"
          /\ edit[t].op = "sync" => edit[t].phase \in {"complete", "failed", "running"}
      BY <1>9 DEF WriteIndex, Continues, EditsFit, EditFits, IndexSteps
    <3>. QED  BY <3>1, EditedTyped
  <2>. QED  BY <1>0, <1>9, <2>1, BlankTyped DEF WriteIndex, Continues
<1>. QED  BY <1>1, <1>2, <1>3, <1>4, <1>5, <1>6, <1>7, <1>8, <1>9 DEF IndexStep

Other(t) ==
  Loading(t) \/ Initializing(t) \/ Cycling(t) \/ Prompt(t) \/ Kill(t)

\* A step that is not one of a workflow command leaves the index alone.
LEMMA OtherFrame ==
  ASSUME SessionTyped, NEW t \in Terminal, Other(t)
  PROVE  /\ UNCHANGED <<index, manifest, planner>>
         /\ edit' = edit \/ edit' = [edit EXCEPT ![t] = NoEdit]
         /\ pc' \in [Terminal -> Steps] /\ pc'[t] \notin IndexSteps
         /\ \A u \in Terminal \ {t} : pc'[u] = pc[u]
<1>. USE DEF SessionTyped, Steps, IndexSteps, Goto, At, Given, Continues, Command,
           Ends, Home, indexVars
<1>1. CASE Loading(t)
  BY <1>1 DEF Loading, LoadSession, LoadLastCycle, LoadRaises
<1>2. CASE Initializing(t)
  BY <1>2 DEF Initializing, Initialize, Onboard, OnboardingEnds, WriteSnapshot, WriteConfig
<1>3. CASE Cycling(t)
  BY <1>3 DEF Cycling, BeginCycle, ContinueRaises, CycleRaises, FinishCycle,
       SaveSnapshot, SaveSession, SaveLastCycle
<1>4. CASE Prompt(t)
  BY <1>4 DEF Prompt, OpenSession, InputInformation, KeepSession, AttachRun,
       DetachRun, Quit, QuitSession, Interrupt
<1>5. CASE Kill(t)
  BY <1>5 DEF Kill
<1>. QED  BY <1>1, <1>2, <1>3, <1>4, <1>5 DEF Other

LEMMA StepGhosts ==
  ASSUME SessionTyped, NEW t \in Terminal
  PROVE  /\ Given(t) => Ghosts
         /\ \A step : At(t, step) => Ghosts
         /\ Ends(t) => Ghosts
         /\ OpenSession(t) => Ghosts
<1>1. Given(t) => Ghosts
  BY CommandTyped DEF Given
<1>2. \A step : At(t, step) => Ghosts
  BY DEF At, Continues, Ghosts, SessionTyped
<1>3. Ends(t) => Ghosts
  BY DEF Ends, Ghosts, SessionTyped
<1>4. OpenSession(t) => Ghosts
  BY DEF OpenSession, Ghosts, SessionTyped
<1>. QED  BY <1>1, <1>2, <1>3, <1>4

LEMMA OtherGhosts ==
  ASSUME SessionTyped, NEW t \in Terminal, Other(t)
  PROVE  Ghosts /\ cycles' \in Nat /\ crashes' \in Nat
<1>1. Ghosts
  BY StepGhosts DEF Other, Loading, LoadSession, LoadLastCycle, LoadRaises,
     Initializing, Initialize, Onboard, OnboardingEnds, WriteSnapshot, WriteConfig,
     Cycling, BeginCycle, ContinueRaises, CycleRaises, FinishCycle,
     SaveSnapshot, SaveSession, SaveLastCycle,
     Prompt, InputInformation, KeepSession, AttachRun,
     DetachRun, Quit, QuitSession, Interrupt, Kill
<1>2. cycles' \in {cycles, cycles + 1} /\ crashes' \in {crashes, crashes + 1}
  BY DEF Other, Loading, LoadSession, LoadLastCycle, LoadRaises,
     Initializing, Initialize, Onboard, OnboardingEnds, WriteSnapshot, WriteConfig,
     Cycling, BeginCycle, ContinueRaises, CycleRaises, FinishCycle,
     SaveSnapshot, SaveSession, SaveLastCycle,
     Prompt, OpenSession, InputInformation, KeepSession, AttachRun,
     DetachRun, Quit, QuitSession, Interrupt, Kill
<1>. QED  BY <1>1, <1>2 DEF SessionTyped

\* What the steps of a process save is what it has in memory; what it has
\* there came from the files or from a cycle.
Writings ==
  /\ snapshot' \in Files /\ config' \in Files
  /\ session' \in Saved /\ last' \in Saved
  /\ mem' \in [Terminal -> Bundle]
  /\ runtime' \in [Terminal -> Layouts \cup {"absent"}]

LEMMA OtherWritings ==
  ASSUME SessionTyped, NEW t \in Terminal, Other(t)
  PROVE  Writings
<1>0. /\ \A b \in Bundle : Whole(b) \in Saved
      /\ Without("torn") \in Saved
      /\ session.bundle \in Bundle /\ last.bundle \in Bundle
      /\ \A b \in Bundle : [b EXCEPT !.attached = Nil] \in Bundle
      /\ \A b \in Bundle, r \in Run : [b EXCEPT !.attached = r] \in Bundle
      /\ \A b, c \in Bundle : [b EXCEPT !.runs = c.runs] \in Bundle
      /\ \A runs \in SUBSET Run :
           [cycle |-> cycles + 1, runs |-> runs, attached |-> Nil] \in Bundle
  BY BlankTyped DEF SessionTyped, Whole, Without, Saved, Bundle
<1>. USE BlankTyped DEF SessionTyped, Writings, At, Given, Continues, Command, Ends,
           runtimeVars, Files
<1>1. CASE Loading(t)
  <2>1. CASE LoadSession(t)
    BY <1>0, <2>1 DEF LoadSession
  <2>2. CASE LoadLastCycle(t)
    <3>1. mem' \in [Terminal -> Bundle]
      <4>1. [mem[t] EXCEPT !.runs = last.bundle.runs] \in Bundle
        BY <1>0
      <4>. QED  BY <2>2, <4>1 DEF LoadLastCycle
    <3>. QED  BY <2>2, <3>1 DEF LoadLastCycle
  <2>3. CASE LoadRaises(t)
    BY <2>3 DEF LoadRaises
  <2>. QED  BY <1>1, <2>1, <2>2, <2>3 DEF Loading
<1>2. CASE Initializing(t)
  BY <1>2 DEF Initializing, Initialize, Onboard, OnboardingEnds, WriteSnapshot, WriteConfig
<1>3. CASE Cycling(t)
  <2>1. CASE BeginCycle(t) \/ ContinueRaises(t) \/ CycleRaises(t)
    BY <2>1 DEF BeginCycle, ContinueRaises, CycleRaises, Readable
  <2>2. CASE FinishCycle(t)
    <3>1. PICK runs \in SUBSET Run :
            mem' = [mem EXCEPT ![t] = [cycle |-> cycles + 1, runs |-> runs,
                                       attached |-> Nil]]
      BY <2>2 DEF FinishCycle
    <3>2. mem' \in [Terminal -> Bundle]
      BY <1>0, <3>1
    <3>. QED  BY <2>2, <3>2 DEF FinishCycle
  <2>3. CASE SaveSnapshot(t) \/ SaveSession(t)
    BY <1>0, <2>3 DEF SaveSnapshot, SaveSession
  <2>4. CASE SaveLastCycle(t)
    <3>1. [mem[t] EXCEPT !.attached = Nil] \in Bundle
      BY <1>0
    <3>. QED  BY <1>0, <2>4, <3>1 DEF SaveLastCycle
  <2>. QED  BY <1>3, <2>1, <2>2, <2>3, <2>4 DEF Cycling
<1>4. CASE Prompt(t)
  <2>1. CASE OpenSession(t) \/ InputInformation(t) \/ KeepSession(t)
    BY <1>0, <2>1 DEF OpenSession, InputInformation, KeepSession
  <2>2. ASSUME NEW r \in Run, AttachRun(t, r)
        PROVE  Writings
    <3>1. [mem[t] EXCEPT !.attached = r] \in Bundle
      BY <1>0
    <3>. QED  BY <2>2, <3>1 DEF AttachRun
  <2>3. CASE DetachRun(t)
    <3>1. [mem[t] EXCEPT !.attached = Nil] \in Bundle
      BY <1>0
    <3>. QED  BY <2>3, <3>1 DEF DetachRun
  <2>4. CASE Quit(t) \/ QuitSession(t) \/ Interrupt(t)
    BY <1>0, <2>4 DEF Quit, QuitSession, Interrupt
  <2>. QED  BY <1>4, <2>1, <2>2, <2>3, <2>4 DEF Prompt
<1>5. CASE Kill(t)
  BY <1>0, <1>5 DEF Kill, CutOffSaved
<1>. QED  BY <1>1, <1>2, <1>3, <1>4, <1>5 DEF Other

LEMMA StepTyped ==
  ASSUME SessionTyped, EditsFit, [Next]_vars
  PROVE  SessionTyped'
<1>1. ASSUME NEW t \in Terminal, Workflows(t)
      PROVE  SessionTyped'
  BY <1>1, IndexStepTyped DEF Workflows, SessionTyped, Ghosts, runtimeVars
<1>2. ASSUME NEW t \in Terminal, Other(t)
      PROVE  SessionTyped'
  <2>1. IndexTyped'
    BY <1>2, OtherFrame, BlankTyped DEF SessionTyped, IndexTyped
  <2>2. pc' \in [Terminal -> Steps]
    BY <1>2, OtherFrame
  <2>3. Ghosts /\ cycles' \in Nat /\ crashes' \in Nat
    BY <1>2, OtherGhosts
  <2>4. Writings
    BY <1>2, OtherWritings
  <2>. QED  BY <2>1, <2>2, <2>3, <2>4 DEF SessionTyped, Ghosts, Writings
<1>3. CASE UNCHANGED vars
  BY <1>3 DEF vars, SessionTyped, IndexTyped
<1>. QED  BY <1>1, <1>2, <1>3 DEF Next, Other

-----------------------------------------------------------------------------
(* The index *)

LEMMA IndexFrame ==
  ASSUME SessionTyped, EditsFit, NEW t \in Terminal, IndexStep(t)
  PROVE  /\ Good \subseteq Good'
         /\ \A w \in Workflow : manifest[w] # "absent" => manifest'[w] # "absent"
         /\ \A u \in Terminal \ {t} : edit'[u] = edit[u] /\ pc'[u] = pc[u]
<1>. USE DEF SessionTyped, IndexTyped, Goto, Proposed
<1>1. \A u \in Terminal \ {t} : edit'[u] = edit[u] /\ pc'[u] = pc[u]
  BY DEF IndexStep, InitWorkflow, SwitchWorkflow, RunWorkflow, Confirm, ReopenWorkflow,
         WriteNode, FinishWorkflowCycle, ReadIndex, WriteIndex
<1>2. planner \subseteq planner'
  BY DEF IndexStep, InitWorkflow, SwitchWorkflow, RunWorkflow, Confirm, ReopenWorkflow,
         WriteNode, FinishWorkflowCycle, ReadIndex, WriteIndex
<1>3. \A w \in Workflow : manifest[w] # "absent" => manifest'[w] # "absent"
  <2>1. CASE FinishWorkflowCycle(t)
    <3>1. edit[t] \in Edit
      OBVIOUS
    <3>2. PICK phase \in Outcomes(edit[t].phase) :
            manifest' = [manifest EXCEPT ![edit[t].workflow] = phase]
      BY <2>1 DEF FinishWorkflowCycle
    <3>3. phase # "absent"
      BY <3>1 DEF Outcomes, Edit, Phases
    <3>. QED  BY <3>2, <3>3
  <2>2. CASE UNCHANGED manifest
    BY <2>2
  <2>3. CASE \E w \in Workflow : InitWorkflow(t, w)
    BY <2>3 DEF InitWorkflow
  <2>4. CASE Confirm(t) \/ ReopenWorkflow(t)
    BY <2>4 DEF Confirm, ReopenWorkflow
  <2>. QED  BY <2>1, <2>2, <2>3, <2>4
            DEF IndexStep, SwitchWorkflow, RunWorkflow, WriteNode, ReadIndex, WriteIndex
<1>. QED  BY <1>1, <1>2, <1>3 DEF Good

LEMMA EditedFits ==
  ASSUME NEW t \in Terminal, SessionTyped, EditsFit, pc[t] = "write-index"
  PROVE  ActiveKnown(Edited(edit[t])) /\ Known(Edited(edit[t])) \subseteq Good
<1>1. /\ edit[t] \in Edit /\ EditFits(t)
      /\ edit[t].copy \in Index /\ edit[t].copy.status \in [Workflow -> Statuses \cup {"absent"}]
  BY DEF SessionTyped, IndexTyped, EditsFit, Edit, Index
<1>2. edit[t].workflow \in Workflow
  BY <1>1 DEF EditFits, IndexSteps
<1>. DEFINE c == edit[t].copy
            w == edit[t].workflow
<1>3. ActiveKnown(c) /\ Known(c) \subseteq Good
  BY <1>1 DEF EditFits
<1>4. CASE edit[t].op = "init"
  <2>1. Edited(edit[t]) = Registered(c, w)
    BY <1>4 DEF Edited
  <2>2. Known(Registered(c, w)) \subseteq Known(c) \cup {w} /\ w \in Known(Registered(c, w))
    BY <1>1, <1>2 DEF Known, Registered
  <2>3. w \in Good
    BY <1>1, <1>4 DEF EditFits
  <2>. QED  BY <1>3, <2>1, <2>2, <2>3 DEF ActiveKnown, Registered
<1>5. CASE edit[t].op = "switch"
  <2>1. Edited(edit[t]) = [c EXCEPT !.active = w]
    BY <1>5 DEF Edited
  <2>2. w \in Known(c)
    BY <1>1, <1>5 DEF EditFits
  <2>. QED  BY <1>1, <1>3, <2>1, <2>2 DEF ActiveKnown, Known, Index
<1>6. CASE edit[t].op = "sync"
  <2>1. Edited(edit[t]) = Synced(c, w, edit[t].phase)
    BY <1>6 DEF Edited
  <2>2. edit[t].phase \in {"complete", "failed", "running"}
    BY <1>1, <1>6 DEF EditFits
  <2>3. /\ Known(Synced(c, w, edit[t].phase)) = Known(c)
        /\ Synced(c, w, edit[t].phase).active = c.active
    BY <1>1, <1>2, <2>2 DEF Known, Synced, Index
  <2>. QED  BY <1>3, <2>1, <2>3 DEF ActiveKnown
<1>7. edit[t].op # "none"
  BY <1>1 DEF EditFits
<1>. QED  BY <1>1, <1>4, <1>5, <1>6, <1>7 DEF Edit

\* The terminal that takes a step of a workflow command.
LEMMA OwnEditFits ==
  ASSUME SessionTyped, SessionTyped', EditsFit, ListedRunnable,
         NEW t \in Terminal, IndexStep(t)
  PROVE  EditFits(t)'
<1>. USE DEF SessionTyped, IndexTyped, Goto
<1>0. /\ Good \subseteq Good' /\ EditFits(t) /\ edit[t] \in Edit
      /\ \A w \in Workflow : manifest[w] # "absent" => manifest'[w] # "absent"
  BY IndexFrame DEF EditsFit
<1>a. Home(t) \notin IndexSteps
  BY DEF Home, IndexSteps
<1>b. /\ NoEdit.copy = NoIndex /\ ActiveKnown(NoIndex) /\ Known(NoIndex) = {}
  BY BlankTyped DEF NoEdit
<1>1. ASSUME NEW w \in Workflow, InitWorkflow(t, w)
      PROVE  EditFits(t)'
  <2>1. /\ edit'[t] = [op |-> "init", workflow |-> w, phase |-> "planning",
                       copy |-> NoIndex]
        /\ pc'[t] = "write-node" /\ manifest'[w] = "planning"
    BY <1>1 DEF InitWorkflow, Proposed
  <2>. QED  BY <1>b, <2>1 DEF EditFits, IndexSteps
<1>2. ASSUME NEW w \in Workflow, SwitchWorkflow(t, w)
      PROVE  EditFits(t)'
  <2>1. /\ edit'[t] = [op |-> "switch", workflow |-> w, phase |-> "planning",
                       copy |-> NoIndex]
        /\ pc'[t] = "read-index"
    BY <1>2 DEF SwitchWorkflow, Proposed
  <2>. QED  BY <1>b, <2>1 DEF EditFits, IndexSteps
<1>3. CASE RunWorkflow(t)
  <2>1. /\ edit'[t] = [op |-> "sync", workflow |-> index.active,
                       phase |-> manifest[index.active], copy |-> NoIndex]
        /\ pc'[t] = "wf-cycle" /\ index.active \in Workflow
    BY <1>3 DEF RunWorkflow, Proposed, Index
  <2>. QED  BY <1>b, <2>1 DEF EditFits, IndexSteps
<1>4. CASE Confirm(t)
  <2>1. edit' = edit /\ pc'[t] = Home(t)
    BY <1>4 DEF Confirm
  <2>. QED  BY <1>0, <1>a, <2>1 DEF EditFits, IndexSteps
<1>5. CASE ReopenWorkflow(t)
  <2>1. /\ edit'[t] = [op |-> "sync", workflow |-> index.active,
                       phase |-> "running", copy |-> NoIndex]
        /\ pc'[t] = "read-index" /\ index.active \in Workflow
    BY <1>5 DEF ReopenWorkflow, Proposed, Index
  <2>. QED  BY <1>b, <2>1 DEF EditFits, IndexSteps
<1>6. CASE WriteNode(t)
  <2>1. /\ edit' = edit /\ pc'[t] = "read-index" /\ pc[t] = "write-node"
        /\ manifest' = manifest /\ planner' = planner \cup {edit[t].workflow}
    BY <1>6 DEF WriteNode, Continues
  <2>2. /\ edit[t].op = "init" /\ manifest[edit[t].workflow] # "absent"
        /\ edit[t].workflow \in Workflow
    BY <1>0, <2>1 DEF EditFits, IndexSteps
  <2>3. edit[t].workflow \in Good'
    BY <2>1, <2>2 DEF Good
  <2>. QED  BY <1>0, <2>1, <2>2, <2>3 DEF EditFits, IndexSteps
<1>7. CASE FinishWorkflowCycle(t)
  <2>1. pc[t] = "wf-cycle"
    BY <1>7 DEF FinishWorkflowCycle, Continues
  <2>2. edit[t].op = "sync" /\ edit[t].workflow \in Workflow
    BY <1>0, <2>1 DEF EditFits, IndexSteps
  <2>3. \/ \E phase \in {"complete", "failed"} :
              edit' = [edit EXCEPT ![t].phase = phase] /\ pc'[t] = "read-index"
        \/ edit'[t] = NoEdit /\ pc'[t] = Home(t)
    BY <1>7 DEF FinishWorkflowCycle
  <2>4. CASE \E phase \in {"complete", "failed"} :
              edit' = [edit EXCEPT ![t].phase = phase] /\ pc'[t] = "read-index"
    <3>1. PICK phase \in {"complete", "failed"} :
              edit' = [edit EXCEPT ![t].phase = phase] /\ pc'[t] = "read-index"
      BY <2>4
    <3>2. /\ edit'[t].op = edit[t].op /\ edit'[t].workflow = edit[t].workflow
          /\ edit'[t].copy = edit[t].copy /\ edit'[t].phase = phase
      BY <1>0, <3>1 DEF Edit
    <3>. QED  BY <1>0, <2>2, <3>1, <3>2 DEF EditFits, IndexSteps
  <2>5. CASE edit'[t] = NoEdit /\ pc'[t] = Home(t)
    BY <1>a, <1>b, <2>5 DEF EditFits, IndexSteps
  <2>. QED  BY <2>3, <2>4, <2>5
<1>8. CASE ReadIndex(t)
  <2>1. CASE edit'[t] = NoEdit /\ pc'[t] = Home(t)
    BY <1>a, <1>b, <2>1 DEF EditFits, IndexSteps
  <2>2. CASE /\ edit' = [edit EXCEPT ![t].copy = index] /\ pc'[t] = "write-index"
             /\ ~(edit[t].op = "switch" /\ edit[t].workflow \notin Known(index))
    <3>1. /\ edit'[t].op = edit[t].op /\ edit'[t].workflow = edit[t].workflow
          /\ edit'[t].copy = index /\ edit'[t].phase = edit[t].phase
      BY <1>0, <2>2 DEF Edit
    <3>2. ActiveKnown(index) /\ Known(index) \subseteq Good
      BY DEF ListedRunnable, ActiveKnown, Good, Known
    <3>3. pc[t] = "read-index"
      BY <1>8 DEF ReadIndex, Continues
    <3>. QED  BY <1>0, <2>2, <3>1, <3>2, <3>3 DEF EditFits, IndexSteps
  <2>. QED  BY <1>8, <2>1, <2>2 DEF ReadIndex
<1>9. CASE WriteIndex(t)
  <2>1. edit'[t] = NoEdit /\ pc'[t] = Home(t)
    BY <1>9 DEF WriteIndex
  <2>. QED  BY <1>a, <1>b, <2>1 DEF EditFits, IndexSteps
<1>. QED  BY <1>1, <1>2, <1>3, <1>4, <1>5, <1>6, <1>7, <1>8, <1>9 DEF IndexStep

LEMMA EditsKeepFitting ==
  ASSUME SessionTyped, SessionTyped', EditsFit, ListedRunnable, [Next]_vars
  PROVE  EditsFit'
<1>1. ASSUME NEW t \in Terminal, Workflows(t)
      PROVE  EditsFit'
  <2>1. IndexStep(t)
    BY <1>1 DEF Workflows
  <2>2. ASSUME NEW u \in Terminal \ {t}
        PROVE  EditFits(u)'
    <3>1. /\ EditFits(u) /\ edit'[u] = edit[u] /\ pc'[u] = pc[u] /\ Good \subseteq Good'
          /\ \A w \in Workflow : manifest[w] # "absent" => manifest'[w] # "absent"
      BY <2>1, IndexFrame DEF EditsFit
    <3>. QED  BY <3>1 DEF EditFits, IndexSteps
  <2>3. EditFits(t)'
    BY <2>1, OwnEditFits
  <2>. QED  BY <2>2, <2>3 DEF EditsFit
<1>2. ASSUME NEW t \in Terminal, Other(t)
      PROVE  EditsFit'
  <2>1. /\ UNCHANGED <<index, manifest, planner>>
        /\ edit' = edit \/ edit' = [edit EXCEPT ![t] = NoEdit]
        /\ pc'[t] \notin IndexSteps /\ \A u \in Terminal \ {t} : pc'[u] = pc[u]
    BY <1>2, OtherFrame
  <2>2. Good' = Good
    BY <2>1 DEF Good
  <2>3. \A u \in Terminal : edit'[u] = edit[u] \/ (u = t /\ edit'[u] = NoEdit)
    BY <2>1 DEF SessionTyped, IndexTyped
  <2>4. NoEdit.copy = NoIndex /\ ActiveKnown(NoIndex) /\ Known(NoIndex) = {}
    BY BlankTyped DEF NoEdit
  <2>5. ASSUME NEW u \in Terminal
        PROVE  EditFits(u)'
    <3>1. EditFits(u)
      BY DEF EditsFit
    <3>2. CASE u = t
      BY <2>1, <2>2, <2>3, <2>4, <3>1, <3>2 DEF EditFits, IndexSteps
    <3>3. CASE u # t
      BY <2>1, <2>2, <2>3, <3>1, <3>3 DEF EditFits, IndexSteps
    <3>. QED  BY <3>2, <3>3
  <2>. QED  BY <2>5 DEF EditsFit
<1>3. CASE UNCHANGED vars
  BY <1>3 DEF vars, EditsFit, EditFits, Good, IndexSteps
<1>. QED  BY <1>1, <1>2, <1>3 DEF Next, Other

ListFits == ActiveKnown(index) /\ Known(index) \subseteq Good

LEMMA ListFitsListed == ListFits <=> ListedRunnable
BY DEF ListFits, ListedRunnable, ActiveKnown, Good, Known

LEMMA ListedStays ==
  ASSUME SessionTyped, EditsFit, ListedRunnable, [Next]_vars
  PROVE  ListedRunnable'
<1>0. ListFits
  BY ListFitsListed
<1>1. ASSUME NEW t \in Terminal, Workflows(t)
      PROVE  ListFits'
  <2>1. Good \subseteq Good'
    BY <1>1, IndexFrame DEF Workflows
  <2>2. CASE WriteIndex(t)
    <3>1. pc[t] = "write-index" /\ index' = Edited(edit[t])
      BY <2>2 DEF WriteIndex, Continues
    <3>2. ActiveKnown(index') /\ Known(index') \subseteq Good
      BY <3>1, EditedFits
    <3>. QED  BY <2>1, <3>2 DEF ListFits, ActiveKnown, Known
  <2>3. CASE ~WriteIndex(t)
    <3>1. index' = index
      BY <1>1, <2>3 DEF Workflows, IndexStep, InitWorkflow, SwitchWorkflow, RunWorkflow,
         Confirm, ReopenWorkflow, WriteNode, FinishWorkflowCycle, ReadIndex
    <3>. QED  BY <1>0, <2>1, <3>1 DEF ListFits, ActiveKnown, Known
  <2>. QED  BY <2>2, <2>3
<1>2. ASSUME NEW t \in Terminal, Other(t)
      PROVE  ListFits'
  BY <1>0, <1>2, OtherFrame DEF ListFits, ActiveKnown, Known, Good
<1>3. ASSUME UNCHANGED vars
      PROVE  ListFits'
  <2>1. index' = index /\ manifest' = manifest /\ planner' = planner
    BY <1>3 DEF vars
  <2>2. Good' = Good
    BY <2>1 DEF Good
  <2>. QED  BY <1>0, <2>1, <2>2 DEF ListFits, ActiveKnown, Known
<1>4. ASSUME Next
      PROVE  ListFits'
  <2>1. PICK t \in Terminal : Workflows(t) \/ Other(t)
    BY <1>4 DEF Next, Other
  <2>. QED  BY <1>1, <1>2, <2>1
<1>5. ListFits'
  BY <1>3, <1>4
<1>. QED  BY <1>5, ListFitsListed, PTL

-----------------------------------------------------------------------------
(* Processes that do not overlap *)

Step(t) == Workflows(t) \/ Other(t)

\* A step of one process leaves those of other terminals alone.
LEMMA StepFrame ==
  ASSUME SessionTyped, NEW t \in Terminal, Step(t), NEW u \in Terminal \ {t}
  PROVE  pc'[u] = pc[u] /\ mem'[u] = mem[u] /\ runtime'[u] = runtime[u]
<1>1. CASE Workflows(t)
  BY <1>1 DEF Workflows, SessionTyped, runtimeVars, Goto, IndexStep, InitWorkflow,
     SwitchWorkflow, RunWorkflow, Confirm, ReopenWorkflow, WriteNode,
     FinishWorkflowCycle, ReadIndex, WriteIndex
<1>2. CASE Other(t)
  <2>1. pc'[u] = pc[u]
    BY <1>2, OtherFrame
  <2>2. \/ mem' = mem \/ \E b : mem' = [mem EXCEPT ![t] = b]
        \/ \E r : mem' = [mem EXCEPT ![t].runs = r]
        \/ \E r : mem' = [mem EXCEPT ![t].attached = r]
    BY <1>2 DEF Other, Ends, Loading, LoadSession, LoadLastCycle, LoadRaises,
     Initializing, Initialize, Onboard, OnboardingEnds, WriteSnapshot, WriteConfig,
     Cycling, BeginCycle, ContinueRaises, CycleRaises, FinishCycle,
     SaveSnapshot, SaveSession, SaveLastCycle,
     Prompt, OpenSession, InputInformation, KeepSession, AttachRun,
     DetachRun, Quit, QuitSession, Interrupt, Kill
  <2>3. runtime' = runtime \/ \E f : runtime' = [runtime EXCEPT ![t] = f]
    BY <1>2 DEF Other, Ends, runtimeVars, Loading, LoadSession, LoadLastCycle, LoadRaises,
     Initializing, Initialize, Onboard, OnboardingEnds, WriteSnapshot, WriteConfig,
     Cycling, BeginCycle, ContinueRaises, CycleRaises, FinishCycle,
     SaveSnapshot, SaveSession, SaveLastCycle,
     Prompt, OpenSession, InputInformation, KeepSession, AttachRun,
     DetachRun, Quit, QuitSession, Interrupt, Kill
  <2>4. mem'[u] = mem[u]
    BY <2>2 DEF SessionTyped
  <2>5. runtime'[u] = runtime[u]
    BY <2>3 DEF SessionTyped
  <2>. QED  BY <2>1, <2>4, <2>5
<1>. QED  BY <1>1, <1>2 DEF Step

Opens(t) ==
  /\ overlap => overlap'
  /\ (pc[t] = "closed" /\ ~overlap') => \A u \in Terminal \ {t} : pc[u] = "closed"

LEMMA StepOpens ==
  ASSUME SessionTyped, NEW t \in Terminal, Step(t)
  PROVE  Opens(t)
<1>1. /\ Command(t) => Opens(t)
      /\ Given(t) => Opens(t)
      /\ OpenSession(t) => Opens(t)
      /\ (UNCHANGED overlap /\ pc[t] # "closed") => Opens(t)
  <2>1. (overlap' = (overlap \/ \E u \in Terminal \ {t} : pc[u] # "closed"))
          => Opens(t)
    BY Zenon DEF Opens
  <2>2. (UNCHANGED overlap /\ pc[t] # "closed") => Opens(t)
    BY DEF Opens
  <2>. QED  BY <2>1, <2>2 DEF Command, Given, OpenSession
<1>2. \A step : (step # "closed" /\ Continues(t, step)) => Opens(t)
  BY DEF Continues, Opens
<1>3. \A step : (step # "closed" /\ At(t, step)) => Opens(t)
  BY <1>2 DEF At
<1>4. (Ends(t) /\ pc[t] # "closed") => Opens(t)
  BY <1>1 DEF Ends
<1>5. CASE Workflows(t)
  BY <1>1, <1>2, <1>5 DEF Workflows, IndexStep, InitWorkflow,
     SwitchWorkflow, RunWorkflow, Confirm, ReopenWorkflow, WriteNode,
     FinishWorkflowCycle, ReadIndex, WriteIndex
<1>6. CASE Loading(t) \/ Initializing(t)
  BY <1>1, <1>3, <1>4, <1>6 DEF Loading, LoadSession, LoadLastCycle, LoadRaises,
     Initializing, Initialize, Onboard, OnboardingEnds, WriteSnapshot, WriteConfig
<1>7. CASE Cycling(t) \/ Prompt(t)
  BY <1>1, <1>3, <1>4, <1>7 DEF
     Cycling, BeginCycle, ContinueRaises, CycleRaises, FinishCycle,
     SaveSnapshot, SaveSession, SaveLastCycle,
     Prompt, InputInformation, KeepSession, AttachRun,
     DetachRun, Quit, QuitSession, Interrupt
<1>8. CASE Kill(t)
  BY <1>4, <1>8 DEF Kill, Busy
<1>. QED  BY <1>5, <1>6, <1>7, <1>8 DEF Step, Other

LEMMA StepAlone ==
  ASSUME SessionTyped, Solo, NEW t \in Terminal, Step(t), ~overlap'
  PROVE  ~overlap /\ \A u \in Terminal \ {t} : pc[u] = "closed" /\ pc'[u] = "closed"
<1>1. ~overlap /\ \A u \in Terminal \ {t} : pc[u] = "closed"
  BY StepOpens DEF Opens, Solo
<1>. QED  BY <1>1, StepFrame

LEMMA StaysSolo ==
  ASSUME SessionTyped, Solo, [Next]_vars
  PROVE  Solo'
<1>1. ASSUME NEW t \in Terminal, Step(t)
      PROVE  Solo'
  BY <1>1, StepAlone DEF Solo
<1>2. CASE UNCHANGED vars
  BY <1>2 DEF vars, Solo
<1>. QED  BY <1>1, <1>2 DEF Next, Step, Other

-----------------------------------------------------------------------------
(* The view *)

LEMMA ViewStays ==
  ASSUME SessionTyped, AttachedRunKnown, [Next]_vars
  PROVE  AttachedRunKnown'
<1>. DEFINE Fits(b) == b.attached \in b.runs \cup {Nil}
<1>0. /\ Fits(session.bundle) /\ Fits(DefaultSession)
      /\ \A u \in Terminal : Fits(mem[u])
  BY DEF AttachedRunKnown, DefaultSession
<1>1. ASSUME session'.bundle \in {session.bundle, DefaultSession} \cup {mem[u] : u \in Terminal},
             \A u \in Terminal : Fits(mem'[u])
      PROVE  AttachedRunKnown'
  BY <1>0, <1>1 DEF AttachedRunKnown
<1>2. ASSUME NEW t \in Terminal, Step(t)
      PROVE  AttachedRunKnown'
  <2>1. session'.bundle \in {session.bundle, DefaultSession} \cup {mem[u] : u \in Terminal}
    BY <1>2 DEF Step, Workflows, Other, Loading, LoadSession, LoadLastCycle, LoadRaises,
     Initializing, Initialize, Onboard, OnboardingEnds, WriteSnapshot, WriteConfig,
     Cycling, BeginCycle, ContinueRaises, CycleRaises, FinishCycle,
     SaveSnapshot, SaveSession, SaveLastCycle, Whole, Without, CutOffSaved,
     Prompt, OpenSession, InputInformation, KeepSession, AttachRun,
     DetachRun, Quit, QuitSession, Interrupt, Kill
  <2>2. Fits(mem'[t])
    <3>0. mem \in [Terminal -> Bundle] /\ mem[t] \in Bundle
      BY DEF SessionTyped
    <3>1. CASE UNCHANGED mem
      BY <1>0, <3>1
    <3>2. CASE \E b \in {DefaultSession, session.bundle} : mem' = [mem EXCEPT ![t] = b]
      BY <1>0, <3>0, <3>2
    <3>3. CASE LoadLastCycle(t)
      <4>1. [mem[t] EXCEPT !.runs = last.bundle.runs].attached = mem[t].attached
        BY <3>0 DEF Bundle
      <4>2. mem[t].runs = {} => mem[t].attached = Nil
        BY <1>0
      <4>3. CASE mem' = [mem EXCEPT ![t].runs = last.bundle.runs] /\ mem[t].runs = {}
        <5>1. mem'[t].attached = Nil
          BY <3>0, <4>1, <4>2, <4>3
        <5>. QED  BY <5>1
      <4>. QED  BY <1>0, <3>3, <4>3 DEF LoadLastCycle
    <3>4. CASE FinishCycle(t)
      BY <3>0, <3>4 DEF FinishCycle
    <3>5. ASSUME NEW r \in Run, AttachRun(t, r)
          PROVE  Fits(mem'[t])
      <4>1. mem'[t].attached = r /\ mem'[t].runs = mem[t].runs /\ r \in mem[t].runs
        BY <3>0, <3>5 DEF AttachRun, Bundle
      <4>. QED  BY <4>1
    <3>6. CASE DetachRun(t)
      <4>1. mem'[t].attached = Nil
        BY <3>0, <3>6 DEF DetachRun, Bundle
      <4>. QED  BY <4>1
    <3>7. CASE Workflows(t)
      BY <3>1, <3>7 DEF Workflows
    <3>8. CASE Loading(t)
      BY <3>1, <3>2, <3>3, <3>8 DEF Loading, LoadSession, LoadRaises, Ends
    <3>9. CASE Initializing(t)
      BY <3>1, <3>2, <3>9 DEF Initializing, Initialize, Onboard, OnboardingEnds,
         WriteSnapshot, WriteConfig, Ends
    <3>10. CASE Cycling(t)
      BY <3>1, <3>2, <3>4, <3>10 DEF Cycling, BeginCycle, ContinueRaises, CycleRaises,
         SaveSnapshot, SaveSession, SaveLastCycle, Ends
    <3>11. CASE Prompt(t)
      BY <3>1, <3>2, <3>5, <3>6, <3>11 DEF Prompt, OpenSession, InputInformation,
         KeepSession, Quit, QuitSession, Interrupt, Ends
    <3>12. CASE Kill(t)
      BY <3>2, <3>12 DEF Kill, Ends
    <3>. QED  BY <1>2, <3>7, <3>8, <3>9, <3>10, <3>11, <3>12 DEF Step, Other
  <2>3. \A u \in Terminal \ {t} : mem'[u] = mem[u]
    BY <1>2, StepFrame
  <2>. QED  BY <1>0, <1>1, <2>1, <2>2, <2>3
<1>3. CASE UNCHANGED vars
  BY <1>0, <1>1, <1>3 DEF vars
<1>. QED  BY <1>2, <1>3 DEF Next, Step, Other

-----------------------------------------------------------------------------
(* Snapshot and project config *)

WritesRuntime == {"write-config", "cycle", "save-snapshot"}

\* A process that is to write the snapshot or the config has a runtime; if
\* processes neither overlapped nor were killed, it is the one on disk.
RuntimeHeld ==
  /\ config # "absent" => snapshot # "absent"
  /\ \A t \in Terminal : /\ pc[t] \in WritesRuntime => runtime[t] # "absent"
                         /\ pc[t] = "write-config" => snapshot # "absent"
  /\ (~overlap /\ crashes = 0) =>
       \A t \in Terminal : pc[t] \in WritesRuntime => runtime[t] = snapshot

LEMMA RuntimeStays ==
  ASSUME SessionTyped, Solo, RuntimeHeld, RuntimeFits, [Next]_vars
  PROVE  RuntimeHeld' /\ RuntimeFits'
<1>1. ASSUME NEW t \in Terminal, Step(t)
      PROVE  RuntimeHeld' /\ RuntimeFits'
  <2>0. /\ crashes' # 0 \/ crashes' = crashes
        /\ \A u \in Terminal \ {t} : pc'[u] = pc[u] /\ runtime'[u] = runtime[u]
        /\ ~overlap' => ~overlap /\ \A u \in Terminal \ {t} : pc[u] = "closed"
    <3>1. crashes' # 0 \/ crashes' = crashes
      BY <1>1 DEF SessionTyped, Step, Workflows, Other, Loading, LoadSession, LoadLastCycle, LoadRaises,
     Initializing, Initialize, Onboard, OnboardingEnds, WriteSnapshot, WriteConfig,
     Cycling, BeginCycle, ContinueRaises, CycleRaises, FinishCycle,
     SaveSnapshot, SaveSession, SaveLastCycle,
     Prompt, OpenSession, InputInformation, KeepSession, AttachRun,
     DetachRun, Quit, QuitSession, Interrupt, Kill
    <3>. QED  BY <1>1, <3>1, StepFrame, StepAlone
  <2>1. \* What the step does to the two files and to its own runtime.
        \/ /\ UNCHANGED <<snapshot, config>> /\ runtime'[t] = runtime[t]
           /\ pc[t] # "write-config"
           /\ pc'[t] \in WritesRuntime => pc[t] = "cycle" /\ pc'[t] = "save-snapshot"
        \/ /\ UNCHANGED <<snapshot, config>> /\ pc'[t] = "closed"
           /\ pc[t] # "write-config"
        \/ /\ UNCHANGED <<snapshot, config>> /\ pc'[t] = "cycle"
           /\ pc[t] # "write-config"
           /\ runtime'[t] = snapshot /\ snapshot # "absent"
        \/ UNCHANGED <<snapshot, config>> /\ pc'[t] \notin WritesRuntime /\ pc[t] # "write-config"
        \/ /\ UNCHANGED config /\ snapshot' = runtime'[t] /\ pc'[t] = "write-config"
           /\ snapshot' # "absent"
        \/ /\ UNCHANGED snapshot /\ config' = runtime[t] /\ pc'[t] \notin WritesRuntime
           /\ pc[t] = "write-config"
        \/ /\ UNCHANGED config /\ snapshot' = runtime[t] /\ pc[t] = "save-snapshot"
           /\ pc'[t] = "save-session"
        \/ /\ crashes' # 0 /\ pc'[t] = "closed"
           /\ snapshot' = snapshot \/ snapshot' = "torn"
           /\ config' = config \/ (pc[t] = "write-config" /\ config' = "torn")
    <3>. USE DEF SessionTyped, Goto, Home, At, Given, Continues, Command, Ends,
             WritesRuntime, runtimeVars, Busy
    <3>1. CASE Workflows(t)
      <4>1. CASE \E w \in Workflow : InitWorkflow(t, w) \/ SwitchWorkflow(t, w)
        BY <3>1, <4>1 DEF Workflows, InitWorkflow, SwitchWorkflow
      <4>2. CASE RunWorkflow(t) \/ Confirm(t) \/ ReopenWorkflow(t)
        BY <3>1, <4>2 DEF Workflows, RunWorkflow, Confirm, ReopenWorkflow
      <4>3. CASE WriteNode(t) \/ FinishWorkflowCycle(t) \/ ReadIndex(t) \/ WriteIndex(t)
        BY <3>1, <4>3 DEF Workflows, WriteNode, FinishWorkflowCycle, ReadIndex, WriteIndex
      <4>. QED  BY <3>1, <4>1, <4>2, <4>3 DEF Workflows, IndexStep
    <3>2. CASE Loading(t)
      BY <3>2 DEF Loading, LoadSession, LoadLastCycle, LoadRaises
    <3>3. CASE Initializing(t)
      BY <3>3 DEF Initializing, Initialize, Onboard, OnboardingEnds, WriteSnapshot,
         WriteConfig, Layouts
    <3>4. CASE Cycling(t)
      BY <3>4 DEF Cycling, BeginCycle, ContinueRaises, CycleRaises, FinishCycle,
         SaveSnapshot, SaveSession, SaveLastCycle, Readable, Layouts
    <3>5. CASE Prompt(t)
      BY <3>5 DEF Prompt, OpenSession, InputInformation, KeepSession, AttachRun,
         DetachRun, Quit, QuitSession, Interrupt
    <3>6. CASE Kill(t)
      BY <3>6 DEF Kill
    <3>. QED  BY <1>1, <3>1, <3>2, <3>3, <3>4, <3>5, <3>6 DEF Step, Other
  <2>2. snapshot' # "absent" \/ snapshot' = snapshot
    BY <2>1 DEF RuntimeHeld, WritesRuntime
  <2>3. config' # "absent" => snapshot' # "absent"
    BY <2>1, <2>2 DEF RuntimeHeld
  <2>4. \A u \in Terminal : /\ pc'[u] \in WritesRuntime => runtime'[u] # "absent"
                            /\ pc'[u] = "write-config" => snapshot' # "absent"
    <3>1. /\ pc'[t] \in WritesRuntime => runtime'[t] # "absent"
          /\ pc'[t] = "write-config" => snapshot' # "absent"
      BY <2>1 DEF RuntimeHeld, WritesRuntime
    <3>2. ASSUME NEW u \in Terminal \ {t}
          PROVE  /\ pc'[u] \in WritesRuntime => runtime'[u] # "absent"
                 /\ pc'[u] = "write-config" => snapshot' # "absent"
      BY <2>0, <2>2 DEF RuntimeHeld
    <3>. QED  BY <3>1, <3>2
  <2>5. ASSUME ~overlap', crashes' = 0
        PROVE  /\ \A u \in Terminal : pc'[u] \in WritesRuntime => runtime'[u] = snapshot'
               /\ (\A u \in Terminal : pc'[u] # "write-config") => config' = snapshot'
    <3>1. ~overlap /\ crashes = 0 /\ \A u \in Terminal \ {t} : pc[u] = "closed" /\ pc'[u] = "closed"
      BY <2>0, <2>5
    <3>2. pc[t] \in WritesRuntime => runtime[t] = snapshot
      BY <3>1 DEF RuntimeHeld
    <3>3. pc[t] # "write-config" => config = snapshot
      BY <3>1 DEF RuntimeFits
    <3>4. pc'[t] \in WritesRuntime => runtime'[t] = snapshot'
      BY <2>1, <2>5, <3>2 DEF WritesRuntime
    <3>5. pc'[t] # "write-config" => config' = snapshot'
      BY <2>1, <2>5, <3>2, <3>3 DEF WritesRuntime
    <3>. QED  BY <3>1, <3>4, <3>5 DEF WritesRuntime
  <2>. QED  BY <2>3, <2>4, <2>5 DEF RuntimeHeld, RuntimeFits
<1>2. CASE UNCHANGED vars
  BY <1>2 DEF vars, RuntimeHeld, RuntimeFits
<1>. QED  BY <1>1, <1>2 DEF Next, Step, Other

-----------------------------------------------------------------------------
(* No workflow is lost *)

\* The copy a process is to write is the index, as long as it is alone.
CopyCurrent == ~overlap =>
  \A t \in Terminal : pc[t] = "write-index" => edit[t].copy = index

LEMMA CopyStays ==
  ASSUME SessionTyped, Solo, CopyCurrent, [Next]_vars
  PROVE  CopyCurrent'
<1>1. ASSUME NEW t \in Terminal, Step(t), ~overlap'
      PROVE  \A u \in Terminal : pc'[u] = "write-index" => edit'[u].copy = index'
  <2>0. \A u \in Terminal \ {t} : pc'[u] = "closed"
    BY <1>1, StepAlone
  <2>1. pc'[t] = "write-index" => edit'[t].copy = index'
    <3>1. CASE Workflows(t)
      <4>1. pc'[t] = "write-index" => ReadIndex(t)
        BY <3>1 DEF Workflows, IndexStep, InitWorkflow, SwitchWorkflow, RunWorkflow,
           Confirm, ReopenWorkflow, WriteNode, FinishWorkflowCycle, WriteIndex,
           Goto, Home, SessionTyped
      <4>2. ReadIndex(t) /\ pc'[t] = "write-index" => edit'[t].copy = index'
        <5>1. edit \in [Terminal -> Edit] /\ pc \in [Terminal -> Steps]
          BY DEF SessionTyped, IndexTyped
        <5>2. Home(t) # "write-index"
          BY DEF Home
        <5>. QED  BY <5>1, <5>2 DEF ReadIndex, Goto, Edit
      <4>. QED  BY <4>1, <4>2
    <3>2. CASE Other(t)
      BY <3>2, OtherFrame DEF IndexSteps
    <3>. QED  BY <1>1, <3>1, <3>2 DEF Step
  <2>. QED  BY <2>0, <2>1
<1>2. CASE UNCHANGED vars
  BY <1>2 DEF vars, CopyCurrent
<1>. QED  BY <1>1, <1>2 DEF Next, Step, Other, CopyCurrent

\* What WorkflowsKept says of a step.
Kept == ~overlap' =>
  /\ Known(index) \subseteq Known(index')
  /\ \A t \in Terminal :
       (pc[t] = "write-index" /\ pc'[t] # pc[t] /\ edit[t].op = "sync")
       => index'.active = index.active

LEMMA StepKeeps ==
  ASSUME SessionTyped, EditsFit, Solo, CopyCurrent, NEW t \in Terminal, Step(t), ~overlap'
  PROVE  /\ Known(index) \subseteq Known(index')
         /\ (pc[t] = "write-index" /\ edit[t].op = "sync") => index'.active = index.active
<1>1. CASE index' = index
  BY <1>1
<1>2. CASE WriteIndex(t)
  <2>1. /\ pc[t] = "write-index" /\ index' = Edited(edit[t])
        /\ edit[t].copy = index
    BY <1>2, StepAlone DEF WriteIndex, Continues, CopyCurrent
  <2>2. /\ edit[t] \in Edit /\ EditFits(t) /\ edit[t].workflow \in Workflow
        /\ index \in Index /\ index.status \in [Workflow -> Statuses \cup {"absent"}]
    BY <2>1 DEF SessionTyped, IndexTyped, EditsFit, EditFits, IndexSteps, Index
  <2>. DEFINE w == edit[t].workflow
  <2>3. CASE edit[t].op = "init"
    <3>1. index' = Registered(index, w)
      BY <2>1, <2>3 DEF Edited
    <3>2. Known(index) \subseteq Known(Registered(index, w))
      BY <2>2 DEF Known, Registered
    <3>. QED  BY <2>3, <3>1, <3>2
  <2>4. CASE edit[t].op = "switch"
    <3>1. index' = [index EXCEPT !.active = w]
      BY <2>1, <2>4 DEF Edited
    <3>2. index'.status = index.status
      BY <2>2, <3>1 DEF Index
    <3>. QED  BY <2>4, <3>2 DEF Known
  <2>5. CASE edit[t].op = "sync"
    <3>1. index' = Synced(index, w, edit[t].phase)
      BY <2>1, <2>5 DEF Edited
    <3>2. edit[t].phase \in {"complete", "failed", "running"}
      BY <2>1, <2>2, <2>5 DEF EditFits
    <3>3. /\ Known(Synced(index, w, edit[t].phase)) = Known(index)
          /\ Synced(index, w, edit[t].phase).active = index.active
      BY <2>2, <3>2 DEF Known, Synced, Index
    <3>. QED  BY <3>1, <3>3
  <2>. QED  BY <2>1, <2>2, <2>3, <2>4, <2>5 DEF EditFits, Edit
<1>3. index' = index \/ WriteIndex(t)
  <2>1. CASE Workflows(t)
    BY <2>1 DEF Workflows, IndexStep, InitWorkflow, SwitchWorkflow, RunWorkflow,
       Confirm, ReopenWorkflow, WriteNode, FinishWorkflowCycle, ReadIndex
  <2>2. CASE Other(t)
    BY <2>2, OtherFrame
  <2>. QED  BY <2>1, <2>2 DEF Step
<1>. QED  BY <1>1, <1>2, <1>3

LEMMA NextKept ==
  ASSUME SessionTyped, EditsFit, Solo, CopyCurrent, [Next]_vars
  PROVE  [Kept]_<<index, pc, overlap>>
<1>1. ASSUME NEW t \in Terminal, Step(t), ~overlap'
      PROVE  /\ Known(index) \subseteq Known(index')
             /\ \A u \in Terminal :
                  (pc[u] = "write-index" /\ pc'[u] # pc[u] /\ edit[u].op = "sync")
                  => index'.active = index.active
  <2>1. \A u \in Terminal : pc'[u] # pc[u] => u = t
    BY <1>1, StepFrame
  <2>. QED  BY <1>1, <2>1, StepKeeps
<1>2. CASE UNCHANGED vars
  BY <1>2 DEF vars
<1>. QED  BY <1>1, <1>2 DEF Next, Step, Other, Kept

-----------------------------------------------------------------------------
(* Session and last cycle *)

OnlySession == {"prompt", "load", "load-cycle", "onboard", "keep-session", "quit-session"}
Unloaded == {"load", "onboard", "build", "write-config"}
Saving == {"save-snapshot", "save-session", "save-cycle"}

\* The processes with a session in memory that they may save.
Holds(t) == pc[t] \in Saving \/ (t \in repl /\ pc[t] \notin Unloaded)

Placed == \A t \in Terminal :
  /\ pc[t] = "closed" => t \notin repl
  /\ pc[t] \in OnlySession => t \in repl

Numbered ==
  /\ session.bundle.cycle <= cycles /\ last.bundle.cycle <= cycles
  /\ \A t \in Terminal : mem[t].cycle <= cycles

SessionFirst ==
  /\ last.file = "whole" => session.file # "absent"
  /\ \A t \in Terminal : pc[t] = "save-cycle" => session.file # "absent"

MemoryCurrent == ~overlap =>
  \A t \in Terminal :
    /\ (Holds(t) /\ last.file = "whole") => mem[t].cycle >= last.bundle.cycle
    /\ pc[t] = "save-cycle" => session = Whole(mem[t])

\* Where a step may go, and who is in the session then.
Moves(t) ==
  \/ pc'[t] = pc[t] /\ repl' = repl /\ pc[t] \notin {"save-cycle"}
  \/ pc'[t] = "closed" /\ t \notin repl' /\ repl' \in {repl, repl \ {t}}
  \/ pc'[t] = "load" /\ repl' \in {repl, repl \cup {t}} /\ t \in repl'
  \/ /\ repl' = repl /\ pc[t] \in {"closed", "prompt"}
     /\ pc'[t] \in Steps \ (OnlySession \cup Saving \cup {"closed"})
     /\ t \in repl => pc'[t] \notin Unloaded
  \/ /\ repl' = repl /\ pc[t] \notin Unloaded /\ t \in repl
     /\ pc'[t] \in {"prompt", "keep-session", "quit-session"}
  \/ repl' = repl /\ pc[t] = "load" /\ pc'[t] \in {"onboard", "load-cycle"}
  \/ /\ repl' = repl /\ pc[t] \in Unloaded
     /\ pc'[t] \in {"build", "write-config"}
  \/ /\ repl' = repl /\ pc[t] \in IndexSteps \cup {"cycle"} \cup Saving
     /\ pc'[t] \in IndexSteps \cup Saving

LEMMA StepMoves ==
  ASSUME SessionTyped, Placed, NEW t \in Terminal, Step(t)
  PROVE  Moves(t)
<1>. USE DEF SessionTyped, Moves, Placed, Goto, Home, At, Given, Continues, Command,
         Ends, Busy, OnlySession, Unloaded, Saving, Steps, IndexSteps
<1>1. CASE Workflows(t)
  <2>1. CASE \E w \in Workflow : InitWorkflow(t, w) \/ SwitchWorkflow(t, w)
    BY <2>1 DEF InitWorkflow, SwitchWorkflow
  <2>2. CASE RunWorkflow(t) \/ Confirm(t) \/ ReopenWorkflow(t)
    BY <2>2 DEF RunWorkflow, Confirm, ReopenWorkflow
  <2>3. CASE WriteNode(t) \/ FinishWorkflowCycle(t) \/ ReadIndex(t) \/ WriteIndex(t)
    BY <2>3 DEF WriteNode, FinishWorkflowCycle, ReadIndex, WriteIndex
  <2>. QED  BY <1>1, <2>1, <2>2, <2>3 DEF Workflows, IndexStep
<1>2. CASE Loading(t)
  BY <1>2 DEF Loading, LoadSession, LoadLastCycle, LoadRaises
<1>3. CASE Initializing(t)
  BY <1>3 DEF Initializing, Initialize, Onboard, OnboardingEnds, WriteSnapshot, WriteConfig
<1>4. CASE Cycling(t)
  BY <1>4 DEF Cycling, BeginCycle, ContinueRaises, CycleRaises, FinishCycle,
     SaveSnapshot, SaveSession, SaveLastCycle
<1>5. CASE Prompt(t)
  <2>1. CASE OpenSession(t) \/ InputInformation(t) \/ KeepSession(t)
    BY <2>1 DEF OpenSession, InputInformation, KeepSession
  <2>2. CASE (\E r \in Run : AttachRun(t, r)) \/ DetachRun(t)
    BY <2>2 DEF AttachRun, DetachRun
  <2>3. CASE Quit(t) \/ QuitSession(t) \/ Interrupt(t)
    BY <2>3 DEF Quit, QuitSession, Interrupt
  <2>. QED  BY <1>5, <2>1, <2>2, <2>3 DEF Prompt
<1>6. CASE Kill(t)
  BY <1>6 DEF Kill
<1>. QED  BY <1>1, <1>2, <1>3, <1>4, <1>5, <1>6 DEF Step, Other

LEMMA StaysPlaced ==
  ASSUME SessionTyped, Placed, [Next]_vars
  PROVE  Placed'
<1>1. ASSUME NEW t \in Terminal, Step(t)
      PROVE  Placed'
  <2>1. Moves(t)
    BY <1>1, StepMoves
  <2>2. ASSUME NEW u \in Terminal \ {t}
        PROVE  pc'[u] = pc[u] /\ (u \in repl' <=> u \in repl)
    BY <1>1, <2>1, StepFrame DEF Moves
  <2>3. /\ pc'[t] = "closed" => t \notin repl'
        /\ pc'[t] \in OnlySession => t \in repl'
    BY <2>1 DEF Moves, Placed, OnlySession, Unloaded, Saving, Steps, IndexSteps
  <2>. QED  BY <2>2, <2>3 DEF Placed
<1>2. CASE UNCHANGED vars
  BY <1>2 DEF vars, Placed
<1>. QED  BY <1>1, <1>2 DEF Next, Step, Other

\* What a step does to session.json, last_cycle.json and its own memory.
Leaves(t) ==
  /\ session' = session /\ last' = last /\ cycles' = cycles
  /\ mem'[t].cycle = mem[t].cycle
  /\ pc'[t] # "save-cycle"
  /\ Holds(t)' => Holds(t)
Loads(t) ==
  /\ session' = session /\ last' = last /\ cycles' = cycles
  /\ mem'[t] = session.bundle
  /\ session.file # "torn" /\ pc'[t] = "load-cycle"
Cycles(t) ==
  /\ session' = session /\ last' = last /\ cycles' = cycles + 1
  /\ mem'[t].cycle = cycles + 1
  /\ pc'[t] \in {"save-session", "save-snapshot"}
Saves(t) ==
  /\ session' = Whole(mem[t]) /\ last' = last /\ cycles' = cycles
  /\ Holds(t)
  /\ \/ pc'[t] \in {"save-cycle", "prompt"} /\ mem' = mem
     \/ pc'[t] = "closed" /\ mem'[t] = DefaultSession
SavesCycle(t) ==
  /\ session' = session /\ cycles' = cycles /\ pc[t] = "save-cycle"
  /\ last' = Whole([mem[t] EXCEPT !.attached = Nil])
  /\ \/ pc'[t] = "prompt" /\ mem' = mem
     \/ pc'[t] = "closed" /\ mem'[t] = DefaultSession
Closes(t) ==
  /\ cycles' = cycles /\ pc'[t] = "closed" /\ mem'[t] = DefaultSession
  /\ session' \in {session, Without("torn")}
  /\ last' = last \/ (pc[t] = "save-cycle" /\ last' = Without("torn"))

LEMMA StepSaves ==
  ASSUME SessionTyped, Placed, NEW t \in Terminal, Step(t)
  PROVE  Leaves(t) \/ Loads(t) \/ Cycles(t) \/ Saves(t) \/ SavesCycle(t) \/ Closes(t)
<1>0. /\ mem \in [Terminal -> Bundle] /\ pc \in [Terminal -> Steps] /\ mem[t] \in Bundle
      /\ Home(t) = (IF t \in repl THEN "prompt" ELSE "closed")
      /\ t \in repl => pc[t] # "closed"
  BY DEF SessionTyped, Home, Placed
<1>. USE <1>0 DEF Goto, At, Given, Continues, Command,
         Ends, Busy, OnlySession, Unloaded, Saving, Holds, Placed
<1>1. CASE Workflows(t)
  <2>. USE DEF Leaves
  <2>1. CASE \E w \in Workflow : InitWorkflow(t, w) \/ SwitchWorkflow(t, w)
    BY <1>1, <2>1 DEF Workflows, InitWorkflow, SwitchWorkflow
  <2>2. CASE RunWorkflow(t) \/ Confirm(t) \/ ReopenWorkflow(t)
    BY <1>1, <2>2 DEF Workflows, RunWorkflow, Confirm, ReopenWorkflow
  <2>3. CASE WriteNode(t) \/ FinishWorkflowCycle(t) \/ ReadIndex(t) \/ WriteIndex(t)
    BY <1>1, <2>3 DEF Workflows, WriteNode, FinishWorkflowCycle, ReadIndex, WriteIndex
  <2>. QED  BY <1>1, <2>1, <2>2, <2>3 DEF Workflows, IndexStep
<1>2. CASE Loading(t)
  <2>1. CASE LoadSession(t)
    BY <2>1 DEF LoadSession, Leaves, Loads
  <2>2. CASE LoadLastCycle(t)
    <3>1. [mem[t] EXCEPT !.runs = last.bundle.runs].cycle = mem[t].cycle
      BY DEF Bundle
    <3>2. mem'[t].cycle = mem[t].cycle
      BY <2>2, <3>1 DEF LoadLastCycle
    <3>. QED  BY <2>2, <3>2 DEF LoadLastCycle, Leaves
  <2>3. CASE LoadRaises(t)
    BY <2>3 DEF LoadRaises, Closes
  <2>. QED  BY <1>2, <2>1, <2>2, <2>3 DEF Loading
<1>3. CASE Initializing(t)
  BY <1>3 DEF Initializing, Initialize, Onboard, OnboardingEnds, WriteSnapshot,
     WriteConfig, Leaves, Closes
<1>4. CASE Cycling(t)
  <2>1. CASE BeginCycle(t) \/ SaveSnapshot(t)
    BY <2>1 DEF BeginCycle, SaveSnapshot, Leaves
  <2>2. CASE ContinueRaises(t) \/ CycleRaises(t)
    BY <2>2 DEF ContinueRaises, CycleRaises, Closes
  <2>3. CASE FinishCycle(t)
    <3>1. mem'[t].cycle = cycles + 1
      BY <2>3 DEF FinishCycle
    <3>. QED  BY <2>3, <3>1 DEF FinishCycle, Cycles
  <2>4. CASE SaveSession(t)
    BY <2>4 DEF SaveSession, Saves
  <2>5. CASE SaveLastCycle(t)
    BY <2>5 DEF SaveLastCycle, SavesCycle
  <2>. QED  BY <1>4, <2>1, <2>2, <2>3, <2>4, <2>5 DEF Cycling
<1>5. CASE Prompt(t)
  <2>1. CASE OpenSession(t) \/ InputInformation(t) \/ Quit(t)
    BY <2>1 DEF OpenSession, InputInformation, Quit, Leaves
  <2>2. CASE KeepSession(t) \/ QuitSession(t)
    BY <2>2 DEF KeepSession, QuitSession, Saves
  <2>3. CASE (\E r \in Run : AttachRun(t, r)) \/ DetachRun(t)
    <3>1. \A r : [mem[t] EXCEPT !.attached = r].cycle = mem[t].cycle
      BY DEF Bundle
    <3>2. mem'[t].cycle = mem[t].cycle
      BY <2>3, <3>1 DEF AttachRun, DetachRun
    <3>. QED  BY <2>3, <3>2 DEF AttachRun, DetachRun, Leaves
  <2>4. CASE Interrupt(t)
    BY <2>4 DEF Interrupt, Closes
  <2>. QED  BY <1>5, <2>1, <2>2, <2>3, <2>4 DEF Prompt
<1>6. CASE Kill(t)
  BY <1>6 DEF Kill, CutOffSaved, Closes
<1>. QED  BY <1>1, <1>2, <1>3, <1>4, <1>5, <1>6 DEF Step, Other

LEMMA StepCurrent ==
  ASSUME SessionTyped, SessionTyped', Placed, Placed', Solo, Numbered, SessionFirst,
         MemoryCurrent, SessionCurrent, NEW t \in Terminal, Step(t)
  PROVE  Numbered' /\ SessionFirst' /\ MemoryCurrent' /\ SessionCurrent'
<1>0. /\ session \in Saved /\ last \in Saved /\ session.bundle \in Bundle /\ last.bundle \in Bundle
      /\ \A u \in Terminal : mem[u] \in Bundle /\ mem[u].cycle \in Nat
      /\ session.bundle.cycle \in Nat /\ last.bundle.cycle \in Nat /\ cycles \in Nat
      /\ DefaultSession.cycle = 0
      /\ \A b : Whole(b).file = "whole" /\ Whole(b).bundle = b
      /\ Without("torn").file = "torn" /\ Without("torn").bundle = DefaultSession
      /\ [mem[t] EXCEPT !.attached = Nil].cycle = mem[t].cycle
  BY DEF SessionTyped, Saved, Bundle, Whole, Without, DefaultSession
<1>1. /\ Leaves(t) \/ Loads(t) \/ Cycles(t) \/ Saves(t) \/ SavesCycle(t) \/ Closes(t)
      /\ \A u \in Terminal \ {t} : pc'[u] = pc[u] /\ mem'[u] = mem[u]
      /\ ~overlap' => ~overlap /\ \A u \in Terminal \ {t} : pc'[u] = "closed"
  BY StepSaves, StepFrame, StepAlone
<1>2. Numbered' /\ SessionFirst'
  <2>1. /\ session'.bundle.cycle <= cycles' /\ last'.bundle.cycle <= cycles'
        /\ mem'[t].cycle <= cycles' /\ cycles <= cycles'
        /\ last'.file = "whole" => session'.file # "absent"
        /\ session.file # "absent" => session'.file # "absent"
        /\ pc'[t] = "save-cycle" => session'.file # "absent"
    <3>0. /\ session.bundle.cycle <= cycles /\ last.bundle.cycle <= cycles
          /\ mem[t].cycle <= cycles
          /\ last.file = "whole" => session.file # "absent"
          /\ pc[t] = "save-cycle" => session.file # "absent"
      BY DEF Numbered, SessionFirst
    <3>1. CASE Leaves(t)
      BY <1>0, <3>0, <3>1 DEF Leaves
    <3>2. CASE Loads(t)
      BY <1>0, <3>0, <3>2 DEF Loads
    <3>3. CASE Cycles(t)
      BY <1>0, <3>0, <3>3 DEF Cycles
    <3>4. CASE Saves(t)
      BY <1>0, <3>0, <3>4 DEF Saves
    <3>5. CASE SavesCycle(t)
      <4>1. /\ session' = session /\ last'.bundle.cycle = mem[t].cycle
            /\ cycles' = cycles /\ session.file # "absent"
        BY <1>0, <3>0, <3>5 DEF SavesCycle
      <4>2. mem'[t].cycle \in {mem[t].cycle, 0}
        BY <1>0, <3>5 DEF SavesCycle
      <4>. QED  BY <1>0, <3>0, <4>1, <4>2
    <3>6. CASE Closes(t)
      BY <1>0, <3>0, <3>6 DEF Closes
    <3>. QED  BY <1>1, <3>1, <3>2, <3>3, <3>4, <3>5, <3>6
  <2>2. cycles' \in Nat
    BY DEF SessionTyped
  <2>3. \A u \in Terminal \ {t} : /\ mem'[u].cycle <= cycles'
                                  /\ pc'[u] = "save-cycle" => session'.file # "absent"
    BY <1>0, <1>1, <2>1, <2>2 DEF Numbered, SessionFirst
  <2>. QED  BY <2>1, <2>3 DEF Numbered, SessionFirst
<1>4. ASSUME ~overlap'
      PROVE  /\ \A u \in Terminal :
                  /\ (Holds(u)' /\ last'.file = "whole") => mem'[u].cycle >= last'.bundle.cycle
                  /\ pc'[u] = "save-cycle" => session' = Whole(mem'[u])
             /\ (session'.file = "whole" /\ last'.file = "whole")
                  => session'.bundle.cycle >= last'.bundle.cycle
  <2>0. /\ (Holds(t) /\ last.file = "whole") => mem[t].cycle >= last.bundle.cycle
        /\ pc[t] = "save-cycle" => session = Whole(mem[t])
        /\ (session.file = "whole" /\ last.file = "whole")
                  => session.bundle.cycle >= last.bundle.cycle
        /\ last.file = "whole" => session.file # "absent"
        /\ session.file \in {"absent", "torn", "whole"}
        /\ last.bundle.cycle <= cycles
    BY <1>1, <1>4 DEF MemoryCurrent, SessionCurrent, SessionFirst, Numbered, SessionTyped, Saved
  <2>1. \A u \in Terminal \ {t} : pc'[u] = "closed" /\ ~Holds(u)'
    BY <1>1, <1>4 DEF Placed, Holds, Saving
  <2>2. pc'[t] = "closed" => ~Holds(t)'
    BY DEF Placed, Holds, Saving
  <2>3. /\ (Holds(t)' /\ last'.file = "whole") => mem'[t].cycle >= last'.bundle.cycle
        /\ pc'[t] = "save-cycle" => session' = Whole(mem'[t])
        /\ (session'.file = "whole" /\ last'.file = "whole")
                  => session'.bundle.cycle >= last'.bundle.cycle
    <3>1. CASE Leaves(t)
      <4>1. Holds(t)' => Holds(t)
        BY <3>1 DEF Leaves
      <4>2. /\ session' = session /\ last' = last /\ mem'[t].cycle = mem[t].cycle
            /\ pc'[t] # "save-cycle"
        BY <3>1 DEF Leaves
      <4>. QED  BY <2>0, <4>1, <4>2
    <3>2. CASE Loads(t)
      BY <1>0, <2>0, <3>2 DEF Loads
    <3>3. CASE Cycles(t)
      BY <1>0, <2>0, <3>3 DEF Cycles
    <3>4. CASE Saves(t)
      BY <1>0, <2>0, <2>2, <3>4 DEF Saves
    <3>5. CASE SavesCycle(t)
      <4>1. /\ session' = Whole(mem[t]) /\ last'.bundle.cycle = mem[t].cycle
            /\ session'.bundle.cycle = mem[t].cycle
        BY <1>0, <2>0, <3>5 DEF SavesCycle
      <4>2. pc'[t] # "save-cycle" /\ (pc'[t] = "closed" \/ mem' = mem)
        BY <3>5 DEF SavesCycle
      <4>. QED  BY <1>0, <2>2, <4>1, <4>2
    <3>6. CASE Closes(t)
      BY <1>0, <2>0, <2>2, <3>6 DEF Closes
    <3>. QED  BY <1>1, <3>1, <3>2, <3>3, <3>4, <3>5, <3>6
  <2>. QED  BY <2>1, <2>3
<1>. QED  BY <1>2, <1>4 DEF MemoryCurrent, SessionCurrent

LEMMA CurrentStays ==
  ASSUME SessionTyped, SessionTyped', Placed, Placed', Solo, Numbered, SessionFirst,
         MemoryCurrent, SessionCurrent, [Next]_vars
  PROVE  Numbered' /\ SessionFirst' /\ MemoryCurrent' /\ SessionCurrent'
<1>1. ASSUME NEW t \in Terminal, Step(t)
      PROVE  Numbered' /\ SessionFirst' /\ MemoryCurrent' /\ SessionCurrent'
  BY <1>1, StepCurrent
<1>2. CASE UNCHANGED vars
  BY <1>2 DEF vars, Numbered, SessionFirst, MemoryCurrent, SessionCurrent, Holds
<1>. QED  BY <1>1, <1>2 DEF Next, Step, Other

-----------------------------------------------------------------------------
(* The invariant *)

SessionInv ==
  /\ SessionTyped /\ EditsFit /\ ListedRunnable
  /\ Solo /\ AttachedRunKnown
  /\ RuntimeHeld /\ RuntimeFits
  /\ CopyCurrent
  /\ Placed /\ Numbered /\ SessionFirst /\ MemoryCurrent /\ SessionCurrent

LEMMA InitFits == Init => SessionInv
<1>. SUFFICES ASSUME Init PROVE SessionInv
  OBVIOUS
<1>1. SessionTyped
  BY BlankTyped DEF Init, IndexInit, SessionTyped, IndexTyped, Steps, Files, Saved,
     Without, Phases
<1>2. EditsFit
  BY BlankTyped DEF Init, IndexInit, EditsFit, EditFits, NoEdit, IndexSteps
<1>3. ListedRunnable
  BY BlankTyped DEF Init, IndexInit, ListedRunnable, ActiveKnown
<1>4. Solo /\ CopyCurrent /\ Placed
  BY DEF Init, Solo, CopyCurrent, Placed, OnlySession
<1>5. RuntimeHeld /\ RuntimeFits
  BY DEF Init, RuntimeHeld, RuntimeFits, WritesRuntime
<1>6. AttachedRunKnown
  BY DEF Init, AttachedRunKnown, Without, DefaultSession
<1>7. Numbered /\ SessionFirst /\ SessionCurrent
  BY DEF Init, Numbered, SessionFirst, SessionCurrent, Without, DefaultSession
<1>8. MemoryCurrent
  BY DEF Init, MemoryCurrent, Without
<1>. QED  BY <1>1, <1>2, <1>3, <1>4, <1>5, <1>6, <1>7, <1>8 DEF SessionInv

LEMMA NextKeeps == SessionInv /\ [Next]_vars => SessionInv'
<1>. SUFFICES ASSUME SessionInv, [Next]_vars PROVE SessionInv'
  OBVIOUS
<1>0. /\ SessionTyped /\ EditsFit /\ ListedRunnable
      /\ Solo /\ AttachedRunKnown
      /\ RuntimeHeld /\ RuntimeFits
      /\ CopyCurrent
      /\ Placed /\ Numbered /\ SessionFirst /\ MemoryCurrent /\ SessionCurrent
  BY DEF SessionInv
<1>1. SessionTyped'
  BY <1>0, StepTyped
<1>2. EditsFit' /\ ListedRunnable'
  BY <1>0, <1>1, EditsKeepFitting, ListedStays
<1>3. Solo' /\ CopyCurrent' /\ Placed'
  BY <1>0, StaysSolo, CopyStays, StaysPlaced
<1>4. AttachedRunKnown' /\ RuntimeHeld' /\ RuntimeFits'
  BY <1>0, ViewStays, RuntimeStays
<1>5. Numbered' /\ SessionFirst' /\ MemoryCurrent' /\ SessionCurrent'
  BY <1>0, <1>1, <1>3, CurrentStays
<1>. QED  BY <1>1, <1>2, <1>3, <1>4, <1>5 DEF SessionInv

LEMMA InvHolds == Spec => []SessionInv
BY InitFits, NextKeeps, PTL DEF Spec

(* Every variable keeps its type, whatever the interleaving of processes.  *)
THEOREM SessionTypeCorrect == Spec => []SessionTyped
BY InvHolds, PTL DEF SessionInv

(* For any number of terminals, commands and kills, a workflow the index   *)
(* lists, the active one among them, has its manifest and its planner node *)
(* (_init_workflow and the writers of the index).                          *)
THEOREM ListedStayRunnable == Spec => []ListedRunnable
BY InvHolds, PTL DEF SessionInv

(* A view is only ever attached to a run that is beside it, in memory and  *)
(* in session.json (execute_continue, persist_session_bundle).             *)
THEOREM ViewFits == Spec => []AttachedRunKnown
BY InvHolds, PTL DEF SessionInv

(* A project config never stands without a snapshot, and both are for the  *)
(* same projects (initialize_project).                                     *)
THEOREM RuntimeConsistent == Spec => []RuntimeFits
BY InvHolds, PTL DEF SessionInv

(* Without overlapping processes the saved session has seen the last cycle *)
(* that was saved, whoever was killed (persist_session_bundle).            *)
THEOREM SessionStaysCurrent == Spec => []SessionCurrent
BY InvHolds, PTL DEF SessionInv

(* Without overlapping processes no command loses a workflow, and only wf  *)
(* init and wf switch change the active one.                               *)
THEOREM NoWorkflowLost == Spec => WorkflowsKept
<1>1. SessionInv /\ [Next]_vars => [Kept]_<<index, pc, overlap>>
  BY NextKept DEF SessionInv
<1>2. Spec => [][Kept]_<<index, pc, overlap>>
  BY <1>1, InvHolds, PTL DEF Spec
<1>. QED  BY <1>2 DEF WorkflowsKept, Kept
=============================================================================
