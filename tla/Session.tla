------------------------------ MODULE Session ------------------------------
(***************************************************************************)
(* The devforge processes of a user: the interactive session (repl.py,     *)
(* run_interactive_session) and the commands init, snapshot and wf         *)
(* (main.py), over the files of one .devforge directory.  Each process     *)
(* works on what it read when it started; snapshot, project config,        *)
(* session and last cycle are written in place, one after the other, so a  *)
(* process that is killed may leave one of them cut off, or the next one   *)
(* unwritten.  What a cycle does to the snapshot is SnapshotCycle's.       *)
(***************************************************************************)
EXTENDS WorkflowIndex

CONSTANTS
  Run,       \* execution ids of a cycle's dispatches, "executor:package"
  MaxCycles  \* bound: cycles in all

ASSUME SessionAssumption == Nil \notin Run /\ MaxCycles \in Nat

VARIABLES
  snapshot,   \* devforge.snapshot.json
  config,     \* devforge.project_config.json
  session,    \* session.json
  last,       \* last_cycle.json
  mem,        \* session, runs and view in each process's memory
  runtime,    \* the snapshot each process writes or read
  cycles,     \* cycles completed so far
  crashes     \* processes killed so far

runtimeVars == <<snapshot, config, runtime>>
vars == <<pc, repl, commands, overlap, index, manifest, planner, edit,
          snapshot, config, session, last, mem, runtime, cycles, crashes>>

\* What init makes of the directory: one project, one business project with
\* several surfaces, or a guardian with a project for each repository.
Layouts == {"project", "business", "workspace"}
Files == Layouts \cup {"absent", "torn"}

\* cycle is the one the session state was made of, 0 for the default.
Bundle == [cycle : Nat, runs : SUBSET Run, attached : Run \cup {Nil}]
Saved == [file : {"absent", "torn", "whole"}, bundle : Bundle]

DefaultSession == [cycle |-> 0, runs |-> {}, attached |-> Nil]
Whole(b) == [file |-> "whole", bundle |-> b]
Without(word) == [file |-> word, bundle |-> DefaultSession]

Steps == {"closed", "prompt", "write-node", "read-index", "write-index",
          "wf-cycle", "load", "load-cycle", "onboard", "build",
          "write-config", "cycle", "save-snapshot", "save-session",
          "save-cycle", "keep-session", "quit-session"}

\* The process ends and drops what it has in memory.
Ends(t) ==
  /\ Goto(t, "closed")
  /\ repl' = repl \ {t}
  /\ edit' = [edit EXCEPT ![t] = NoEdit]
  /\ mem' = [mem EXCEPT ![t] = DefaultSession]
  /\ runtime' = [runtime EXCEPT ![t] = "absent"]
  /\ UNCHANGED <<commands, overlap, index, manifest, planner>>

At(t, step) == Continues(t, step) /\ UNCHANGED indexVars
Given(t) == Command(t) /\ UNCHANGED indexVars

OpenSession(t) ==
  /\ ~Busy(t) /\ t \notin repl
  /\ commands < MaxCommands
  /\ commands' = commands + 1
  /\ overlap' = (overlap \/ \E u \in Terminal \ {t} : pc[u] # "closed")
  /\ repl' = repl \cup {t}
  /\ Goto(t, "load")
  /\ UNCHANGED <<indexVars, runtimeVars, session, last, mem, cycles, crashes>>

\* load_session_bundle; a file cut off raises what _load_or_onboard_runtime
\* does not catch.
LoadSession(t) ==
  /\ At(t, "load")
  /\ snapshot = "absent" \/ (snapshot # "torn" /\ session.file # "torn")
  /\ IF snapshot = "absent"
       THEN Goto(t, "onboard") /\ UNCHANGED mem
       ELSE Goto(t, "load-cycle") /\ mem' = [mem EXCEPT ![t] = session.bundle]
  /\ UNCHANGED <<runtimeVars, session, last, cycles, crashes>>

LoadLastCycle(t) ==
  /\ At(t, "load-cycle") /\ last.file # "torn"
  /\ mem' = IF mem[t].runs = {} /\ last.file = "whole"
              THEN [mem EXCEPT ![t].runs = last.bundle.runs]
              ELSE mem
  /\ Goto(t, "prompt")
  /\ UNCHANGED <<runtimeVars, session, last, cycles, crashes>>

LoadRaises(t) ==
  /\ \/ pc[t] = "load"
        /\ (snapshot = "torn" \/ (snapshot # "absent" /\ session.file = "torn"))
     \/ pc[t] = "load-cycle" /\ last.file = "torn"
  /\ Ends(t)
  /\ UNCHANGED <<snapshot, config, session, last, cycles, crashes>>

Exists(f) == f # "absent"

\* initialize_project, as a command or chosen in the onboarding dialogue:
\* it looks for the files, asks a model how to lay the runtime out, and
\* then writes both.
Initialize(t, force) ==
  /\ Given(t) /\ t \notin repl
  /\ force \/ ~(Exists(snapshot) \/ Exists(config))
  /\ Goto(t, "build")
  /\ UNCHANGED <<runtimeVars, session, last, mem, cycles, crashes>>

Onboard(t) ==
  /\ At(t, "onboard")
  /\ ~(Exists(snapshot) \/ Exists(config))
  /\ Goto(t, "build")
  /\ UNCHANGED <<runtimeVars, session, last, mem, cycles, crashes>>

\* The user leaves the dialogue, or the files have appeared meanwhile and
\* FileExistsError ends the session.
OnboardingEnds(t) ==
  /\ pc[t] = "onboard"
  /\ Ends(t)
  /\ UNCHANGED <<snapshot, config, session, last, cycles, crashes>>

\* Mutated: the config is written before the snapshot.
WriteSnapshot_configFirst(t) ==
  /\ At(t, "build")
  /\ \E layout \in Layouts : /\ config' = layout
                             /\ runtime' = [runtime EXCEPT ![t] = layout]
  /\ Goto(t, "write-config")
  /\ UNCHANGED <<snapshot, session, last, mem, cycles, crashes>>

WriteSnapshot(t) ==
  /\ At(t, "build")
  /\ \E layout \in Layouts : /\ snapshot' = layout
                             /\ runtime' = [runtime EXCEPT ![t] = layout]
  /\ Goto(t, "write-config")
  /\ UNCHANGED <<config, session, last, mem, cycles, crashes>>

WriteConfig(t) ==
  /\ At(t, "write-config")
  /\ config' = runtime[t]
  /\ runtime' = [runtime EXCEPT ![t] = "absent"]
  /\ Goto(t, IF t \in repl THEN "load" ELSE "closed")
  /\ UNCHANGED <<snapshot, session, last, mem, cycles, crashes>>

\* continue in the session; the command snapshot may do without a config.
Readable(f) == f \in Layouts

BeginCycle(t) ==
  /\ Given(t)
  /\ Readable(snapshot)
  /\ t \in repl => Readable(config)
  /\ cycles < MaxCycles
  /\ runtime' = [runtime EXCEPT ![t] = snapshot]
  /\ Goto(t, "cycle")
  /\ UNCHANGED <<snapshot, config, session, last, mem, cycles, crashes>>

\* continue without a snapshot or config to read ends the session.
ContinueRaises(t) ==
  /\ pc[t] = "prompt"
  /\ ~(Readable(snapshot) /\ Readable(config))
  /\ Ends(t)
  /\ UNCHANGED <<snapshot, config, session, last, cycles, crashes>>

CycleRaises(t) ==
  /\ pc[t] = "cycle"
  /\ Ends(t)
  /\ UNCHANGED <<snapshot, config, session, last, cycles, crashes>>

\* Mutated: the view is not reset.
FinishCycle_keepsView(t) ==
  /\ At(t, "cycle")
  /\ cycles < MaxCycles
  /\ cycles' = cycles + 1
  /\ \E runs \in SUBSET Run :
       mem' = [mem EXCEPT ![t] = [cycle |-> cycles + 1, runs |-> runs,
                                  attached |-> mem[t].attached]]
  /\ Goto(t, IF t \in repl THEN "save-session" ELSE "save-snapshot")
  /\ UNCHANGED <<runtimeVars, session, last, crashes>>

\* Mutated: continue leaves the session to be saved by quit.
FinishCycle_lastCycleOnly(t) ==
  /\ At(t, "cycle")
  /\ cycles < MaxCycles
  /\ cycles' = cycles + 1
  /\ \E runs \in SUBSET Run :
       mem' = [mem EXCEPT ![t] = [cycle |-> cycles + 1, runs |-> runs,
                                  attached |-> Nil]]
  /\ Goto(t, IF t \in repl THEN "save-cycle" ELSE "save-snapshot")
  /\ UNCHANGED <<runtimeVars, session, last, crashes>>

\* execute_continue makes session and runs anew of the result; the view
\* goes back to the main one.  continue does not write the snapshot.
FinishCycle(t) ==
  /\ At(t, "cycle")
  /\ cycles < MaxCycles
  /\ cycles' = cycles + 1
  /\ \E runs \in SUBSET Run :
       mem' = [mem EXCEPT ![t] = [cycle |-> cycles + 1, runs |-> runs,
                                  attached |-> Nil]]
  /\ Goto(t, IF t \in repl THEN "save-session" ELSE "save-snapshot")
  /\ UNCHANGED <<runtimeVars, session, last, crashes>>

SaveSnapshot(t) ==
  /\ At(t, "save-snapshot")
  /\ snapshot' = runtime[t]
  /\ Goto(t, "save-session")
  /\ UNCHANGED <<config, session, last, mem, runtime, cycles, crashes>>

\* persist_session_bundle: session.json first, last_cycle.json when there
\* was a cycle.
SaveSession(t) ==
  /\ At(t, "save-session")
  /\ session' = Whole(mem[t])
  /\ Goto(t, "save-cycle")
  /\ UNCHANGED <<runtimeVars, last, mem, cycles, crashes>>

SaveLastCycle(t) ==
  /\ At(t, "save-cycle")
  /\ last' = Whole([mem[t] EXCEPT !.attached = Nil])
  /\ runtime' = [runtime EXCEPT ![t] = "absent"]
  /\ mem' = IF t \in repl THEN mem ELSE [mem EXCEPT ![t] = DefaultSession]
  /\ Goto(t, Home(t))
  /\ UNCHANGED <<snapshot, config, session, cycles, crashes>>

\* Text that is no command is not used, but the session is saved.
InputInformation(t) ==
  /\ Given(t) /\ t \in repl
  /\ Goto(t, "keep-session")
  /\ UNCHANGED <<runtimeVars, session, last, mem, cycles, crashes>>

KeepSession(t) ==
  /\ At(t, "keep-session")
  /\ session' = Whole(mem[t])
  /\ Goto(t, "prompt")
  /\ UNCHANGED <<runtimeVars, last, mem, cycles, crashes>>

AttachRun(t, r) ==
  /\ At(t, "prompt")
  /\ r \in mem[t].runs
  /\ mem' = [mem EXCEPT ![t].attached = r]
  /\ UNCHANGED <<pc, runtimeVars, session, last, cycles, crashes>>

DetachRun(t) ==
  /\ At(t, "prompt")
  /\ mem' = [mem EXCEPT ![t].attached = Nil]
  /\ UNCHANGED <<pc, runtimeVars, session, last, cycles, crashes>>

\* quit, or the end of the input.
Quit(t) ==
  /\ At(t, "prompt")
  /\ Goto(t, "quit-session")
  /\ UNCHANGED <<runtimeVars, session, last, mem, cycles, crashes>>

QuitSession(t) ==
  /\ pc[t] = "quit-session"
  /\ session' = Whole(mem[t])
  /\ Ends(t)
  /\ UNCHANGED <<snapshot, config, last, cycles, crashes>>

\* Ctrl-C at the prompt is not caught: nothing is saved.
Interrupt(t) ==
  /\ pc[t] = "prompt"
  /\ Ends(t)
  /\ UNCHANGED <<snapshot, config, session, last, cycles, crashes>>

\* A process is killed; a file that write_text was writing is cut off.
CutOffSaved(t, steps, f) == f' = f \/ (pc[t] \in steps /\ f' = Without("torn"))

Kill(t) ==
  /\ Busy(t) /\ crashes < MaxCrashes
  /\ crashes' = crashes + 1
  /\ snapshot' = snapshot
       \/ (pc[t] \in {"build", "save-snapshot"} /\ snapshot' = "torn")
  /\ config' = config \/ (pc[t] = "write-config" /\ config' = "torn")
  /\ CutOffSaved(t, {"save-session", "keep-session", "quit-session"}, session)
  /\ CutOffSaved(t, {"save-cycle"}, last)
  /\ Ends(t)
  /\ UNCHANGED cycles

Init ==
  /\ pc = [t \in Terminal |-> "closed"]
  /\ repl = {}
  /\ commands = 0
  /\ overlap = FALSE
  /\ IndexInit
  /\ snapshot = "absent" /\ config = "absent"
  /\ session = Without("absent") /\ last = Without("absent")
  /\ mem = [t \in Terminal |-> DefaultSession]
  /\ runtime = [t \in Terminal |-> "absent"]
  /\ cycles = 0 /\ crashes = 0

Workflows(t) ==
  IndexStep(t) /\ UNCHANGED <<runtimeVars, session, last, mem, cycles, crashes>>

Loading(t) == LoadSession(t) \/ LoadLastCycle(t) \/ LoadRaises(t)

Initializing(t) ==
  \/ \E force \in BOOLEAN : Initialize(t, force)
  \/ Onboard(t) \/ OnboardingEnds(t) \/ WriteSnapshot(t) \/ WriteConfig(t)

Cycling(t) ==
  \/ BeginCycle(t) \/ ContinueRaises(t) \/ CycleRaises(t) \/ FinishCycle(t)
  \/ SaveSnapshot(t) \/ SaveSession(t) \/ SaveLastCycle(t)

Prompt(t) ==
  \/ OpenSession(t) \/ InputInformation(t) \/ KeepSession(t)
  \/ \E r \in Run : AttachRun(t, r)
  \/ DetachRun(t) \/ Quit(t) \/ QuitSession(t) \/ Interrupt(t)

Next == \E t \in Terminal :
  Workflows(t) \/ Loading(t) \/ Initializing(t) \/ Cycling(t) \/ Prompt(t)
    \/ Kill(t)

Spec == Init /\ [][Next]_vars
-----------------------------------------------------------------------------
SessionTyped ==
  /\ IndexTyped
  /\ pc \in [Terminal -> Steps]
  /\ repl \subseteq Terminal
  /\ commands \in Nat /\ overlap \in BOOLEAN
  /\ snapshot \in Files /\ config \in Files
  /\ session \in Saved /\ last \in Saved
  /\ mem \in [Terminal -> Bundle]
  /\ runtime \in [Terminal -> Layouts \cup {"absent"}]
  /\ cycles \in Nat /\ crashes \in Nat

(* The run the view is attached to is one of the runs beside it, in each   *)
(* process and in session.json, whichever process saved it last: the runs  *)
(* are replaced by every cycle, and rebuilt from last_cycle.json when a    *)
(* session has none.                                                       *)
AttachedRunKnown ==
  \A b \in {session.bundle} \cup {mem[t] : t \in Terminal} :
    b.attached \in b.runs \cup {Nil}

(* A project config never stands without a snapshot, whoever was killed or *)
(* overtaken, so init refuses, and ends the onboarding, only where there   *)
(* is a runtime; and without a kill or an overlap both are for the same    *)
(* projects when no init is between its two writes.                        *)
RuntimeFits ==
  /\ config # "absent" => snapshot # "absent"
  /\ (~overlap /\ crashes = 0
        /\ \A t \in Terminal : pc[t] # "write-config") => config = snapshot

(* As long as processes do not overlap, the session that is saved is at    *)
(* least as new as the last cycle, also after a process was killed between *)
(* the two files, or by Ctrl-C: what the user resumes has seen the cycle.  *)
SessionCurrent ==
  (~overlap /\ session.file = "whole" /\ last.file = "whole")
    => session.bundle.cycle >= last.bundle.cycle
=============================================================================
