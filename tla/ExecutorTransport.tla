------------------------- MODULE ExecutorTransport -------------------------
(***************************************************************************)
(* How one cycle of the orchestration kernel runs its executors when       *)
(* DEVFORGE_EXECUTOR_TRANSPORT is "subprocess": executors/adapters.py      *)
(* submits each selected package to SubprocessTransport                    *)
(* (executors/subprocess_transport.py), polls the process until it has     *)
(* ended or is too old, and graph/builder.py then verifies all results at  *)
(* once.  SnapshotCycle models the same step by its outcome only; here are *)
(* the processes, their pipes, the deadline and the ways the cycle is lost.*)
(***************************************************************************)
EXTENDS Naturals, Sequences, FiniteSets

CONSTANTS
  Package,      \* work packages a cycle may select
  Behaviour,    \* what an executor does once it is started
  Capacity,     \* output a pipe holds before its writer is blocked
  Timeout,      \* timeout_sec of a request, in polls
  MaxAttempts,  \* max_attempts of a package
  NoCommand,    \* packages whose adapter builds no live command
  MayMiss,      \* packages whose executor may be missing from PATH
  MaxLost       \* bound: cycles that may be lost to an exception or a crash

\* output: what the executor prints; obeys: it ends on SIGTERM; lingers: a
\* descendant keeps the pipes open after it has ended; malformed: it prints
\* JSON whose findings are none.
Behaviours == [output : Nat, obeys : BOOLEAN, lingers : BOOLEAN,
               malformed : BOOLEAN]

ASSUME TransportAssumption ==
  /\ Behaviour \subseteq Behaviours
  /\ Capacity \in Nat
  /\ Timeout \in Nat
  /\ MaxAttempts \in Nat \ {0}
  /\ MaxLost \in Nat
  /\ NoCommand \subseteq Package
  /\ MayMiss \subseteq Package

VARIABLES
  procs,   \* every process Popen started, oldest first
  pc,      \* where the cycle is: idle, dispatching, waiting, verifying
  todo,    \* selected packages not yet dispatched
  age,     \* time since the last submit, as poll sees it
  raw,     \* raw_results of this cycle
  ledger,  \* status and attempt_count of each package in the snapshot
  lost     \* cycles that ended in an exception or a crash

vars == <<procs, pc, todo, age, raw, ledger, lost>>

\* code is its exit code, none while it runs; fate says whether devforge has
\* sent it SIGTERM, or ended before it.
Proc == [package : Package, does : Behaviour,
         code : {"none", "zero", "nonzero"},
         fate : {"watched", "signalled", "orphan"}]

\* A raw result; exec is 0 when no process was started for it.
Result == [package : Package, exec : Nat, ok : BOOLEAN,
           malformed : BOOLEAN, at : Nat]

Entry == [status : {"ready", "completed", "failed"}, attempts : Nat]

-----------------------------------------------------------------------------
Execs == DOMAIN procs
Alive(e) == procs[e].code = "none"
Awaited == Len(procs)
Waiting(e) == pc = "waiting" /\ e = Awaited

Ready == {p \in Package : ledger[p].status = "ready"}

\* A raised exception ends the cycle: what it has not written is gone, the
\* processes it started are not.
Lost ==
  /\ pc' = "idle"
  /\ todo' = {}
  /\ age' = 0
  /\ raw' = {}
  /\ lost' = lost + 1
  /\ UNCHANGED ledger

-----------------------------------------------------------------------------
(* The cycle *)


Begin ==
  /\ pc = "idle"
  /\ lost < MaxLost
  /\ \E sel \in SUBSET Ready : sel # {} /\ todo' = sel
  /\ pc' = "dispatching"
  /\ UNCHANGED <<procs, age, raw, ledger, lost>>

Answer(p, e, ok, malformed) ==
  [package |-> p, exec |-> e, ok |-> ok, malformed |-> malformed, at |-> age]

\* An adapter without a live command answers "failed" at once.
NotConfigured(p) ==
  /\ pc = "dispatching"
  /\ p \in todo \cap NoCommand
  /\ todo' = todo \ {p}
  /\ raw' = raw \union {Answer(p, 0, FALSE, FALSE)}
  /\ UNCHANGED <<procs, pc, age, ledger, lost>>

\* Popen raises FileNotFoundError, which nothing catches.
ExecutorNotFound(p) ==
  /\ pc = "dispatching"
  /\ p \in (todo \cap MayMiss) \ NoCommand
  /\ Lost
  /\ UNCHANGED procs

Submit(p) ==
  /\ pc = "dispatching"
  /\ p \in todo \ NoCommand
  /\ \E b \in Behaviour :
       procs' = Append(procs, [package |-> p, does |-> b, code |-> "none",
                               fate |-> "watched"])
  /\ pc' = "waiting"
  /\ todo' = todo \ {p}
  /\ age' = 0
  /\ UNCHANGED <<raw, ledger, lost>>

\* The sleep of _run_subprocess_request between two polls.
Sleep ==
  /\ pc = "waiting"
  /\ age <= Timeout
  /\ age' = age + 1
  /\ UNCHANGED <<procs, pc, todo, raw, ledger, lost>>

TimedOut_silent ==
  /\ pc = "waiting"
  /\ age > Timeout
  /\ raw' = raw \union {Answer(procs[Awaited].package, Awaited, FALSE, FALSE)}
  /\ pc' = "dispatching"
  /\ age' = 0
  /\ UNCHANGED <<procs, todo, ledger, lost>>

TimedOut_never ==
  /\ FALSE
  /\ UNCHANGED vars

\* The deadline is looked at before the exit code: terminate, and no wait.
\* The adapter makes "failed" of "timed_out".
TimedOut ==
  /\ pc = "waiting"
  /\ age > Timeout
  /\ procs' = [procs EXCEPT ![Awaited].fate = "signalled"]
  /\ raw' = raw \union {Answer(procs[Awaited].package, Awaited, FALSE, FALSE)}
  /\ pc' = "dispatching"
  /\ age' = 0
  /\ UNCHANGED <<todo, ledger, lost>>

Collected_anyExit ==
  /\ pc = "waiting"
  /\ age <= Timeout
  /\ ~Alive(Awaited)
  /\ ~procs[Awaited].does.lingers
  /\ raw' = raw \union {Answer(procs[Awaited].package, Awaited, TRUE,
                               procs[Awaited].does.malformed)}
  /\ pc' = "dispatching"
  /\ age' = 0
  /\ UNCHANGED <<procs, todo, ledger, lost>>

\* The process has ended and its pipes are read to their end.
Collected ==
  /\ pc = "waiting"
  /\ age <= Timeout
  /\ ~Alive(Awaited)
  /\ ~procs[Awaited].does.lingers
  /\ raw' = raw \union {Answer(procs[Awaited].package, Awaited,
                               procs[Awaited].code = "zero",
                               procs[Awaited].does.malformed)}
  /\ pc' = "dispatching"
  /\ age' = 0
  /\ UNCHANGED <<procs, todo, ledger, lost>>

\* communicate(timeout=5) does not see the end of a pipe that a descendant
\* of the executor still holds: TimeoutExpired ends the cycle.
PipeHeld ==
  /\ pc = "waiting"
  /\ age <= Timeout
  /\ ~Alive(Awaited)
  /\ procs[Awaited].does.lingers
  /\ Lost
  /\ UNCHANGED procs

Settled_offByOne(r) ==
  LET n == ledger[r.package].attempts + 1 IN
  [attempts |-> n,
   status |-> IF r.ok THEN "completed"
              ELSE IF n <= MaxAttempts THEN "ready" ELSE "failed"]

DispatchDone ==
  /\ pc = "dispatching"
  /\ todo = {}
  /\ pc' = "verifying"
  /\ UNCHANGED <<procs, todo, age, raw, ledger, lost>>

Settled_transportWord(r) ==
  [attempts |-> ledger[r.package].attempts + 1,
   status |-> IF r.ok THEN "completed" ELSE "timed_out"]

Settled(r) ==
  LET n == ledger[r.package].attempts + 1 IN
  [attempts |-> n,
   status |-> IF r.ok THEN "completed"
              ELSE IF n < MaxAttempts THEN "ready" ELSE "failed"]

\* normalize_result and _apply_executor_result for every raw result; the
\* snapshot is written when the cycle has ended.
Verify ==
  /\ pc = "verifying"
  /\ \A r \in raw : ~r.malformed
  /\ ledger' = [p \in Package |->
                  IF \E r \in raw : r.package = p
                  THEN Settled(CHOOSE r \in raw : r.package = p)
                  ELSE ledger[p]]
  /\ pc' = "idle"
  /\ raw' = {}
  /\ UNCHANGED <<procs, todo, age, lost>>

\* Finding(**item) raises TypeError for findings that are none.
NormalizeRaises ==
  /\ pc = "verifying"
  /\ \E r \in raw : r.malformed
  /\ Lost
  /\ UNCHANGED procs

\* devforge is killed, or the user stops it: its executors go on.
Crash ==
  /\ pc # "idle"
  /\ Lost
  /\ procs' = [e \in Execs |->
                 IF Alive(e) /\ procs[e].fate = "watched"
                 THEN [procs[e] EXCEPT !.fate = "orphan"] ELSE procs[e]]

-----------------------------------------------------------------------------
(* The executors *)

\* The pipes are read only when the process has ended: one that prints more
\* than they hold is blocked in its write, and never exits.
Exits(e) ==
  /\ Alive(e)
  /\ procs[e].does.output <= Capacity
  /\ \E code \in {"zero", "nonzero"} :
       procs' = [procs EXCEPT ![e].code = code]
  /\ UNCHANGED <<pc, todo, age, raw, ledger, lost>>

Terminated(e) ==
  /\ Alive(e)
  /\ procs[e].fate = "signalled"
  /\ procs[e].does.obeys
  /\ procs' = [procs EXCEPT ![e].code = "nonzero"]
  /\ UNCHANGED <<pc, todo, age, raw, ledger, lost>>

-----------------------------------------------------------------------------
Init ==
  /\ procs = << >>
  /\ pc = "idle"
  /\ todo = {}
  /\ age = 0
  /\ raw = {}
  /\ ledger = [p \in Package |-> [status |-> "ready", attempts |-> 0]]
  /\ lost = 0

Poll == TimedOut \/ Collected \/ PipeHeld

Dispatch(p) == NotConfigured(p) \/ ExecutorNotFound(p) \/ Submit(p)

Cycle ==
  \/ \E p \in Package : Dispatch(p)
  \/ Poll
  \/ DispatchDone
  \/ Verify
  \/ NormalizeRaises

Executor(e) == Exits(e) \/ Terminated(e)

Next ==
  \/ Begin
  \/ Cycle
  \/ Sleep
  \/ Crash
  \/ \E e \in Execs : Executor(e)

Spec == Init /\ [][Next]_vars

\* The cycle is one sequential function, and the clock goes on while it
\* sleeps.  Executors, crashes and new cycles are under no obligation.
FairSpec == Spec /\ WF_vars(Cycle) /\ WF_vars(Sleep)

-----------------------------------------------------------------------------
(* Properties *)

\* Every variable keeps its type: executions are numbered by the process
\* list, and at most the last one is polled.
TransportTyped ==
  /\ procs \in Seq(Proc)
  /\ pc \in {"idle", "dispatching", "waiting", "verifying"}
  /\ pc = "waiting" => procs # << >>
  /\ todo \subseteq Package
  /\ age \in Nat
  /\ raw \subseteq Result
  /\ ledger \in [Package -> Entry]
  /\ lost \in Nat

\* No executor is left to itself: one that still runs is being polled, or was
\* sent SIGTERM, or survived a crash of devforge.  (terminate is the only
\* thing poll does to a late process; nothing waits for it to end, so the
\* next attempt may run beside it.)
LiveAreWatched ==
  \A e \in Execs : Alive(e) => Waiting(e) \/ procs[e].fate # "watched"

\* A result is "completed" exactly when its own process exited with 0, unsignalled,
\* and was polled in time; output that does not fit into a pipe never completes.
VerdictFits ==
  \A r \in raw :
    /\ r.ok => /\ r.exec \in Execs
               /\ procs[r.exec].package = r.package
               /\ procs[r.exec].code = "zero"
               /\ procs[r.exec].fate = "watched"
               /\ procs[r.exec].does.output <= Capacity
    /\ r.exec \in Execs /\ ~r.ok /\ procs[r.exec].code = "zero" => r.at > Timeout

\* An executor is started for a package at most max_attempts times, and once
\* more for each cycle that was lost after it had started it.
LaunchesOf(p) == {e \in Execs : procs[e].package = p}
LaunchesBounded ==
  \A p \in Package : Cardinality(LaunchesOf(p)) <= MaxAttempts + lost

\* A cycle ends, whatever its executors do: block on a full pipe, hang,
\* ignore SIGTERM, or leave a pipe open.
CycleEnds == pc # "idle" ~> pc = "idle"

=============================================================================
