------------------------- MODULE WorkflowLifecycle -------------------------
(***************************************************************************)
(* What the workflow engine promises whoever reads manifest.json, without  *)
(* files, processes, cycles in progress or crashes: every write of the     *)
(* manifest is one of a cycle, an answer to a plan, or a reset, and moves  *)
(* each node only along its life.                                          *)
(*                                                                         *)
(*     waiting -> running -> completed | failed | needs_refactor           *)
(*                                                                         *)
(* A node starts only on completed dependencies, with an attempt and a     *)
(* slot left, and one at a time; it fails only by running; what ran moves  *)
(* again, by starting anew or by being put back to waiting, only when a    *)
(* diagnosis is completed or the user resets it.                           *)
(***************************************************************************)
EXTENDS Integers, Sequences, FiniteSets

CONSTANTS MAX_CONCURRENT, MAX_ATTEMPTS, Planner

VARIABLES
    phase,   \* the workflow's phase
    nodes    \* the nodes in order: [id, kind, status, attempts, depends_on]

lifeVars == <<phase, nodes>>

Waiting == {"pending", "stale"}
Ended == {"completed", "failed", "needs_refactor"}
Completed(ns) == {ns[i].id : i \in {j \in DOMAIN ns : ns[j].status = "completed"}}

Diagnosed == \E i \in DOMAIN nodes' :
    nodes'[i].kind = "diagnose" /\ nodes'[i].status = "completed"

(* A node that is added was waiting before, without an attempt.            *)
Was(i) == IF i \in DOMAIN nodes THEN nodes[i]
          ELSE [nodes'[i] EXCEPT !.status = "pending", !.attempts = 0]

Grows ==
    /\ Len(nodes) <= Len(nodes')
    /\ \A i \in DOMAIN nodes' : /\ nodes'[i].id = Was(i).id
                                /\ nodes'[i].kind = Was(i).kind
                                /\ nodes'[i].depends_on = Was(i).depends_on

(* Node i is not started by this write.                                    *)
Moves(i) ==
    LET old == Was(i).status
        new == nodes'[i].status
    IN  /\ nodes'[i].attempts = Was(i).attempts
        /\ \/ new = old
           \/ new \in Waiting /\ (old \in Waiting \/ Diagnosed)
           \/ old = "running" /\ new \in Ended
           \/ old \in Waiting \cup {"needs_refactor"}
              /\ new \in {"completed", "needs_refactor"}

(* Node i is started, and may have ended at once: no executor.             *)
Starts(i) ==
    /\ Was(i).status \in Waiting \/ Diagnosed
    /\ Was(i).attempts < MAX_ATTEMPTS
    /\ nodes'[i].attempts = Was(i).attempts + 1
    /\ nodes'[i].status \in {"running", "failed"}
    /\ nodes'[i].depends_on \subseteq Completed(nodes')
    /\ Cardinality({j \in DOMAIN nodes' : nodes'[j].status = "running"})
          <= MAX_CONCURRENT

(* One write of a cycle.  The cycle of the planner may go on after the one *)
(* that says a plan awaits its answer, but it does not complete the        *)
(* workflow over it.                                                       *)
CycleWrites ==
    /\ Grows
    /\ \E started \in SUBSET DOMAIN nodes' :
          /\ Cardinality(started) <= 1
          /\ \A i \in DOMAIN nodes' :
                IF i \in started THEN Starts(i) ELSE Moves(i)
    /\ \/ phase' = phase
       \/ /\ phase' = "awaiting_confirm"
          /\ Planner \in Completed(nodes')
       \/ /\ phase # "awaiting_confirm" /\ phase' = "complete"
          /\ \A i \in DOMAIN nodes' : nodes'[i].status = "completed"
       \/ /\ phase' = "failed"
          /\ \E i \in DOMAIN nodes' : /\ nodes'[i].status = "failed"
                                      /\ nodes'[i].attempts >= MAX_ATTEMPTS

(* wf confirm y: the plan's nodes are added, and nothing else changes.     *)
PlanAccepted ==
    /\ phase = "awaiting_confirm" /\ phase' = "running"
    /\ Grows
    /\ \A i \in DOMAIN nodes' : nodes'[i] = Was(i)

(* wf confirm n: the planner waits again, and nothing else changes.        *)
PlanRejected ==
    /\ phase = "awaiting_confirm" /\ phase' = "planning"
    /\ nodes' = [i \in DOMAIN nodes |->
                    IF nodes[i].id = Planner
                       THEN [nodes[i] EXCEPT !.status = "pending"]
                       ELSE nodes[i]]

(* wf reset: one node waits again; a failed workflow is reopened after it. *)
NodeReset ==
    /\ UNCHANGED phase
    /\ \E i \in DOMAIN nodes : nodes' = [nodes EXCEPT ![i].status = "pending"]

Reopened == phase = "failed" /\ phase' = "running" /\ UNCHANGED nodes

LifeInit ==
    /\ phase = "planning"
    /\ nodes = <<[id |-> Planner, kind |-> "named", status |-> "pending",
                  attempts |-> 0, depends_on |-> {}]>>

LifeNext == CycleWrites \/ PlanAccepted \/ PlanRejected \/ NodeReset \/ Reopened

LifeSpec == LifeInit /\ [][LifeNext]_lifeVars
=============================================================================
