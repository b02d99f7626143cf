------------------------ MODULE WorkflowRefinement_proofs ------------------------
(***************************************************************************)
(* The workflow engine implements WorkflowLifecycle: what a cycle did in   *)
(* memory since the last write of manifest.json is one step of the         *)
(* lifecycle whenever it is written, and what a crash loses was never      *)
(* seen.                                                                   *)
(***************************************************************************)
EXTENDS WorkflowOutcome_proofs

(* The status and the attempts that d, a list of entries, shows of entry i; *)
(* one that is not there yet waits, and was not tried.                     *)
OldStatus(d, i) == IF i \in DOMAIN d THEN d[i].status ELSE "pending"
OldAttempts(d, i) == IF i \in DOMAIN d THEN d[i].attempt_count ELSE 0

HasDiagnosis(ns) ==
    \E i \in DOMAIN ns : KindOf(ns[i].id) = "diagnose" /\ ns[i].status = "completed"

(* What reconciliation makes of a status. *)
Reconciles(old, new) ==
    \/ new = old
    \/ old = "running" /\ new \in {"completed", "failed", "needs_refactor"}
    \/ old \in {"pending", "stale", "needs_refactor"} /\ new \in {"completed", "needs_refactor"}

(* b has the entries of d at their places, perhaps in other statuses. *)
SameNodes(d, b) ==
    \A i \in DOMAIN d : /\ i \in DOMAIN b /\ b[i].id = d[i].id
                        /\ b[i].depends_on = d[i].depends_on

(* Entry i was reconciled since d was written. *)
Reconciled(d, b, i) ==
    /\ b[i].attempt_count = OldAttempts(d, i)
    /\ Reconciles(OldStatus(d, i), b[i].status)

(* Entry i was reconciled, or put back by a rewind. *)
Moved(d, b, i) ==
    /\ b[i].attempt_count = OldAttempts(d, i)
    /\ \/ Reconciles(OldStatus(d, i), b[i].status)
       \/ b[i].status \in {"pending", "stale"} /\ HasDiagnosis(b)

(* Entry i was started since d was written. *)
StartedIn(d, b, i) ==
    /\ OldStatus(d, i) \in {"pending", "stale"} \/ HasDiagnosis(b)
    /\ OldAttempts(d, i) < MAX_ATTEMPTS
    /\ b[i].attempt_count = OldAttempts(d, i) + 1
    /\ b[i].status \in {"running", "failed"}
    /\ b[i].depends_on \subseteq CompletedIds(b)

-----------------------------------------------------------------------------
(* Writes of the manifest as steps of the lifecycle.                       *)

LedgerOf(ns) ==
    [i \in DOMAIN ns |->
        [id |-> ns[i].id, kind |-> KindOf(ns[i].id), status |-> ns[i].status,
         attempts |-> ns[i].attempt_count, depends_on |-> ns[i].depends_on]]

LEMMA LedgerShape ==
    ASSUME NEW ns \in Seq(Entry)
    PROVE  /\ LedgerOf(ns) = [i \in 1 .. Len(ns) |-> LedgerOf(ns)[i]]
           /\ Len(LedgerOf(ns)) = Len(ns) /\ Len(ns) \in Nat
           /\ DOMAIN LedgerOf(ns) = 1 .. Len(ns) /\ DOMAIN ns = 1 .. Len(ns)
           /\ \A i \in 1 .. Len(ns) :
                 LedgerOf(ns)[i] =
                    [id |-> ns[i].id, kind |-> KindOf(ns[i].id), status |-> ns[i].status,
                     attempts |-> ns[i].attempt_count, depends_on |-> ns[i].depends_on]
<1> DEFINE f == LedgerOf(ns)
           T == {f[i] : i \in 1 .. Len(ns)}
<1>1. DOMAIN ns = 1 .. Len(ns) /\ Len(ns) \in Nat
  BY LenProperties
<1>2. f = [i \in 1 .. Len(ns) |-> f[i]] /\ DOMAIN f = 1 .. Len(ns)
  BY <1>1 DEF LedgerOf
<1>3. f \in [1 .. Len(ns) -> T]
  BY <1>2
<1>4. Len(f) = Len(ns)
  BY <1>1, <1>3, FunctionIsSeq
<1> QED
  BY <1>1, <1>2, <1>4 DEF LedgerOf

LEMMA LedgerNow == Ledger = LedgerOf(disk.nodes) /\ Ledger' = LedgerOf(disk'.nodes)
  BY DEF Ledger, LedgerOf

LEMMA LedgerCompleted ==
    ASSUME NEW ns \in Seq(Entry)
    PROVE  Lifecycle!Completed(LedgerOf(ns)) = CompletedIds(ns)
<1> DEFINE l == LedgerOf(ns)
<1>1. /\ DOMAIN l = DOMAIN ns
      /\ \A i \in DOMAIN ns : l[i].status = ns[i].status /\ l[i].id = ns[i].id
  BY DEF LedgerOf
<1> HIDE DEF l
<1>2. {l[i].id : i \in {j \in DOMAIN l : l[j].status = "completed"}} = CompletedIds(ns)
  BY <1>1 DEF CompletedIds
<1> QED
  BY <1>2 DEF Lifecycle!Completed, l

(* The lifecycle counts as the engine does. *)
LEMMA LifeCardinality ==
    ASSUME NEW S PROVE Lifecycle!Cardinality(S) = Cardinality(S)
  BY DEF Lifecycle!Cardinality, Cardinality

(* One write of a cycle that started the entries in S. *)
LEMMA CycleWrite ==
    ASSUME TypeInv, TypeInv', RunningInv', SameNodes(disk.nodes, disk'.nodes),
           NEW S \in SUBSET DOMAIN disk'.nodes, Cardinality(S) <= 1,
           \A i \in DOMAIN disk'.nodes :
              IF i \in S THEN StartedIn(disk.nodes, disk'.nodes, i)
                         ELSE Moved(disk.nodes, disk'.nodes, i),
           \/ disk'.phase = disk.phase
           \/ /\ disk'.phase = "awaiting_confirm"
              /\ NamedId(Planner) \in CompletedIds(disk'.nodes)
           \/ /\ disk.phase # "awaiting_confirm" /\ disk'.phase = "complete"
              /\ AllCompleted(disk'.nodes)
           \/ disk'.phase = "failed" /\ Exhausted(disk'.nodes) # {}
    PROVE  Lifecycle!CycleWrites
<1> DEFINE d == disk.nodes
           b == disk'.nodes
           l == LedgerOf(d)
           m == LedgerOf(b)
<1>1. d \in Seq(Entry) /\ b \in Seq(Entry)
  BY DEF TypeInv, TypeOK, Manifest
<1>2. Ledger = l /\ Ledger' = m
  BY LedgerNow
<1>3. /\ DOMAIN l = DOMAIN d /\ DOMAIN d = 1 .. Len(d) /\ Len(l) = Len(d) /\ Len(d) \in Nat
      /\ \A i \in DOMAIN d : l[i] =
            [id |-> d[i].id, kind |-> KindOf(d[i].id), status |-> d[i].status,
             attempts |-> d[i].attempt_count, depends_on |-> d[i].depends_on]
  BY <1>1, LedgerShape
<1>4. /\ DOMAIN m = DOMAIN b /\ DOMAIN b = 1 .. Len(b) /\ Len(m) = Len(b) /\ Len(b) \in Nat
      /\ \A i \in DOMAIN b : m[i] =
            [id |-> b[i].id, kind |-> KindOf(b[i].id), status |-> b[i].status,
             attempts |-> b[i].attempt_count, depends_on |-> b[i].depends_on]
  BY <1>1, LedgerShape
<1>5. Lifecycle!Completed(m) = CompletedIds(b)
  BY <1>1, LedgerCompleted
<1>6. /\ SameNodes(d, b)
      /\ \A i \in DOMAIN b : IF i \in S THEN StartedIn(d, b, i) ELSE Moved(d, b, i)
  OBVIOUS
<1>7. Cardinality(Running(b)) <= MAX_CONCURRENT
  BY DEF RunningInv
<1> HIDE DEF d, b, l, m
<1>8. {j \in DOMAIN m : m[j].status = "running"} = Running(b)
  BY <1>4 DEF Running
<1>9. Lifecycle!Grows
  <2>1. Len(d) <= Len(b)
    BY <1>3, <1>4, <1>6 DEF SameNodes
  <2> QED
    BY <2>1, <1>2, <1>3, <1>4, <1>6 DEF Lifecycle!Grows, Lifecycle!Was, SameNodes
<1>10. ASSUME NEW i \in DOMAIN b
       PROVE  /\ Lifecycle!Was(i).status = OldStatus(d, i)
              /\ Lifecycle!Was(i).attempts = OldAttempts(d, i)
              /\ m[i].status = b[i].status /\ m[i].attempts = b[i].attempt_count
              /\ m[i].depends_on = b[i].depends_on
  BY <1>2, <1>3, <1>4 DEF Lifecycle!Was, OldStatus, OldAttempts
<1>11. HasDiagnosis(b) => Lifecycle!Diagnosed
  BY <1>2, <1>4 DEF HasDiagnosis, Lifecycle!Diagnosed
<1>12. ASSUME NEW i \in DOMAIN b, Moved(d, b, i) PROVE Lifecycle!Moves(i)
  BY <1>2, <1>10, <1>11, <1>12
     DEF Moved, Reconciles, Lifecycle!Moves, Lifecycle!Waiting, Lifecycle!Ended
<1>13. ASSUME NEW i \in DOMAIN b, StartedIn(d, b, i) PROVE Lifecycle!Starts(i)
  BY <1>2, <1>5, <1>7, <1>8, <1>10, <1>11, <1>13, LifeCardinality
     DEF StartedIn, Lifecycle!Starts, Lifecycle!Waiting
<1>14. \E started \in SUBSET DOMAIN Ledger' :
          /\ Cardinality(started) <= 1
          /\ \A i \in DOMAIN Ledger' :
                IF i \in started THEN Lifecycle!Starts(i) ELSE Lifecycle!Moves(i)
  BY <1>2, <1>4, <1>6, <1>12, <1>13 DEF b
<1>15. \/ disk'.phase = disk.phase
       \/ /\ disk'.phase = "awaiting_confirm"
          /\ NamedId(Planner) \in Lifecycle!Completed(Ledger')
       \/ /\ disk.phase # "awaiting_confirm" /\ disk'.phase = "complete"
          /\ \A i \in DOMAIN Ledger' : Ledger'[i].status = "completed"
       \/ /\ disk'.phase = "failed"
          /\ \E i \in DOMAIN Ledger' : /\ Ledger'[i].status = "failed"
                                       /\ Ledger'[i].attempts >= MAX_ATTEMPTS
  <2>1. AllCompleted(b) => \A i \in DOMAIN m : m[i].status = "completed"
    BY <1>4 DEF AllCompleted
  <2>2. Exhausted(b) # {} => \E i \in DOMAIN m : m[i].status = "failed"
                                                 /\ m[i].attempts >= MAX_ATTEMPTS
    BY <1>4 DEF Exhausted
  <2> QED
    BY <2>1, <2>2, <1>2, <1>5 DEF b
<1> QED
  BY <1>9, <1>14, <1>15, LifeCardinality DEF Lifecycle!CycleWrites

LifeNode == [id : Id, kind : {KindOf(id) : id \in Id}, status : NodeStatuses,
             attempts : Nat, depends_on : SUBSET Id]

LEMMA LedgerTyped ==
    ASSUME NEW ns \in Seq(Entry), NEW i \in DOMAIN ns
    PROVE  LedgerOf(ns)[i] \in LifeNode
<1>1. ns[i] \in Entry
  BY ElementOfSeq, LenProperties
<1>2. /\ ns[i].id \in Id /\ ns[i].status \in NodeStatuses /\ ns[i].attempt_count \in Nat
      /\ ns[i].depends_on \in SUBSET Id
  BY <1>1 DEF Entry
<1> QED
  BY <1>2 DEF LedgerOf, LifeNode

(* A node of the ledger, waiting. *)
LEMMA NodeWaits ==
    ASSUME NEW n \in LifeNode, NEW m \in LifeNode,
           m.id = n.id, m.kind = n.kind, m.depends_on = n.depends_on,
           m.status = "pending"
    PROVE  /\ m.attempts = n.attempts => m = [n EXCEPT !.status = "pending"]
           /\ m.attempts = 0 => m = [n EXCEPT !.status = "pending", !.attempts = 0]
<1> DEFINE f == [n EXCEPT !.status = "pending"]
           g == [n EXCEPT !.status = "pending", !.attempts = 0]
<1>1. /\ f \in LifeNode /\ f.id = n.id /\ f.kind = n.kind
      /\ f.depends_on = n.depends_on /\ f.status = "pending" /\ f.attempts = n.attempts
  BY DEF LifeNode, NodeStatuses
<1>2. /\ g \in LifeNode /\ g.id = n.id /\ g.kind = n.kind
      /\ g.depends_on = n.depends_on /\ g.status = "pending" /\ g.attempts = 0
  BY DEF LifeNode, NodeStatuses
<1> HIDE DEF f, g
<1>3. m.attempts = n.attempts => m = f
  BY <1>1 DEF LifeNode
<1>4. m.attempts = 0 => m = g
  BY <1>2 DEF LifeNode
<1> QED
  BY <1>3, <1>4 DEF f, g

(* The plan's nodes are in memory, untouched; or the planner is put back. *)
AcceptedIn(d, b) ==
    \A i \in DOMAIN b :
        IF i \in DOMAIN d THEN b[i] = d[i]
        ELSE b[i].status = "pending" /\ b[i].attempt_count = 0

RejectedIn(d, b) ==
    /\ DOMAIN b = DOMAIN d
    /\ \A i \in DOMAIN d :
          /\ b[i].attempt_count = d[i].attempt_count
          /\ b[i].status = IF d[i].id = NamedId(Planner) THEN "pending" ELSE d[i].status

LEMMA AcceptWrite ==
    ASSUME TypeInv, TypeInv', SameNodes(disk.nodes, disk'.nodes),
           disk.phase = "awaiting_confirm", disk'.phase = "running",
           AcceptedIn(disk.nodes, disk'.nodes)
    PROVE  Lifecycle!PlanAccepted
<1> DEFINE d == disk.nodes
           b == disk'.nodes
           l == LedgerOf(d)
           m == LedgerOf(b)
<1>1. d \in Seq(Entry) /\ b \in Seq(Entry)
  BY DEF TypeInv, TypeOK, Manifest
<1>2. Ledger = l /\ Ledger' = m
  BY LedgerNow
<1>3. /\ DOMAIN l = DOMAIN d /\ DOMAIN d = 1 .. Len(d) /\ Len(l) = Len(d) /\ Len(d) \in Nat
      /\ \A i \in DOMAIN d : l[i] =
            [id |-> d[i].id, kind |-> KindOf(d[i].id), status |-> d[i].status,
             attempts |-> d[i].attempt_count, depends_on |-> d[i].depends_on]
  BY <1>1, LedgerShape
<1>4. /\ DOMAIN m = DOMAIN b /\ DOMAIN b = 1 .. Len(b) /\ Len(m) = Len(b) /\ Len(b) \in Nat
      /\ \A i \in DOMAIN b : m[i] =
            [id |-> b[i].id, kind |-> KindOf(b[i].id), status |-> b[i].status,
             attempts |-> b[i].attempt_count, depends_on |-> b[i].depends_on]
  BY <1>1, LedgerShape
<1>5. SameNodes(d, b) /\ AcceptedIn(d, b)
  OBVIOUS
<1> HIDE DEF d, b, l, m
<1>6. Len(d) <= Len(b)
  BY <1>3, <1>4, <1>5 DEF SameNodes
<1>7. ASSUME NEW i \in DOMAIN b PROVE m[i] = Lifecycle!Was(i)
  <2>1. CASE i \in DOMAIN d
    BY <1>2, <1>3, <1>4, <1>5, <2>1 DEF AcceptedIn, Lifecycle!Was
  <2>2. CASE i \notin DOMAIN d
    <3>1. b[i].status = "pending" /\ b[i].attempt_count = 0
      BY <1>5, <2>2 DEF AcceptedIn
    <3>2. m[i] = [m[i] EXCEPT !.status = "pending", !.attempts = 0]
      <4>1. m[i] \in LifeNode /\ m[i].status = "pending" /\ m[i].attempts = 0
        BY <1>1, <1>4, <3>1, LedgerTyped DEF m
      <4> QED
        BY <4>1, NodeWaits
    <3> QED
      BY <1>2, <1>3, <2>2, <3>2 DEF Lifecycle!Was
  <2> QED
    BY <2>1, <2>2
<1>8. Lifecycle!Grows
  BY <1>2, <1>3, <1>4, <1>6, <1>7 DEF Lifecycle!Grows
<1> QED
  BY <1>2, <1>4, <1>7, <1>8 DEF Lifecycle!PlanAccepted

LEMMA RejectWrite ==
    ASSUME TypeInv, TypeInv', SameNodes(disk.nodes, disk'.nodes),
           disk.phase = "awaiting_confirm", disk'.phase = "planning",
           RejectedIn(disk.nodes, disk'.nodes)
    PROVE  Lifecycle!PlanRejected
<1> DEFINE d == disk.nodes
           b == disk'.nodes
           l == LedgerOf(d)
           m == LedgerOf(b)
<1>1. d \in Seq(Entry) /\ b \in Seq(Entry)
  BY DEF TypeInv, TypeOK, Manifest
<1>2. Ledger = l /\ Ledger' = m
  BY LedgerNow
<1>3. /\ DOMAIN l = DOMAIN d /\ DOMAIN d = 1 .. Len(d)
      /\ \A i \in DOMAIN d : l[i] =
            [id |-> d[i].id, kind |-> KindOf(d[i].id), status |-> d[i].status,
             attempts |-> d[i].attempt_count, depends_on |-> d[i].depends_on]
  BY <1>1, LedgerShape
<1>4. /\ m = [i \in 1 .. Len(b) |-> m[i]] /\ DOMAIN b = 1 .. Len(b)
      /\ \A i \in DOMAIN b : m[i] =
            [id |-> b[i].id, kind |-> KindOf(b[i].id), status |-> b[i].status,
             attempts |-> b[i].attempt_count, depends_on |-> b[i].depends_on]
  BY <1>1, LedgerShape
<1>5. SameNodes(d, b) /\ RejectedIn(d, b)
  OBVIOUS
<1> HIDE DEF d, b, l, m
<1>6. ASSUME NEW i \in DOMAIN d
      PROVE  m[i] = IF l[i].id = NamedId(Planner)
                      THEN [l[i] EXCEPT !.status = "pending"] ELSE l[i]
  <2>1. /\ b[i].attempt_count = d[i].attempt_count /\ b[i].id = d[i].id
        /\ b[i].depends_on = d[i].depends_on
        /\ b[i].status = IF d[i].id = NamedId(Planner) THEN "pending" ELSE d[i].status
    BY <1>5 DEF SameNodes, RejectedIn
  <2>2. i \in DOMAIN b
    BY <1>5 DEF RejectedIn
  <2>3. l[i] \in LifeNode /\ m[i] \in LifeNode
    BY <1>1, <2>2, LedgerTyped DEF l, m
  <2>4. /\ l[i].id = d[i].id /\ m[i].id = l[i].id /\ m[i].kind = l[i].kind
        /\ m[i].attempts = l[i].attempts /\ m[i].depends_on = l[i].depends_on
        /\ m[i].status = IF d[i].id = NamedId(Planner) THEN "pending" ELSE l[i].status
    BY <1>3, <1>4, <2>1, <2>2
  <2>5. CASE d[i].id = NamedId(Planner)
    BY <2>3, <2>4, <2>5, NodeWaits
  <2>6. CASE d[i].id # NamedId(Planner)
    <3>1. m[i] = l[i]
      BY <2>3, <2>4, <2>6 DEF LifeNode
    <3> QED
      BY <2>4, <2>6, <3>1
  <2> QED
    BY <2>5, <2>6
<1>7. m = [i \in DOMAIN l |-> IF l[i].id = NamedId(Planner)
                                THEN [l[i] EXCEPT !.status = "pending"] ELSE l[i]]
  BY <1>3, <1>4, <1>5, <1>6 DEF RejectedIn
<1> QED
  BY <1>2, <1>7 DEF Lifecycle!PlanRejected

LEMMA ResetWrite ==
    ASSUME TypeInv, TypeInv', disk'.phase = disk.phase,
           NEW i \in DOMAIN disk.nodes, NEW e \in Entry,
           Later(disk.nodes[i], e, "pending", 0), Becomes(disk.nodes, disk'.nodes, i, e)
    PROVE  Lifecycle!NodeReset
<1> DEFINE d == disk.nodes
           b == disk'.nodes
           l == LedgerOf(d)
           m == LedgerOf(b)
<1>1. d \in Seq(Entry) /\ b \in Seq(Entry) /\ d[i] \in Entry
  BY ElementOfSeq, LenProperties DEF TypeInv, TypeOK, Manifest
<1>2. Ledger = l /\ Ledger' = m
  BY LedgerNow
<1>3. /\ l = [j \in 1 .. Len(d) |-> l[j]] /\ DOMAIN d = 1 .. Len(d)
      /\ \A j \in DOMAIN d : l[j] =
            [id |-> d[j].id, kind |-> KindOf(d[j].id), status |-> d[j].status,
             attempts |-> d[j].attempt_count, depends_on |-> d[j].depends_on]
  BY <1>1, LedgerShape
<1>4. /\ m = [j \in 1 .. Len(b) |-> m[j]] /\ DOMAIN b = 1 .. Len(b)
      /\ \A j \in DOMAIN b : m[j] =
            [id |-> b[j].id, kind |-> KindOf(b[j].id), status |-> b[j].status,
             attempts |-> b[j].attempt_count, depends_on |-> b[j].depends_on]
  BY <1>1, LedgerShape
<1>5. /\ DOMAIN b = DOMAIN d /\ b[i] = e
      /\ \A j \in DOMAIN d : j # i => b[j] = d[j]
      /\ e.id = d[i].id /\ e.depends_on = d[i].depends_on /\ e.status = "pending"
      /\ e.attempt_count = d[i].attempt_count
  BY <1>1 DEF Later, Same, Becomes, Entry
<1> HIDE DEF d, b, l, m
<1>6. m[i] = [l[i] EXCEPT !.status = "pending"]
  <2>1. i \in DOMAIN d /\ i \in DOMAIN b
    BY <1>5 DEF d
  <2>2. l[i] \in LifeNode /\ m[i] \in LifeNode
    BY <1>1, <2>1, LedgerTyped DEF l, m
  <2>3. /\ m[i].id = l[i].id /\ m[i].kind = l[i].kind /\ m[i].status = "pending"
        /\ m[i].attempts = l[i].attempts /\ m[i].depends_on = l[i].depends_on
    BY <1>3, <1>4, <1>5, <2>1
  <2> QED
    BY <2>2, <2>3, NodeWaits
<1>7. \A j \in DOMAIN d : j # i => m[j] = l[j]
  BY <1>3, <1>4, <1>5
<1>8. m = [l EXCEPT ![i] = [l[i] EXCEPT !.status = "pending"]]
  BY <1>3, <1>4, <1>5, <1>6, <1>7 DEF d
<1>9. i \in DOMAIN l
  BY <1>3 DEF d
<1> QED
  BY <1>2, <1>8, <1>9 DEF Lifecycle!NodeReset

LEMMA ReopenWrite ==
    ASSUME disk.phase = "failed", disk'.phase = "running", disk'.nodes = disk.nodes
    PROVE  Lifecycle!Reopened
  BY LedgerNow DEF Lifecycle!Reopened

LEMMA NoWrite == ASSUME disk' = disk PROVE UNCHANGED Lifecycle!lifeVars
  BY LedgerNow DEF Lifecycle!lifeVars

-----------------------------------------------------------------------------
(* What memory holds relative to the disk, step by step.                   *)

(* The phase in memory p is that on disk q, or a plan awaits its answer. *)
Phased(p, q, ns) ==
    p = q \/ (p = "awaiting_confirm" /\ NamedId(Planner) \in CompletedIds(ns))

WaitsWell(e, ns) == /\ e.depends_on \subseteq CompletedIds(ns)
                    /\ e.status = "failed" => HasDiagnosis(ns)

CycleInv ==
    /\ pc = "reconcile" =>
          /\ mem.phase = disk.phase
          /\ \A i \in DOMAIN mem.nodes : Reconciled(disk.nodes, mem.nodes, i)
    /\ pc \in {"rewind", "spawn", "blocked", "complete", "failed"} =>
          /\ mem.phase = disk.phase
          /\ \A i \in DOMAIN mem.nodes : Moved(disk.nodes, mem.nodes, i)
    /\ pc = "dispatch" =>
          /\ Phased(mem.phase, disk.phase, mem.nodes)
          /\ \A i \in DOMAIN mem.nodes : Moved(disk.nodes, mem.nodes, i)
    /\ pc = "launched" =>
          /\ Phased(mem.phase, disk.phase, mem.nodes)
          /\ StartedIn(disk.nodes, mem.nodes, Candidate)
          /\ \A i \in DOMAIN mem.nodes :
                i # Candidate => Moved(disk.nodes, mem.nodes, i)
    /\ pc = "complete" => AllCompleted(mem.nodes) /\ mem.phase # "awaiting_confirm"
    /\ pc = "failed" => Exhausted(mem.nodes) # {}
    /\ pc = "sync" => mem = disk

CommandInv ==
    /\ pc = "confirm" =>
          /\ disk.phase = "awaiting_confirm"
          /\ \/ mem.phase = "running" /\ AcceptedIn(disk.nodes, mem.nodes)
             \/ mem.phase = "planning" /\ RejectedIn(disk.nodes, mem.nodes)
    /\ pc = "reset" => mem = disk /\ disk.phase = "failed"

LedgerInv ==
    /\ SameNodes(disk.nodes, mem.nodes)
    /\ \A i \in Waiting : WaitsWell(mem.nodes[i], mem.nodes)
    /\ CycleInv
    /\ CommandInv

LEMMA SameItself == ASSUME NEW a PROVE SameNodes(a, a)
  BY DEF SameNodes

LEMMA SameOn ==
    ASSUME NEW d, NEW a, NEW b, SameNodes(d, a), SameNodes(a, b) PROVE SameNodes(d, b)
  BY DEF SameNodes

LEMMA CompletedKept ==
    ASSUME NEW a, NEW b, KeepsCompleted(a, b)
    PROVE  /\ CompletedIds(a) \subseteq CompletedIds(b)
           /\ HasDiagnosis(a) => HasDiagnosis(b)
<1>1. CompletedIds(a) \subseteq CompletedIds(b)
  BY DEF KeepsCompleted, CompletedIds
<1>2. HasDiagnosis(a) => HasDiagnosis(b)
  BY DEF KeepsCompleted, HasDiagnosis
<1> QED
  BY <1>1, <1>2

LEMMA DiagnosisKept ==
    ASSUME NEW a, NEW b, KeepsDiagnoses(a, b), HasDiagnosis(a) PROVE HasDiagnosis(b)
  BY DEF KeepsDiagnoses, HasDiagnosis

(* An entry that stays, and one that is added. *)
LEMMA MovedStays ==
    ASSUME NEW d, NEW a, NEW b, NEW i, b[i] = a[i]
    PROVE  /\ Reconciled(d, a, i) => Reconciled(d, b, i)
           /\ Moved(d, a, i) /\ (HasDiagnosis(a) => HasDiagnosis(b)) => Moved(d, b, i)
  BY DEF Reconciled, Moved

LEMMA MovedNew ==
    ASSUME NEW d, NEW a, NEW b, SameNodes(d, a), NEW i, i \notin DOMAIN a,
           b[i].status = "pending", b[i].attempt_count = 0
    PROVE  Reconciled(d, b, i) /\ Moved(d, b, i)
  BY DEF SameNodes, Reconciled, Reconciles, Moved, OldStatus, OldAttempts

LEMMA ReconciledMoved ==
    ASSUME NEW d, NEW a, NEW i, Reconciled(d, a, i) PROVE Moved(d, a, i)
  BY DEF Reconciled, Moved

(* d as it is. *)
LEMMA MovedItself ==
    ASSUME NEW d, NEW i \in DOMAIN d PROVE Reconciled(d, d, i) /\ Moved(d, d, i)
  BY DEF Reconciled, Reconciles, Moved, OldStatus, OldAttempts

LEMMA SettledAdds ==
    ASSUME NEW a, NEW b, NEW i \in DOMAIN a, NEW e \in Entry,
           e.id = a[i].id, e.depends_on = a[i].depends_on, SettledAt(a, b, i, e)
    PROVE  /\ SameNodes(a, b)
           /\ \A j \in DOMAIN b \ DOMAIN a : b[j].status = "pending" /\ b[j].attempt_count = 0
           /\ a[i].status # "completed" => KeepsCompleted(a, b)
<1>1. Audited(e).id = e.id /\ Audited(e).depends_on = e.depends_on
  BY AuditedLater DEF Same
<1>2. SameNodes(a, b)
  BY <1>1 DEF SettledAt, SameNodes
<1>3. \A j \in DOMAIN b \ DOMAIN a : b[j].status = "pending" /\ b[j].attempt_count = 0
  BY DEF SettledAt, MetaEntry
<1>4. a[i].status # "completed" => KeepsCompleted(a, b)
  BY <1>1 DEF SettledAt, KeepsCompleted
<1> QED
  BY <1>2, <1>3, <1>4

LEMMA BecomesSame ==
    ASSUME NEW a, NEW b, NEW i \in DOMAIN a, NEW e, Becomes(a, b, i, e),
           e.id = a[i].id, e.depends_on = a[i].depends_on
    PROVE  SameNodes(a, b) /\ (a[i].status # "completed" => KeepsCompleted(a, b))
  BY DEF Becomes, SameNodes, KeepsCompleted

(* A reconciled entry is reconciled further. *)
LEMMA ReconciledOn ==
    ASSUME NEW d, NEW a, NEW b, NEW i \in DOMAIN a, Reconciled(d, a, i),
           b[i].attempt_count = a[i].attempt_count,
           \/ /\ a[i].status = "running"
              /\ b[i].status \in {"completed", "failed", "needs_refactor"}
           \/ /\ a[i].status = "pending"
              /\ b[i].status \in {"completed", "needs_refactor"}
           \/ a[i].status = "needs_refactor" /\ b[i].status = "completed"
    PROVE  Reconciled(d, b, i)
  BY DEF Reconciled, Reconciles

LEMMA LedgerReconcileNode ==
    ASSUME TypeInv, LedgerInv, ReconcileNode PROVE LedgerInv'
<1> DEFINE a == mem.nodes
           b == mem'.nodes
           d == disk.nodes
<1>1. /\ pc = "reconcile" /\ pc' = "reconcile" /\ cand = {} /\ cand' = {}
      /\ mem'.phase = mem.phase /\ disk' = disk
  BY ReconcileNodeEffect
<1>2. PICK i \in DOMAIN a :
         /\ Settles(a[i])
         /\ Settled(a[i]) \in Entry /\ Same(a[i], Settled(a[i]))
         /\ SettledAt(a, b, i, Settled(a[i]))
  BY ReconcileNodeEffect
<1> DEFINE e == Settled(a[i])
<1>3. SameNodes(d, a) /\ mem.phase = disk.phase /\ \A j \in DOMAIN a : Reconciled(d, a, j)
  BY <1>1 DEF LedgerInv, CycleInv
<1>4. a[i] \in Entry
  BY Memory
<1>5. /\ e.id = a[i].id /\ e.depends_on = a[i].depends_on
      /\ e.attempt_count = a[i].attempt_count
      /\ e.status \in {"completed", "failed"}
      /\ e.status = "failed" => a[i].status = "running"
      /\ a[i].status \in {"running", "pending"}
  BY <1>2, <1>4, SettledLater DEF Same, Settles
<1>6. /\ Audited(e).attempt_count = e.attempt_count
      /\ \/ Audited(e).status = e.status
         \/ e.status = "completed" /\ Audited(e).status = "needs_refactor"
  BY <1>2, AuditedLater
<1>7. b[i] = Audited(e) /\ \A j \in DOMAIN a : j # i => b[j] = a[j]
  BY <1>2 DEF SettledAt
<1>8. e \in Entry /\ SettledAt(a, b, i, e)
  BY <1>2
<1> HIDE DEF a, b, d, e
<1>9. SameNodes(a, b) /\ \A j \in DOMAIN b \ DOMAIN a :
                            b[j].status = "pending" /\ b[j].attempt_count = 0
  BY <1>5, <1>8, SettledAdds
<1>10. Reconciled(d, b, i)
  BY <1>3, <1>5, <1>6, <1>7, ReconciledOn
<1>11. \A j \in DOMAIN b : Reconciled(d, b, j)
  BY <1>3, <1>7, <1>9, <1>10, MovedStays, MovedNew
<1>12. SameNodes(d, b)
  BY <1>3, <1>9, SameOn
<1> QED
  BY <1>1, <1>3, <1>11, <1>12 DEF LedgerInv, CycleInv, CommandInv, Waiting, a, b, d

LEMMA LedgerResolveParents ==
    ASSUME TypeInv, LedgerInv, ResolveParents PROVE LedgerInv'
<1> DEFINE a == mem.nodes
           b == mem'.nodes
           d == disk.nodes
<1>1. /\ pc = "reconcile" /\ pc' = "rewind" /\ cand = {} /\ cand' = {}
      /\ mem'.phase = mem.phase /\ disk' = disk /\ DOMAIN b = DOMAIN a
  BY ResolveParentsEffect
<1>2. \A i \in DOMAIN a :
         \/ b[i] = a[i]
         \/ /\ a[i].status = "needs_refactor" /\ b[i].status = "completed"
            /\ b[i].id = a[i].id /\ b[i].depends_on = a[i].depends_on
            /\ b[i].attempt_count = a[i].attempt_count + 0
  BY ResolveParentsEffect DEF Later, Same
<1>3. SameNodes(d, a) /\ mem.phase = disk.phase /\ \A j \in DOMAIN a : Reconciled(d, a, j)
  BY <1>1 DEF LedgerInv, CycleInv
<1>4. \A i \in DOMAIN a : a[i].attempt_count \in Nat
  BY Memory DEF Entry
<1> HIDE DEF a, b, d
<1>5. \A i \in DOMAIN b : Reconciled(d, b, i)
  BY <1>1, <1>2, <1>3, <1>4, MovedStays, ReconciledOn
<1>6. \A i \in DOMAIN b : Moved(d, b, i)
  BY <1>5, ReconciledMoved
<1>7. SameNodes(d, b)
  BY <1>1, <1>2, <1>3 DEF SameNodes
<1> QED
  BY <1>1, <1>3, <1>6, <1>7 DEF LedgerInv, CycleInv, CommandInv, Waiting, a, b, d

LEMMA LedgerRewindNode ==
    ASSUME TypeInv, SelectInv, LedgerInv, RewindNode PROVE LedgerInv'
<1> DEFINE a == mem.nodes
           b == mem'.nodes
           d == disk.nodes
<1>1. /\ pc = "rewind" /\ pc' = "rewind" /\ cand = {} /\ cand' = {}
      /\ mem'.phase = mem.phase /\ disk' = disk
  BY RewindNodeEffect
<1>2. PICK k \in DOMAIN a, r \in rewinds :
         /\ a[k].status = "completed" /\ KindOf(a[k].id) = "diagnose"
         /\ DOMAIN b = DOMAIN a
         /\ \A i \in DOMAIN a :
               \/ b[i] = a[i]
               \/ /\ a[i].id = r[2] \/ ~IsMeta(a[i].id)
                  /\ \E status \in {"pending", "stale"} : Later(a[i], b[i], status, 0)
  BY RewindNodeEffect
<1>3. SameNodes(d, a) /\ mem.phase = disk.phase /\ \A j \in DOMAIN a : Moved(d, a, j)
  BY <1>1 DEF LedgerInv, CycleInv
<1>4. b[k] = a[k]
  <2>1. r[2].meta = <<>>
    BY DEF SelectInv
  <2>2. a[k].id # r[2]
    BY <1>2, <2>1, NamedKind
  <2>3. IsMeta(a[k].id)
    BY <1>2 DEF IsMeta
  <2> QED
    BY <1>2, <2>2, <2>3
<1>5. \A i \in DOMAIN a : a[i].attempt_count \in Nat
  BY Memory DEF Entry
<1>6. \A i \in DOMAIN a :
         \/ b[i] = a[i]
         \/ /\ b[i].status \in {"pending", "stale"} /\ b[i].id = a[i].id
            /\ b[i].depends_on = a[i].depends_on
            /\ b[i].attempt_count = a[i].attempt_count
  BY <1>2, <1>5 DEF Later, Same
<1> HIDE DEF a, b, d
<1>7. HasDiagnosis(b)
  BY <1>2, <1>4 DEF HasDiagnosis
<1>8. \A i \in DOMAIN b : Moved(d, b, i)
  BY <1>2, <1>3, <1>6, <1>7 DEF Moved
<1>9. SameNodes(d, b)
  BY <1>2, <1>3, <1>6 DEF SameNodes
<1> QED
  BY <1>1, <1>3, <1>8, <1>9 DEF LedgerInv, CycleInv, CommandInv, Waiting, a, b, d

LEMMA LedgerSpawnNode ==
    ASSUME TypeInv, LedgerInv, SpawnNode PROVE LedgerInv'
<1> DEFINE a == mem.nodes
           b == mem'.nodes
           d == disk.nodes
<1>1. /\ pc = "spawn" /\ pc' = "spawn" /\ cand = {} /\ cand' = {}
      /\ mem'.phase = mem.phase /\ disk' = disk
  BY SpawnNodeEffect
<1>2. PICK i \in DOMAIN a : b = a \o SpawnedEntries(a, a[i])
  BY SpawnNodeEffect
<1>3. /\ DOMAIN a \subseteq DOMAIN b /\ \A j \in DOMAIN a : b[j] = a[j]
      /\ \A j \in DOMAIN b \ DOMAIN a : New(b[j])
  BY <1>2, SpawnedNew
<1>4. SameNodes(d, a) /\ mem.phase = disk.phase /\ \A j \in DOMAIN a : Moved(d, a, j)
  BY <1>1 DEF LedgerInv, CycleInv
<1> HIDE DEF a, b, d
<1>5. KeepsCompleted(a, b) /\ SameNodes(a, b)
  BY <1>3 DEF KeepsCompleted, SameNodes
<1>6. \A j \in DOMAIN b : Moved(d, b, j)
  BY <1>3, <1>4, <1>5, CompletedKept, MovedStays, MovedNew DEF New
<1>7. SameNodes(d, b)
  BY <1>4, <1>5, SameOn
<1> QED
  BY <1>1, <1>4, <1>6, <1>7 DEF LedgerInv, CycleInv, CommandInv, Waiting, a, b, d

LEMMA LedgerRoute ==
    ASSUME TypeInv, LedgerInv, Route PROVE LedgerInv'
<1> DEFINE a == mem.nodes
<1>1. /\ pc = "spawn" /\ mem' = mem /\ disk' = disk /\ mem.phase # "awaiting_confirm"
      /\ \/ pc' = "complete" /\ cand' = {} /\ AllCompleted(a)
         \/ pc' = "dispatch" /\ cand' = Selected(a)
         \/ pc' = "failed" /\ cand' = {} /\ Exhausted(a) # {}
         \/ pc' = "blocked" /\ cand' = {}
  BY RouteEffect DEF files
<1>2. \A i \in Selected(a) : WaitsWell(a[i], a)
  <2> SUFFICES ASSUME NEW i \in Selected(a) PROVE WaitsWell(a[i], a)
    OBVIOUS
  <2>1. /\ i \in DOMAIN a /\ a[i].depends_on \subseteq CompletedIds(a)
        /\ a[i].status = "failed" => DiagnosisReady(a, a[i])
    BY DEF Selected, Ready
  <2>2. a[i] \in Entry /\ a[i].id \in Id /\ a[i].attempt_count \in Nat
    BY <2>1, Memory DEF Entry
  <2>3. ASSUME DiagnosisReady(a, a[i]) PROVE HasDiagnosis(a)
    <3>1. PICK j \in DOMAIN a :
             /\ a[j].id = MetaId("diagnose", a[i].id, a[i].attempt_count)
             /\ a[j].status = "completed"
      BY <2>3 DEF DiagnosisReady, Children
    <3>2. KindOf(a[j].id) = "diagnose"
      BY <2>2, <3>1, MetaIdType DEF MetaKinds
    <3> QED
      BY <3>1, <3>2 DEF HasDiagnosis
  <2> QED
    BY <2>1, <2>3 DEF WaitsWell
<1>3. \A i \in Waiting' : WaitsWell(mem'.nodes[i], mem'.nodes)
  BY <1>1, <1>2 DEF Waiting
<1>4. mem.phase = disk.phase /\ \A i \in DOMAIN a : Moved(disk.nodes, a, i)
  BY <1>1 DEF LedgerInv, CycleInv
<1>5. CycleInv'
  BY <1>1, <1>4 DEF CycleInv, Phased
<1> QED
  BY <1>1, <1>3, <1>5 DEF LedgerInv, CommandInv

LEMMA WaitsKept ==
    ASSUME TypeInv, LedgerInv, [Next]_vars, pc # "spawn",
           KeepsCompleted(mem.nodes, mem'.nodes)
    PROVE  \A i \in Waiting' : WaitsWell(mem'.nodes[i], mem'.nodes)
<1>1. ~Route
  BY DEF Route, Routing
<1>2. \A i \in Waiting' : i \in Waiting /\ mem'.nodes[i] = mem.nodes[i]
  BY <1>1, WaitingStep
<1>3. /\ CompletedIds(mem.nodes) \subseteq CompletedIds(mem'.nodes)
      /\ HasDiagnosis(mem.nodes) => HasDiagnosis(mem'.nodes)
  BY CompletedKept
<1>4. \A i \in Waiting : WaitsWell(mem.nodes[i], mem.nodes)
  BY DEF LedgerInv
<1> SUFFICES ASSUME NEW i \in Waiting' PROVE WaitsWell(mem'.nodes[i], mem'.nodes)
  OBVIOUS
<1>5. WaitsWell(mem.nodes[i], mem.nodes) /\ mem'.nodes[i] = mem.nodes[i]
  BY <1>2, <1>4
<1> QED
  BY <1>3, <1>5 DEF WaitsWell

(* The candidate starts as the lifecycle has it. *)
LEMMA StartsWell ==
    ASSUME NEW d, NEW a, NEW b, NEW c \in DOMAIN a, Moved(d, a, c), WaitsWell(a[c], a),
           a[c].status \in {"pending", "failed", "stale"},
           a[c].attempt_count < MAX_ATTEMPTS, KeepsCompleted(a, b),
           b[c].attempt_count = a[c].attempt_count + 1,
           b[c].status \in {"running", "failed"}, b[c].depends_on = a[c].depends_on
    PROVE  StartedIn(d, b, c)
<1>1. CompletedIds(a) \subseteq CompletedIds(b) /\ (HasDiagnosis(a) => HasDiagnosis(b))
  BY CompletedKept
<1>2. OldStatus(d, c) \in {"pending", "stale"} \/ HasDiagnosis(a)
  BY DEF Moved, Reconciles, WaitsWell
<1> QED
  BY <1>1, <1>2 DEF Moved, WaitsWell, StartedIn

(* What dispatch does to memory: the candidate starts, and may fail at once *)
(* and get a child.                                                        *)
LEMMA DispatchStarts ==
    ASSUME TypeInv, SelectInv, AttemptInv, LedgerInv,
           LaunchExecutor \/ ExecutorNotFound \/ StartSync
    PROVE  /\ Candidate \in DOMAIN mem'.nodes
           /\ StartedIn(disk.nodes, mem'.nodes, Candidate)
           /\ \A i \in DOMAIN mem'.nodes :
                 i # Candidate => Moved(disk.nodes, mem'.nodes, i)
           /\ SameNodes(disk.nodes, mem'.nodes)
           /\ KeepsCompleted(mem.nodes, mem'.nodes)
           /\ Phased(mem'.phase, disk.phase, mem'.nodes)
<1> DEFINE a == mem.nodes
           b == mem'.nodes
           d == disk.nodes
           c == Candidate
<1>1. pc = "dispatch" /\ c \in cand /\ c \in DOMAIN a /\ mem'.phase = mem.phase
  BY LaunchExecutorEffect, ExecutorNotFoundEffect, StartSyncEffect
<1>2. c \in Waiting
  BY <1>1 DEF Waiting
<1>3. /\ Moved(d, a, c) /\ WaitsWell(a[c], a)
      /\ a[c].status \in {"pending", "failed", "stale"}
      /\ a[c].attempt_count < MAX_ATTEMPTS
      /\ Phased(mem.phase, disk.phase, a)
      /\ \A i \in DOMAIN a : Moved(d, a, i)
      /\ SameNodes(d, a)
  BY <1>1, <1>2 DEF LedgerInv, CycleInv, SelectInv, AttemptInv
<1>4. \E e \in Entry : /\ Later(a[c], e, "running", 1) \/ Later(a[c], e, "failed", 1)
                       /\ Becomes(a, b, c, e) \/ (e.status = "failed" /\ SettledAt(a, b, c, e))
  <2>1. CASE LaunchExecutor
    BY <2>1, LaunchExecutorEffect
  <2>2. CASE ExecutorNotFound
    BY <2>2, ExecutorNotFoundEffect DEF Later
  <2>3. CASE StartSync
    BY <2>3, StartSyncEffect
  <2> QED
    BY <2>1, <2>2, <2>3
<1>5. PICK e \in Entry :
         /\ Later(a[c], e, "running", 1) \/ Later(a[c], e, "failed", 1)
         /\ Becomes(a, b, c, e) \/ (e.status = "failed" /\ SettledAt(a, b, c, e))
  BY <1>4
<1>6. mem'.phase = mem.phase
  BY <1>1
<1> HIDE DEF a, b, d, c
<1>7. /\ e.id = a[c].id /\ e.depends_on = a[c].depends_on
      /\ e.attempt_count = a[c].attempt_count + 1
      /\ e.status \in {"running", "failed"}
  BY <1>5 DEF Later, Same
<1>8. /\ SameNodes(a, b) /\ KeepsCompleted(a, b) /\ b[c] = e
      /\ \A j \in DOMAIN b : \/ j = c
                             \/ j \in DOMAIN a /\ b[j] = a[j]
                             \/ /\ j \notin DOMAIN a
                                /\ b[j].status = "pending" /\ b[j].attempt_count = 0
  <2>1. CASE Becomes(a, b, c, e)
    <3>1. SameNodes(a, b) /\ KeepsCompleted(a, b)
      BY <1>1, <1>3, <1>7, <2>1, BecomesSame DEF c, a
    <3> QED
      BY <2>1, <3>1 DEF Becomes
  <2>2. CASE e.status = "failed" /\ SettledAt(a, b, c, e)
    <3>1. c \in DOMAIN a
      BY <1>1 DEF c, a
    <3>2. /\ SameNodes(a, b) /\ KeepsCompleted(a, b)
          /\ \A j \in DOMAIN b \ DOMAIN a : b[j].status = "pending" /\ b[j].attempt_count = 0
      BY <1>3, <1>7, <2>2, <3>1, SettledAdds
    <3>3. Audited(e) = e
      BY <2>2, AuditedLater
    <3> QED
      BY <2>2, <3>2, <3>3 DEF SettledAt
  <2> QED
    BY <1>5, <2>1, <2>2
<1>9. CompletedIds(a) \subseteq CompletedIds(b) /\ (HasDiagnosis(a) => HasDiagnosis(b))
  BY <1>8, CompletedKept
<1>10. c \in DOMAIN a
  BY <1>1 DEF c, a
<1>11. StartedIn(d, b, c)
  BY <1>3, <1>7, <1>8, <1>10, StartsWell
<1>12. \A i \in DOMAIN b : i # c => Moved(d, b, i)
  BY <1>3, <1>8, <1>9, MovedStays, MovedNew
<1>13. SameNodes(d, b)
  BY <1>3, <1>8, SameOn
<1>14. Phased(mem'.phase, disk.phase, b)
  BY <1>3, <1>6, <1>9 DEF Phased
<1>15. c \in DOMAIN b
  BY <1>8, <1>10 DEF SameNodes
<1> QED
  BY <1>8, <1>11, <1>12, <1>13, <1>14, <1>15 DEF a, b, c, d

LEMMA LedgerLaunch ==
    ASSUME TypeInv, SelectInv, AttemptInv, LedgerInv, [Next]_vars,
           LaunchExecutor \/ ExecutorNotFound
    PROVE  LedgerInv' /\ disk' = disk
<1>1. /\ pc = "dispatch" /\ pc' = "launched" /\ cand' = cand /\ disk' = disk
  BY LaunchExecutorEffect, ExecutorNotFoundEffect
<1>2. /\ StartedIn(disk.nodes, mem'.nodes, Candidate)
      /\ \A i \in DOMAIN mem'.nodes :
            i # Candidate => Moved(disk.nodes, mem'.nodes, i)
      /\ SameNodes(disk.nodes, mem'.nodes)
      /\ KeepsCompleted(mem.nodes, mem'.nodes)
      /\ Phased(mem'.phase, disk.phase, mem'.nodes)
  BY DispatchStarts
<1>3. \A i \in Waiting' : WaitsWell(mem'.nodes[i], mem'.nodes)
  BY <1>1, <1>2, WaitsKept
<1>4. Candidate' = Candidate
  BY <1>1 DEF Candidate
<1> QED
  BY <1>1, <1>2, <1>3, <1>4 DEF LedgerInv, CycleInv, CommandInv

LEMMA LedgerStartSync ==
    ASSUME TypeInv, TypeInv', SelectInv, AttemptInv, RunningInv', LedgerInv,
           [Next]_vars, StartSync
    PROVE  LedgerInv' /\ Lifecycle!CycleWrites
<1>1. pc = "dispatch" /\ pc' = "sync" /\ disk' = mem'
  BY StartSyncEffect
<1>2. /\ Candidate \in DOMAIN mem'.nodes
      /\ StartedIn(disk.nodes, mem'.nodes, Candidate)
      /\ \A i \in DOMAIN mem'.nodes :
            i # Candidate => Moved(disk.nodes, mem'.nodes, i)
      /\ SameNodes(disk.nodes, mem'.nodes)
      /\ KeepsCompleted(mem.nodes, mem'.nodes)
      /\ Phased(mem'.phase, disk.phase, mem'.nodes)
  BY DispatchStarts
<1>3. \A i \in Waiting' : WaitsWell(mem'.nodes[i], mem'.nodes)
  BY <1>1, <1>2, WaitsKept
<1>4. LedgerInv'
  BY <1>1, <1>3, SameItself DEF LedgerInv, CycleInv, CommandInv
<1>5. Cardinality({Candidate}) <= 1
  <2>1. Cardinality({Candidate}) = 1
    BY FS_Singleton, Zenon
  <2> QED
    BY <2>1
<1>6. /\ {Candidate} \in SUBSET DOMAIN disk'.nodes
      /\ SameNodes(disk.nodes, disk'.nodes)
      /\ \A i \in DOMAIN disk'.nodes :
            IF i \in {Candidate} THEN StartedIn(disk.nodes, disk'.nodes, i)
                                 ELSE Moved(disk.nodes, disk'.nodes, i)
      /\ \/ disk'.phase = disk.phase
         \/ /\ disk'.phase = "awaiting_confirm"
            /\ NamedId(Planner) \in CompletedIds(disk'.nodes)
  BY <1>1, <1>2 DEF Phased
<1>7. Lifecycle!CycleWrites
  BY <1>5, <1>6, CycleWrite
<1> QED
  BY <1>4, <1>7

LEMMA LedgerSyncReturns ==
    ASSUME TypeInv, TypeInv', SelectInv, RunningInv', PlanningInv, LedgerInv,
           [Next]_vars, NEW ok \in BOOLEAN, SyncReturns(ok)
    PROVE  LedgerInv' /\ (disk' = disk \/ Lifecycle!CycleWrites)
<1> DEFINE a == mem.nodes
           b == mem'.nodes
<1>1. pc = "sync" /\ cursor \in DOMAIN a /\ mem = disk /\ a[cursor].status = "running"
  BY SyncReturnsEffect DEF LedgerInv, CycleInv, SelectInv
<1>2. PICK e \in Entry, status \in {"completed", "failed"} :
         /\ Later(a[cursor], e, status, 0)
         /\ SettledAt(a, b, cursor, e)
         /\ \/ /\ pc' = "dispatch" /\ cand' = cand /\ disk' = disk
               /\ mem'.phase = mem.phase
            \/ /\ pc' = "dispatch" /\ cand' = cand /\ disk' = disk
               /\ mem'.phase = "awaiting_confirm"
               /\ e.mode = "planning" /\ status = "completed"
            \/ /\ pc' = "indexFailed" /\ cand' = {} /\ disk' = mem'
               /\ mem'.phase = "failed"
               /\ e.attempt_count >= MAX_ATTEMPTS /\ status = "failed"
  BY SyncReturnsEffect
<1>3. PlanningFact(a[cursor])
  BY <1>1 DEF PlanningInv
<1>4. /\ e.id = a[cursor].id /\ e.depends_on = a[cursor].depends_on
      /\ e.status = status /\ e.attempt_count = a[cursor].attempt_count
      /\ PlanningFact(e)
  BY <1>1, <1>2, <1>3, Memory DEF Later, Same, Entry, PlanningFact
<1> HIDE DEF a, b
<1>5. /\ SameNodes(a, b) /\ KeepsCompleted(a, b)
      /\ \A j \in DOMAIN b \ DOMAIN a : b[j].status = "pending" /\ b[j].attempt_count = 0
  BY <1>1, <1>2, <1>4, SettledAdds
<1>6. /\ b[cursor] = Audited(e) /\ Audited(e).attempt_count = e.attempt_count
      /\ Audited(e).status \in {status, "needs_refactor"}
      /\ status = "failed" \/ e.mode = "planning" => Audited(e) = e
  <2>1. StrategyOf(e) = "GOVERNANCE" => e.strategy = "GOVERNANCE"
    BY DEF StrategyOf
  <2> QED
    BY <1>2, <1>4, <2>1, AuditedLater DEF SettledAt, PlanningFact
<1>7. \A j \in DOMAIN a : j # cursor => b[j] = a[j]
  BY <1>2 DEF SettledAt
<1>8. CompletedIds(a) \subseteq CompletedIds(b) /\ (HasDiagnosis(a) => HasDiagnosis(b))
  BY <1>5, CompletedKept
<1>9. Reconciled(a, a, cursor)
  BY <1>1, MovedItself DEF a
<1>10. Reconciled(a, b, cursor)
  BY <1>1, <1>4, <1>6, <1>9, ReconciledOn DEF a
<1>11. \A i \in DOMAIN b : Moved(a, b, i)
  <2>1. ASSUME NEW i \in DOMAIN b, i # cursor PROVE Moved(a, b, i)
    <3>1. CASE i \in DOMAIN a
      BY <1>7, <1>8, <2>1, <3>1, MovedItself, MovedStays
    <3>2. CASE i \notin DOMAIN a
      BY <1>5, <2>1, <3>2, SameItself, MovedNew
    <3> QED
      BY <3>1, <3>2
  <2> QED
    BY <1>10, <2>1, ReconciledMoved
<1>12. \A i \in Waiting' : WaitsWell(mem'.nodes[i], mem'.nodes)
  BY <1>1, <1>5, WaitsKept DEF a, b
<1>13. CASE pc' = "dispatch" /\ disk' = disk /\ mem'.phase = mem.phase
  BY <1>1, <1>5, <1>11, <1>12, <1>13
     DEF LedgerInv, CycleInv, CommandInv, Phased, a, b
<1>14. CASE /\ pc' = "dispatch" /\ disk' = disk /\ mem'.phase = "awaiting_confirm"
            /\ e.mode = "planning" /\ status = "completed"
  <2>1. /\ b[cursor].id = NamedId(Planner) /\ b[cursor].status = "completed"
        /\ cursor \in DOMAIN b
    BY <1>1, <1>4, <1>5, <1>6, <1>14 DEF PlanningFact, SameNodes, a
  <2>2. NamedId(Planner) \in CompletedIds(b)
    BY <2>1 DEF CompletedIds
  <2> QED
    BY <1>1, <1>5, <1>11, <1>12, <1>14, <2>2
       DEF LedgerInv, CycleInv, CommandInv, Phased, a, b
<1>15. CASE /\ pc' = "indexFailed" /\ cand' = {} /\ disk' = mem' /\ mem'.phase = "failed"
            /\ e.attempt_count >= MAX_ATTEMPTS /\ status = "failed"
  <2>1. /\ b[cursor].status = "failed" /\ b[cursor].attempt_count >= MAX_ATTEMPTS
        /\ cursor \in DOMAIN b
    BY <1>1, <1>4, <1>5, <1>6, <1>15 DEF SameNodes, a
  <2>2. Exhausted(b) # {}
    BY <2>1 DEF Exhausted
  <2>3. LedgerInv'
    BY <1>12, <1>15, SameItself DEF LedgerInv, CycleInv, CommandInv
  <2>4. /\ SameNodes(disk.nodes, disk'.nodes) /\ Exhausted(disk'.nodes) # {}
        /\ \A i \in DOMAIN disk'.nodes : Moved(disk.nodes, disk'.nodes, i)
    BY <1>1, <1>5, <1>11, <1>15, <2>2 DEF a, b
  <2>5. Cardinality({}) <= 1
    BY FS_EmptySet
  <2>6. Lifecycle!CycleWrites
    BY <1>15, <2>4, <2>5, CycleWrite
  <2> QED
    BY <2>3, <2>6
<1> QED
  BY <1>2, <1>13, <1>14, <1>15

(* What was moved since the last write is written. *)
LEMMA MovedWrite ==
    ASSUME TypeInv, TypeInv', RunningInv', SameNodes(disk.nodes, disk'.nodes),
           \A i \in DOMAIN disk'.nodes : Moved(disk.nodes, disk'.nodes, i),
           \/ Phased(disk'.phase, disk.phase, disk'.nodes)
           \/ /\ disk.phase # "awaiting_confirm" /\ disk'.phase = "complete"
              /\ AllCompleted(disk'.nodes)
           \/ disk'.phase = "failed" /\ Exhausted(disk'.nodes) # {}
    PROVE  Lifecycle!CycleWrites
<1>1. Cardinality({}) <= 1
  BY FS_EmptySet
<1> QED
  BY <1>1, CycleWrite DEF Phased

LEMMA LedgerWriteLaunched ==
    ASSUME TypeInv, TypeInv', RunningInv', LedgerInv, [Next]_vars, WriteLaunched
    PROVE  LedgerInv' /\ Lifecycle!CycleWrites
<1>1. /\ pc = "launched" /\ pc' = "dispatch" /\ disk' = mem /\ mem' = mem
      /\ Candidate \in DOMAIN mem.nodes
  BY CandidateType DEF WriteLaunched, TypeInv, PcInv
<1>2. /\ SameNodes(disk.nodes, mem.nodes) /\ Phased(mem.phase, disk.phase, mem.nodes)
      /\ StartedIn(disk.nodes, mem.nodes, Candidate)
      /\ \A i \in DOMAIN mem.nodes : i # Candidate => Moved(disk.nodes, mem.nodes, i)
  BY <1>1 DEF LedgerInv, CycleInv
<1>3. Cardinality({Candidate}) <= 1
  <2>1. Cardinality({Candidate}) = 1
    BY FS_Singleton, Zenon
  <2> QED
    BY <2>1
<1>4. /\ {Candidate} \in SUBSET DOMAIN disk'.nodes
      /\ SameNodes(disk.nodes, disk'.nodes)
      /\ \A i \in DOMAIN disk'.nodes :
            IF i \in {Candidate} THEN StartedIn(disk.nodes, disk'.nodes, i)
                                 ELSE Moved(disk.nodes, disk'.nodes, i)
      /\ \/ disk'.phase = disk.phase
         \/ /\ disk'.phase = "awaiting_confirm"
            /\ NamedId(Planner) \in CompletedIds(disk'.nodes)
  BY <1>1, <1>2 DEF Phased
<1>5. Lifecycle!CycleWrites
  BY <1>3, <1>4, CycleWrite
<1>6. KeepsCompleted(mem.nodes, mem'.nodes)
  BY <1>1 DEF KeepsCompleted
<1>7. \A i \in Waiting' : WaitsWell(mem'.nodes[i], mem'.nodes)
  BY <1>1, <1>6, WaitsKept
<1>8. \A i \in DOMAIN mem'.nodes : Moved(disk'.nodes, mem'.nodes, i)
  BY <1>1, MovedItself
<1> QED
  BY <1>1, <1>5, <1>7, <1>8, SameItself DEF LedgerInv, CycleInv, CommandInv, Phased

LEMMA LedgerFinish ==
    ASSUME TypeInv, TypeInv', RunningInv', LedgerInv,
           \/ Persist
           \/ Finalize("complete", "indexComplete") \/ Finalize("failed", "indexFailed")
    PROVE  LedgerInv' /\ Lifecycle!CycleWrites
<1>1. SameNodes(disk.nodes, mem.nodes)
  BY DEF LedgerInv
<1>2. CASE Persist
  <2>1. /\ pc \in {"dispatch", "blocked"} /\ disk' = mem /\ mem' = mem
        /\ pc' = "idle" /\ cand' = {}
    BY <1>2 DEF Persist, WriteManifest, Return
  <2>2. /\ Phased(mem.phase, disk.phase, mem.nodes)
        /\ \A i \in DOMAIN mem.nodes : Moved(disk.nodes, mem.nodes, i)
    BY <2>1 DEF LedgerInv, CycleInv, Phased
  <2>3. Lifecycle!CycleWrites
    BY <1>1, <2>1, <2>2, MovedWrite
  <2>4. SameNodes(disk'.nodes, mem'.nodes)
    BY <2>1, SameItself
  <2> QED
    BY <2>1, <2>3, <2>4 DEF LedgerInv, CycleInv, CommandInv, Waiting
<1>3. CASE Finalize("complete", "indexComplete")
  <2>1. /\ pc = "complete" /\ pc' = "indexComplete" /\ disk' = mem' /\ cand' = {}
        /\ mem'.phase = "complete" /\ mem'.nodes = mem.nodes
    BY <1>3, FinalizeEffect
  <2>2. /\ disk.phase # "awaiting_confirm" /\ AllCompleted(mem.nodes)
        /\ \A i \in DOMAIN mem.nodes : Moved(disk.nodes, mem.nodes, i)
    BY <2>1 DEF LedgerInv, CycleInv
  <2>3. disk'.nodes = mem.nodes /\ disk'.phase = "complete"
    BY <2>1
  <2>4. Lifecycle!CycleWrites
    BY <1>1, <2>2, <2>3, MovedWrite
  <2> QED
    BY <2>1, <2>4, SameItself DEF LedgerInv, CycleInv, CommandInv, Waiting
<1>4. CASE Finalize("failed", "indexFailed")
  <2>1. /\ pc = "failed" /\ pc' = "indexFailed" /\ disk' = mem' /\ cand' = {}
        /\ mem'.phase = "failed" /\ mem'.nodes = mem.nodes
    BY <1>4, FinalizeEffect
  <2>2. /\ Exhausted(mem.nodes) # {}
        /\ \A i \in DOMAIN mem.nodes : Moved(disk.nodes, mem.nodes, i)
    BY <2>1 DEF LedgerInv, CycleInv
  <2>3. disk'.nodes = mem.nodes /\ disk'.phase = "failed"
    BY <2>1
  <2>4. Lifecycle!CycleWrites
    BY <1>1, <2>2, <2>3, MovedWrite
  <2> QED
    BY <2>1, <2>4, SameItself DEF LedgerInv, CycleInv, CommandInv, Waiting
<1> QED
  BY <1>2, <1>3, <1>4

LEMMA LedgerConfirm ==
    ASSUME TypeInv, LedgerInv, NEW answer, Confirm(answer)
    PROVE  LedgerInv' /\ disk' = disk
<1> DEFINE b == mem'.nodes
           d == disk.nodes
<1>1. /\ pc' = "confirm" /\ disk.phase = "awaiting_confirm" /\ disk' = disk
      /\ cand' = {} /\ plan # NoPlan
      /\ \/ /\ mem'.phase = "running"
            /\ b = d \o [k \in DOMAIN plan.nodes |-> EntryOf(plan.nodes[k], {}, {})]
         \/ /\ mem'.phase = "planning" /\ DOMAIN b = DOMAIN d
            /\ \A i \in DOMAIN d :
                  /\ Same(d[i], b[i])
                  /\ b[i].status = IF d[i].id = NamedId(Planner)
                                     THEN "pending" ELSE d[i].status
                  /\ b[i].attempt_count = d[i].attempt_count
  BY ConfirmEffect DEF TypeInv, PcInv
<1>2. CASE /\ mem'.phase = "running"
           /\ b = d \o [k \in DOMAIN plan.nodes |-> EntryOf(plan.nodes[k], {}, {})]
  <2>1. /\ DOMAIN d \subseteq DOMAIN b /\ \A j \in DOMAIN d : b[j] = d[j]
        /\ \A j \in DOMAIN b \ DOMAIN d : New(b[j])
    BY <1>1, <1>2, PlannedNew
  <2> HIDE DEF b, d
  <2>2. SameNodes(d, b) /\ AcceptedIn(d, b)
    BY <2>1 DEF SameNodes, AcceptedIn, New
  <2> QED
    BY <1>1, <1>2, <2>2 DEF LedgerInv, CycleInv, CommandInv, Waiting, b, d
<1>3. CASE /\ mem'.phase = "planning" /\ DOMAIN b = DOMAIN d
           /\ \A i \in DOMAIN d :
                  /\ Same(d[i], b[i])
                  /\ b[i].status = IF d[i].id = NamedId(Planner)
                                     THEN "pending" ELSE d[i].status
                  /\ b[i].attempt_count = d[i].attempt_count
  <2> HIDE DEF b, d
  <2>1. SameNodes(d, b) /\ RejectedIn(d, b)
    BY <1>3 DEF SameNodes, RejectedIn, Same
  <2> QED
    BY <1>1, <1>3, <2>1 DEF LedgerInv, CycleInv, CommandInv, Waiting, b, d
<1> QED
  BY <1>1, <1>2, <1>3

LEMMA LedgerCommands ==
    ASSUME TypeInv, TypeInv', LedgerInv,
           WriteConfirmed \/ ReopenWorkflow \/ \E i \in DOMAIN disk.nodes : ResetNode(i)
    PROVE  LedgerInv' /\ Lifecycle!LifeNext
<1>1. CASE WriteConfirmed
  <2>1. /\ pc = "confirm" /\ pc' = "idle" /\ disk' = mem /\ mem' = mem /\ cand' = {}
    BY <1>1 DEF WriteConfirmed, WriteManifest, Return
  <2>2. /\ SameNodes(disk.nodes, mem.nodes) /\ disk.phase = "awaiting_confirm"
        /\ \/ mem.phase = "running" /\ AcceptedIn(disk.nodes, mem.nodes)
           \/ mem.phase = "planning" /\ RejectedIn(disk.nodes, mem.nodes)
    BY <2>1 DEF LedgerInv, CommandInv
  <2>3. Lifecycle!PlanAccepted \/ Lifecycle!PlanRejected
    BY <2>1, <2>2, AcceptWrite, RejectWrite
  <2> QED
    BY <2>1, <2>3, SameItself
       DEF LedgerInv, CycleInv, CommandInv, Waiting, Lifecycle!LifeNext
<1>2. CASE ReopenWorkflow
  <2>1. /\ pc = "reset" /\ pc' = "indexActive" /\ disk' = mem' /\ cand' = {}
        /\ mem'.phase = "running" /\ mem'.nodes = mem.nodes
    BY <1>2, ReopenEffect
  <2>2. mem = disk /\ disk.phase = "failed"
    BY <2>1 DEF LedgerInv, CommandInv
  <2>3. Lifecycle!Reopened
    BY <2>1, <2>2, ReopenWrite
  <2> QED
    BY <2>1, <2>3, SameItself
       DEF LedgerInv, CycleInv, CommandInv, Waiting, Lifecycle!LifeNext
<1>3. CASE \E i \in DOMAIN disk.nodes : ResetNode(i)
  <2>1. PICK i \in DOMAIN disk.nodes : ResetNode(i)
    BY <1>3
  <2>2. /\ disk' = mem' /\ mem'.phase = disk.phase /\ cand' = {}
        /\ pc' = IF disk.phase = "failed" THEN "reset" ELSE "idle"
    BY <2>1, ResetNodeEffect
  <2>3. PICK e \in Entry : /\ Later(disk.nodes[i], e, "pending", 0)
                           /\ Becomes(disk.nodes, mem'.nodes, i, e)
    BY <2>1, ResetNodeEffect
  <2>4. Lifecycle!NodeReset
    BY <2>2, <2>3, ResetWrite
  <2> QED
    BY <2>2, <2>4, SameItself
       DEF LedgerInv, CycleInv, CommandInv, Waiting, Lifecycle!LifeNext
<1> QED
  BY <1>1, <1>2, <1>3

LEMMA LedgerElse ==
    ASSUME TypeInv, LedgerInv, Reread \/ Silent PROVE LedgerInv' /\ disk' = disk
<1>1. CASE Reread
  <2>1. mem' = disk /\ disk' = disk /\ pc' \in {"idle", "reconcile"} /\ cand' = {}
    BY <1>1 DEF Reread
  <2>2. SameNodes(disk.nodes, disk.nodes)
    BY SameItself
  <2>3. \A i \in DOMAIN disk.nodes : Reconciled(disk.nodes, disk.nodes, i)
    BY MovedItself
  <2> QED
    BY <2>1, <2>2, <2>3 DEF LedgerInv, CycleInv, CommandInv, Waiting
<1>2. CASE Silent /\ UNCHANGED pc
  BY <1>2 DEF Silent, LedgerInv, CycleInv, CommandInv, Waiting, Candidate
<1>3. CASE Silent /\ RewindsDone
  <2>1. UNCHANGED <<disk, mem, cand>> /\ pc = "rewind" /\ pc' = "spawn" /\ cand = {}
    BY <1>3 DEF Silent, RewindsDone, TypeInv, PcInv
  <2> QED
    BY <2>1 DEF LedgerInv, CycleInv, CommandInv, Waiting
<1> QED
  BY <1>1, <1>2, <1>3 DEF Silent

LEMMA LedgerStep ==
    ASSUME TypeInv, TypeInv', SelectInv, AttemptInv, RunningInv', PlanningInv,
           LedgerInv, [Next]_vars
    PROVE  LedgerInv' /\ [Lifecycle!LifeNext]_(Lifecycle!lifeVars)
<1>1. Lifecycle!CycleWrites => Lifecycle!LifeNext
  BY DEF Lifecycle!LifeNext
<1>2. disk' = disk => UNCHANGED Lifecycle!lifeVars
  BY NoWrite
<1>3. CASE ReconcileNode \/ ResolveParents \/ RewindNode \/ SpawnNode \/ Route
  <2>1. LedgerInv'
    BY <1>3, LedgerReconcileNode, LedgerResolveParents, LedgerRewindNode,
       LedgerSpawnNode, LedgerRoute
  <2>2. disk' = disk
    BY <1>3, ReconcileNodeEffect, ResolveParentsEffect, RewindNodeEffect,
       SpawnNodeEffect, RouteEffect DEF files
  <2> QED
    BY <1>2, <2>1, <2>2
<1>4. CASE LaunchExecutor \/ ExecutorNotFound
  BY <1>2, <1>4, LedgerLaunch
<1>5. CASE StartSync
  BY <1>1, <1>5, LedgerStartSync
<1>6. CASE \E ok \in BOOLEAN : SyncReturns(ok)
  BY <1>1, <1>2, <1>6, LedgerSyncReturns
<1>7. CASE WriteLaunched
  BY <1>1, <1>7, LedgerWriteLaunched
<1>8. CASE \/ Persist
           \/ Finalize("complete", "indexComplete") \/ Finalize("failed", "indexFailed")
  BY <1>1, <1>8, LedgerFinish
<1>9. CASE \E answer \in {"y", "n"} : Confirm(answer)
  BY <1>2, <1>9, LedgerConfirm
<1>10. CASE WriteConfirmed \/ ReopenWorkflow \/ \E i \in DOMAIN disk.nodes : ResetNode(i)
  BY <1>10, LedgerCommands
<1>11. CASE Reread \/ Silent
  BY <1>2, <1>11, LedgerElse
<1> QED
  BY <1>3, <1>4, <1>5, <1>6, <1>7, <1>8, <1>9, <1>10, <1>11, StepCases

LEMMA LedgerInit == ASSUME Init PROVE LedgerInv /\ Lifecycle!LifeInit
<1>1. /\ disk.phase = "planning" /\ disk.nodes = <<PlannerEntry>> /\ mem = disk
      /\ pc = "idle" /\ cand = {}
  BY DEF Init
<1>2. LedgerInv
  BY <1>1, SameItself DEF LedgerInv, CycleInv, CommandInv, Waiting
<1>3. /\ PlannerEntry.id = NamedId(Planner) /\ PlannerEntry.status = "pending"
      /\ PlannerEntry.attempt_count = 0 /\ PlannerEntry.depends_on = {}
      /\ KindOf(NamedId(Planner)) = "named"
  BY DEF PlannerEntry, EntryOf, KindOf, NamedId
<1> HIDE DEF PlannerEntry
<1>4. LedgerOf(<<PlannerEntry>>) =
         <<[id |-> NamedId(Planner), kind |-> "named", status |-> "pending",
            attempts |-> 0, depends_on |-> {}]>>
  BY <1>3 DEF LedgerOf
<1>5. Ledger = LedgerOf(disk.nodes)
  BY LedgerNow
<1> QED
  BY <1>1, <1>2, <1>4, <1>5 DEF Lifecycle!LifeInit

(* Every write of manifest.json is a step of the abstract lifecycle, with  *)
(* crashes, rewinds and resets wherever they happen: in particular no node *)
(* starts without an attempt, a slot and its dependencies, and none moves  *)
(* back unless a diagnosis is completed or the user says so.               *)
THEOREM EngineImplementsLifecycle ==
    ASSUME OnePlanner PROVE Spec => ImplementsLifecycle
<1>1. Init => LedgerInv /\ Lifecycle!LifeInit /\ SelectInv /\ PlanningInv
  BY LedgerInit, SelectInit, PlanningInit
<1>2. /\ TypeInv /\ TypeInv' /\ SelectInv /\ AttemptInv /\ RunningInv' /\ PlanningInv
      /\ LedgerInv /\ [Next]_vars
      => /\ SelectInv' /\ PlanningInv' /\ LedgerInv'
         /\ [Lifecycle!LifeNext]_(Lifecycle!lifeVars)
  BY SelectStep, PlanningStep, LedgerStep
<1> QED
  BY <1>1, <1>2, TypeInvariant, AttemptInvariant, RunningInvariant, PTL
     DEF Spec, ImplementsLifecycle, Lifecycle!LifeSpec
=============================================================================
