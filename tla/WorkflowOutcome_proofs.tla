------------------------ MODULE WorkflowOutcome_proofs ------------------------
(***************************************************************************)
(* What a workflow's nodes and its end stand on: retries on diagnoses,     *)
(* executors on manifest entries, ids on names nobody else takes, what ran *)
(* on completed dependencies, a refactoring on its findings, a complete    *)
(* workflow on nodes that are done.                                        *)
(***************************************************************************)
EXTENDS WorkflowSteps_proofs

(* What is selected waits; what runs in the foreground is running and is   *)
(* no background node; rewinds name named nodes.                           *)
SelectInv ==
    /\ \A i \in Waiting : mem.nodes[i].status \in {"pending", "failed", "stale"}
    /\ pc = "sync" => /\ mem.nodes[cursor].mode # "none"
                      /\ mem.nodes[cursor].status = "running"
    /\ \A r \in rewinds : r[2].meta = <<>>

LEMMA SyncStep ==
    ASSUME TypeInv, [Next]_vars, pc' = "sync"
    PROVE  StartSync \/ (pc = "sync" /\ UNCHANGED <<disk, mem, cursor, cand>>)
<1>1. CASE \/ PlannerWrites \/ SyncSpawns \/ Executors \/ QuitRepl \/ UNCHANGED vars
  BY <1>1 DEF PlannerWrites, SyncSpawns, Executors, ExecutorExits, QuitRepl, vars
<1>2. CASE \/ ReconcileNode \/ ResolveParents \/ RewindNode \/ SpawnNode \/ Route
           \/ LaunchExecutor \/ ExecutorNotFound
  BY <1>2, ReconcileNodeEffect, ResolveParentsEffect, RewindNodeEffect, SpawnNodeEffect,
     RouteEffect, LaunchExecutorEffect, ExecutorNotFoundEffect
<1>3. CASE \/ (\E ok \in BOOLEAN : SyncReturns(ok))
           \/ (\E answer \in {"y", "n"} : Confirm(answer))
           \/ (\E i \in DOMAIN disk.nodes : ResetNode(i))
           \/ ReopenWorkflow \/ WriteLaunched \/ Persist \/ WriteConfirmed
           \/ RewindsDone
           \/ Finalize("complete", "indexComplete") \/ Finalize("failed", "indexFailed")
  BY <1>3, SyncReturnsEffect, ConfirmEffect, ResetNodeEffect, ReopenEffect, WriteEffect,
     FinalizeEffect DEF RewindsDone
<1>4. CASE \/ StartCycle \/ RouteAwaiting \/ DispatchAborts \/ Crash
           \/ (\E at, status : SyncIndex(at, status))
  BY <1>4, RereadEffect DEF Reread
<1> QED
  BY <1>1, <1>2, <1>3, <1>4 DEF Next, EngineStep, Reconcile, Dispatch, Finish, User

LEMMA RewindsStep ==
    ASSUME TypeInv, [Next]_vars, NEW r \in rewinds', r \notin rewinds
    PROVE  \E target \in RewindTo : r[2] = NamedId(target)
<1>1. CASE Executors
  BY <1>1 DEF Executors, ExecutorExits
<1>2. CASE PlannerWrites \/ SyncSpawns \/ QuitRepl \/ RewindsDone \/ UNCHANGED vars
  BY <1>2 DEF PlannerWrites, SyncSpawns, QuitRepl, RewindsDone, files, vars
<1>3. CASE \/ ReconcileNode \/ ResolveParents \/ RewindNode \/ SpawnNode \/ Route
           \/ LaunchExecutor \/ ExecutorNotFound \/ StartSync
  BY <1>3, ReconcileNodeEffect, ResolveParentsEffect, RewindNodeEffect, SpawnNodeEffect,
     RouteEffect, LaunchExecutorEffect, ExecutorNotFoundEffect, StartSyncEffect DEF files
<1>4. CASE \/ (\E ok \in BOOLEAN : SyncReturns(ok))
           \/ (\E answer \in {"y", "n"} : Confirm(answer))
           \/ (\E i \in DOMAIN disk.nodes : ResetNode(i))
           \/ ReopenWorkflow \/ WriteLaunched \/ Persist \/ WriteConfirmed
           \/ Finalize("complete", "indexComplete") \/ Finalize("failed", "indexFailed")
  BY <1>4, SyncReturnsEffect, ConfirmEffect, ResetNodeEffect, ReopenEffect, WriteEffect,
     FinalizeEffect
<1>5. CASE \/ StartCycle \/ RouteAwaiting \/ DispatchAborts \/ Crash
           \/ (\E at, status : SyncIndex(at, status))
  BY <1>5, RereadEffect DEF Reread
<1> QED
  BY <1>1, <1>2, <1>3, <1>4, <1>5
     DEF Next, EngineStep, Reconcile, Dispatch, Finish, User

LEMMA SelectInit == ASSUME Init PROVE SelectInv
  BY DEF Init, SelectInv, Waiting

LEMMA SelectStep ==
    ASSUME TypeInv, SelectInv, [Next]_vars PROVE SelectInv'
<1>1. \A i \in Waiting' : mem'.nodes[i].status \in {"pending", "failed", "stale"}
  <2>1. CASE Route
    <3>1. mem' = mem /\ cand' \subseteq Selected(mem.nodes)
      BY <2>1, RouteEffect
    <3> QED
      BY <3>1 DEF Waiting, Selected, Ready
  <2>2. CASE \A i \in Waiting' : i \in Waiting /\ mem'.nodes[i] = mem.nodes[i]
    BY <2>2 DEF SelectInv
  <2> QED
    BY <2>1, <2>2, WaitingStep
<1>2. ASSUME pc' = "sync"
      PROVE  mem'.nodes[cursor'].mode # "none" /\ mem'.nodes[cursor'].status = "running"
  <2>1. CASE StartSync
    BY <2>1, StartSyncEffect DEF Becomes, Later, Same
  <2>2. CASE pc = "sync" /\ UNCHANGED <<disk, mem, cursor, cand>>
    BY <2>2 DEF SelectInv
  <2> QED
    BY <1>2, <2>1, <2>2, SyncStep
<1>3. ASSUME NEW r \in rewinds' PROVE r[2].meta = <<>>
  <2>1. CASE r \in rewinds
    BY <2>1 DEF SelectInv
  <2>2. CASE r \notin rewinds
    <3>1. PICK target \in RewindTo : r[2] = NamedId(target)
      BY <2>2, RewindsStep
    <3> QED
      BY <3>1 DEF NamedId
  <2> QED
    BY <2>1, <2>2
<1> QED
  BY <1>1, <1>2, <1>3 DEF SelectInv

(* A diagnosis that is completed stays completed. *)
KeepsDiagnoses(a, b) ==
    \A j \in DOMAIN a :
        /\ j \in DOMAIN b /\ b[j].id = a[j].id
        /\ a[j].status = "completed" /\ KindOf(a[j].id) = "diagnose"
              => b[j].status = "completed"

LEMMA DiagnosedKept ==
    ASSUME NEW a, NEW b, KeepsDiagnoses(a, b),
           NEW id \in CompletedIds(a), KindOf(id) = "diagnose"
    PROVE  id \in CompletedIds(b)
  BY DEF KeepsDiagnoses, CompletedIds

LEMMA KeepsSettled ==
    ASSUME NEW a \in Seq(Entry), NEW b, NEW i \in DOMAIN a, NEW e \in Entry,
           e.id = a[i].id, SettledAt(a, b, i, e),
           a[i].status # "completed" \/ KindOf(a[i].id) # "diagnose"
    PROVE  KeepsDiagnoses(a, b)
<1>1. Audited(e).id = e.id
  BY AuditedType DEF Entry
<1> QED
  BY <1>1 DEF SettledAt, KeepsDiagnoses

LEMMA KeepsBecomes ==
    ASSUME NEW a, NEW b, NEW i \in DOMAIN a, NEW e, Becomes(a, b, i, e), e.id = a[i].id,
           a[i].status # "completed"
    PROVE  KeepsDiagnoses(a, b)
  BY DEF Becomes, KeepsDiagnoses

LEMMA NamedKind == ASSUME NEW id, id.meta = <<>> PROVE KindOf(id) # "diagnose"
  BY DEF KindOf

LEMMA DiagnosesStep ==
    ASSUME TypeInv, MetaInv, SelectInv, [Next]_vars
    PROVE  \/ KeepsDiagnoses(mem.nodes, mem'.nodes)
           \/ cand' = {} /\ mem'.nodes = disk.nodes
           \/ cand' = {} /\ KeepsDiagnoses(disk.nodes, mem'.nodes)
           \/ \E i \in DOMAIN disk.nodes : ResetNode(i)
<1> DEFINE d == disk.nodes
           a == mem.nodes
           b == mem'.nodes
           Goal == \/ KeepsDiagnoses(a, b)
                   \/ cand' = {} /\ b = d
                   \/ cand' = {} /\ KeepsDiagnoses(d, b)
                   \/ \E i \in DOMAIN disk.nodes : ResetNode(i)
<1> SUFFICES Goal
  OBVIOUS
<1>1. /\ a \in Seq(Entry) /\ d \in Seq(Entry)
      /\ \A i \in DOMAIN a : a[i] \in Entry
      /\ \A i \in DOMAIN a : KindOf(a[i].id) = "diagnose" => a[i].mode = "none"
      /\ \A i \in Waiting : i \in DOMAIN a /\ a[i].status # "completed"
  BY Memory DEF MetaInv, MetaFact, KindOf, SelectInv, TypeInv, TypeOK, Waiting
<1>2. \A ns : KeepsDiagnoses(ns, ns)
  BY DEF KeepsDiagnoses
<1>3. KeepsDiagnoses(a, b) => Goal
  OBVIOUS
<1>4. cand' = {} /\ KeepsDiagnoses(d, b) => Goal
  OBVIOUS
<1>5. cand' = {} /\ b = d => Goal
  OBVIOUS
<1> HIDE DEF a, b, d, Goal
<1>6. CASE ReconcileNode
  <2>1. PICK i \in DOMAIN a : /\ Settled(a[i]) \in Entry /\ Same(a[i], Settled(a[i]))
                              /\ SettledAt(a, b, i, Settled(a[i]))
                              /\ Settles(a[i])
    BY <1>6, ReconcileNodeEffect DEF a, b
  <2>2. Settled(a[i]).id = a[i].id /\ a[i].status # "completed"
    BY <2>1 DEF Same, Settles
  <2> QED
    BY <1>1, <1>3, <2>1, <2>2, KeepsSettled
<1>7. CASE ResolveParents
  <2>1. /\ DOMAIN b = DOMAIN a
        /\ \A i \in DOMAIN a : b[i] = a[i] \/ Later(a[i], b[i], "completed", 0)
    BY <1>7, ResolveParentsEffect DEF a, b
  <2> QED
    BY <1>3, <2>1 DEF Later, Same, KeepsDiagnoses
<1>8. CASE RewindNode
  <2>1. PICK r \in rewinds :
           /\ DOMAIN b = DOMAIN a
           /\ \A i \in DOMAIN a :
                 \/ b[i] = a[i]
                 \/ /\ a[i].id = r[2] \/ ~IsMeta(a[i].id)
                    /\ \E status \in {"pending", "stale"} : Later(a[i], b[i], status, 0)
    BY <1>8, RewindNodeEffect DEF a, b
  <2>2. KindOf(r[2]) # "diagnose"
    BY NamedKind DEF SelectInv
  <2> QED
    BY <1>3, <2>1, <2>2 DEF Later, Same, KeepsDiagnoses, IsMeta
<1>9. CASE SpawnNode
  <2>1. PICK i \in DOMAIN mem.nodes :
           mem'.nodes = mem.nodes \o SpawnedEntries(mem.nodes, mem.nodes[i])
    BY <1>9, SpawnNodeEffect
  <2>2. DOMAIN a \subseteq DOMAIN b /\ \A j \in DOMAIN a : b[j] = a[j]
    BY <2>1, SpawnedNew DEF a, b
  <2> QED
    BY <1>3, <2>2 DEF KeepsDiagnoses
<1>10. CASE LaunchExecutor \/ StartSync
  <2>1. PICK e \in Entry :
           Later(a[Candidate], e, "running", 1) /\ Becomes(a, b, Candidate, e)
    BY <1>10, LaunchExecutorEffect, StartSyncEffect DEF a, b
  <2>2. Candidate \in Waiting
    BY <1>10, LaunchExecutorEffect, StartSyncEffect DEF Waiting
  <2> QED
    BY <1>1, <1>3, <2>1, <2>2, KeepsBecomes DEF Later, Same
<1>11. CASE ExecutorNotFound
  <2>1. PICK e \in Entry :
           Later(a[Candidate], e, "failed", 1) /\ SettledAt(a, b, Candidate, e)
    BY <1>11, ExecutorNotFoundEffect DEF a, b
  <2>2. Candidate \in Waiting
    BY <1>11, ExecutorNotFoundEffect DEF Waiting
  <2> QED
    BY <1>1, <1>3, <2>1, <2>2, KeepsSettled DEF Later, Same
<1>12. CASE \E ok \in BOOLEAN : SyncReturns(ok)
  <2>1. /\ cursor \in DOMAIN a /\ pc = "sync"
        /\ \E e \in Entry, status \in {"completed", "failed"} :
              Later(a[cursor], e, status, 0) /\ SettledAt(a, b, cursor, e)
    BY <1>12, SyncReturnsEffect DEF a, b
  <2>2. KindOf(a[cursor].id) # "diagnose"
    BY <1>1, <2>1 DEF SelectInv, a
  <2> QED
    BY <1>1, <1>3, <2>1, <2>2, KeepsSettled DEF Later, Same
<1>13. CASE \E answer \in {"y", "n"} : Confirm(answer)
  <2>1. plan # NoPlan /\ cand' = {}
    BY <1>13, ConfirmEffect
  <2>2. CASE b = d \o [k \in DOMAIN plan.nodes |-> EntryOf(plan.nodes[k], {}, {})]
    <3>1. DOMAIN d \subseteq DOMAIN b /\ \A j \in DOMAIN d : b[j] = d[j]
      BY <2>1, <2>2, PlannedNew DEF b, d
    <3> QED
      BY <1>4, <2>1, <3>1 DEF KeepsDiagnoses
  <2>3. CASE /\ DOMAIN b = DOMAIN d
             /\ \A i \in DOMAIN d :
                   /\ Same(d[i], b[i])
                   /\ b[i].status = IF d[i].id = NamedId(Planner)
                                      THEN "pending" ELSE d[i].status
    <3>1. KindOf(NamedId(Planner)) # "diagnose"
      BY DEF KindOf, NamedId
    <3> QED
      BY <1>4, <2>1, <2>3, <3>1 DEF KeepsDiagnoses, Same
  <2> QED
    BY <1>13, <2>2, <2>3, ConfirmEffect DEF b, d
<1>14. CASE \E i \in DOMAIN disk.nodes : ResetNode(i)
  BY <1>14 DEF Goal
<1>15. CASE \/ Finalize("complete", "indexComplete") \/ Finalize("failed", "indexFailed")
            \/ ReopenWorkflow \/ Route \/ WriteLaunched \/ Persist \/ WriteConfirmed
            \/ Reread \/ Silent
  <2>1. b = a \/ (cand' = {} /\ b = d)
    BY <1>15, FinalizeEffect, ReopenEffect, RouteEffect, WriteEffect
       DEF Reread, Silent, a, b, d
  <2> QED
    BY <1>2, <1>3, <1>5, <2>1
<1> QED
  BY <1>6, <1>7, <1>8, <1>9, <1>10, <1>11, <1>12, <1>13, <1>14, <1>15, StepCases

-----------------------------------------------------------------------------
(* A retry stands on the diagnoses of all attempts before it.              *)

(* Nothing puts a node back that was tried: no rewind and no reset.  Where *)
(* they do, a node is tried again without a diagnosis.                     *)
NoPutBack == RewindTo = {} /\ MaxResets = 0

DiagnosedUpTo(e, n, ns) ==
    \A a \in 1 .. n : MetaId("diagnose", e.id, a) \in CompletedIds(ns)

RetryEntry(e, ns) ==
    /\ e.status # "stale"
    /\ e.mode = "none" =>
          /\ DiagnosedUpTo(e, e.attempt_count - 1, ns)
          /\ e.status = "pending" => e.attempt_count = 0

Retries(ns) == \A i \in DOMAIN ns : RetryEntry(ns[i], ns)

RetryInv ==
    /\ rewinds = {}
    /\ Retries(disk.nodes) /\ Retries(mem.nodes)
    /\ \A i \in Waiting : mem.nodes[i].mode = "none" =>
          DiagnosedUpTo(mem.nodes[i], mem.nodes[i].attempt_count, mem.nodes)

LEMMA UpToKept ==
    ASSUME NEW a, NEW b, KeepsDiagnoses(a, b), NEW e \in Entry, NEW n \in Int,
           DiagnosedUpTo(e, n, a)
    PROVE  DiagnosedUpTo(e, n, b)
<1>1. \A k \in 1 .. n : KindOf(MetaId("diagnose", e.id, k)) = "diagnose"
  <2>1. \A k \in 1 .. n : k \in Nat
    OBVIOUS
  <2> QED
    BY <2>1, MetaIdType DEF Entry, MetaKinds
<1> QED
  BY <1>1, DiagnosedKept DEF DiagnosedUpTo

LEMMA RetryKept ==
    ASSUME NEW a \in Seq(Entry), NEW b, KeepsDiagnoses(a, b), Retries(a),
           \A j \in DOMAIN b : (j \in DOMAIN a /\ b[j] = a[j]) \/ RetryEntry(b[j], b)
    PROVE  Retries(b)
<1>1. \A j \in DOMAIN a : a[j] \in Entry /\ a[j].attempt_count - 1 \in Int
  <2>1. \A j \in DOMAIN a : a[j] \in Entry
    BY ElementOfSeq, LenProperties
  <2> QED
    BY <2>1 DEF Entry
<1>2. \A j \in DOMAIN a : RetryEntry(a[j], b)
  BY <1>1, UpToKept DEF Retries, RetryEntry
<1> QED
  BY <1>2 DEF Retries

(* e goes on as f, in a status that follows from running, or is fresh. *)
LEMMA RetryGoesOn ==
    ASSUME NEW a, NEW b, KeepsDiagnoses(a, b), NEW e \in Entry, NEW f,
           Same(e, f), f.attempt_count = e.attempt_count,
           f.status \notin {"pending", "stale"}, RetryEntry(e, a)
    PROVE  RetryEntry(f, b)
<1>1. e.attempt_count - 1 \in Int
  BY DEF Entry
<1>2. e.mode = "none" => DiagnosedUpTo(e, e.attempt_count - 1, b)
  BY <1>1, UpToKept DEF RetryEntry
<1> QED
  BY <1>2 DEF RetryEntry, Same, DiagnosedUpTo

LEMMA RetryNew == ASSUME NEW e, NEW ns, New(e) PROVE RetryEntry(e, ns)
  BY DEF RetryEntry, New, DiagnosedUpTo

(* One attempt more, of an entry whose attempts are all diagnosed. *)
LEMMA RetryStarts ==
    ASSUME NEW a, NEW b, KeepsDiagnoses(a, b), NEW e \in Entry, NEW f,
           NEW status \in {"running", "failed", "needs_refactor"},
           Same(e, f), f.attempt_count = e.attempt_count + 1, f.status = status,
           e.mode = "none" => DiagnosedUpTo(e, e.attempt_count, a)
    PROVE  RetryEntry(f, b)
<1>1. e.attempt_count \in Int /\ f.attempt_count - 1 = e.attempt_count
  BY DEF Entry
<1>2. e.mode = "none" => DiagnosedUpTo(e, e.attempt_count, b)
  BY <1>1, UpToKept
<1>3. DiagnosedUpTo(e, e.attempt_count, b) => DiagnosedUpTo(f, f.attempt_count - 1, b)
  BY <1>1 DEF Same, DiagnosedUpTo
<1> QED
  BY <1>2, <1>3 DEF RetryEntry, Same

(* The entry that SettledAt puts in place, and its child. *)
LEMMA RetrySettled ==
    ASSUME NEW a \in Seq(Entry), NEW b, NEW i \in DOMAIN a, NEW e \in Entry,
           e.id = a[i].id, SettledAt(a, b, i, e), KeepsDiagnoses(a, b), Retries(a),
           e.status \notin {"pending", "stale"}, RetryEntry(e, b)
    PROVE  Retries(b)
<1>1. /\ Same(e, Audited(e)) /\ Audited(e).attempt_count = e.attempt_count
      /\ Audited(e).status \notin {"pending", "stale"}
  BY AuditedLater DEF Same
<1>2. RetryEntry(Audited(e), b)
  <2>1. KeepsDiagnoses(b, b)
    BY DEF KeepsDiagnoses
  <2> QED
    BY <1>1, <2>1, RetryGoesOn
<1>3. \A j \in DOMAIN b \ DOMAIN a :
         b[j].status = "pending" /\ b[j].attempt_count = 0
  BY DEF SettledAt, MetaEntry
<1>4. \A j \in DOMAIN b \ DOMAIN a : RetryEntry(b[j], b)
  BY <1>3 DEF RetryEntry, DiagnosedUpTo
<1> QED
  BY <1>2, <1>4, RetryKept DEF SettledAt

LEMMA SelectedDiagnosed ==
    ASSUME NEW ns \in Seq(Entry), Retries(ns), NEW i \in Selected(ns), ns[i].mode = "none"
    PROVE  DiagnosedUpTo(ns[i], ns[i].attempt_count, ns)
<1> DEFINE e == ns[i]
           n == e.attempt_count
<1>1. i \in DOMAIN ns /\ e \in Entry /\ n \in Nat
  <2>1. i \in DOMAIN ns
    BY DEF Selected, Ready
  <2>2. e \in Entry
    BY <2>1, ElementOfSeq, LenProperties
  <2> QED
    BY <2>1, <2>2 DEF Entry
<1>2. /\ DiagnosedUpTo(e, n - 1, ns)
      /\ e.status = "pending" => n = 0
      /\ e.status # "stale"
  BY <1>1 DEF Retries, RetryEntry
<1>3. e.status \in {"pending", "failed", "stale"}
      /\ (e.status = "failed" => DiagnosisReady(ns, e))
  BY DEF Selected, Ready
<1>4. DiagnosisReady(ns, e) => MetaId("diagnose", e.id, n) \in CompletedIds(ns)
  BY DEF DiagnosisReady, CompletedIds, Children
<1> SUFFICES DiagnosedUpTo(e, n, ns)
  OBVIOUS
<1> HIDE DEF n, e
<1>5. CASE n = 0
  BY <1>5 DEF DiagnosedUpTo
<1>6. CASE MetaId("diagnose", e.id, n) \in CompletedIds(ns)
  <2>1. \A k \in 1 .. n : k = n \/ k \in 1 .. n - 1
    BY <1>1
  <2> QED
    BY <1>2, <1>6, <2>1 DEF DiagnosedUpTo
<1> QED
  BY <1>2, <1>3, <1>4, <1>5, <1>6

LEMMA RetryStep ==
    ASSUME NoPutBack, TypeInv, TypeInv', MetaInv, PlannerInv, SelectInv, RetryInv,
           [Next]_vars
    PROVE  RetryInv'
<1> DEFINE d == disk.nodes
           a == mem.nodes
           b == mem'.nodes
<1>1. /\ Retries(d) /\ Retries(a) /\ a \in Seq(Entry) /\ d \in Seq(Entry)
      /\ \A i \in DOMAIN a : a[i] \in Entry
      /\ \A i \in DOMAIN d : d[i] \in Entry
      /\ \A i \in DOMAIN a : RetryEntry(a[i], a)
      /\ Waiting \subseteq DOMAIN a
      /\ \A i \in Waiting : a[i].mode = "none" => DiagnosedUpTo(a[i], a[i].attempt_count, a)
  BY Memory DEF RetryInv, Retries, Waiting, TypeInv, TypeOK
<1>2. rewinds' = {}
  <2> SUFFICES ASSUME NEW r \in rewinds' PROVE FALSE
    OBVIOUS
  <2> QED
    BY RewindsStep DEF RetryInv, NoPutBack
<1>3. \A i : ~ResetNode(i)
  <2>1. resets \in Nat /\ MaxResets = 0
    BY DEF TypeInv, TypeOK, NoPutBack
  <2> QED
    BY <2>1 DEF ResetNode
<1>4. KeepsDiagnoses(a, b) \/ cand' = {}
  BY <1>3, DiagnosesStep
<1>5. \A ns : KeepsDiagnoses(ns, ns)
  BY DEF KeepsDiagnoses
<1>6. ASSUME NEW i \in Waiting', b[i].mode = "none"
      PROVE  DiagnosedUpTo(b[i], b[i].attempt_count, b)
  <2>1. CASE Route
    <3>1. mem' = mem /\ i \in Selected(a)
      BY <2>1, RouteEffect DEF Waiting
    <3> QED
      BY <1>1, <1>6, <3>1, SelectedDiagnosed
  <2>2. CASE i \in Waiting /\ b[i] = a[i]
    <3>1. a[i].attempt_count \in Int /\ a[i] \in Entry
      BY <1>1, <2>2 DEF Entry
    <3>2. KeepsDiagnoses(a, b)
      BY <1>4 DEF Waiting
    <3> HIDE DEF a, b
    <3> QED
      BY <1>1, <1>6, <2>2, <3>1, <3>2, UpToKept
  <2> QED
    BY <2>1, <2>2, WaitingStep
<1>7. ASSUME Retries(b), disk'.nodes \in {d, a, b} PROVE RetryInv'
  BY <1>1, <1>2, <1>6, <1>7 DEF RetryInv
<1>8. disk'.nodes \in {d, a, b}
  BY Provenance
<1>9. ASSUME KeepsDiagnoses(a, b),
             \A j \in DOMAIN b : (j \in DOMAIN a /\ b[j] = a[j]) \/ RetryEntry(b[j], b)
      PROVE  Retries(b)
  <2> HIDE DEF a, b
  <2> QED
    BY <1>1, <1>9, RetryKept
<1> SUFFICES Retries(b)
  BY <1>7, <1>8
<1> HIDE DEF a, b, d
<1>10. CASE ReconcileNode
  <2>1. PICK i \in DOMAIN a : /\ Settled(a[i]) \in Entry /\ Same(a[i], Settled(a[i]))
                              /\ SettledAt(a, b, i, Settled(a[i])) /\ Settles(a[i])
    BY <1>10, ReconcileNodeEffect DEF a, b
  <2>2. /\ Settled(a[i]).status \in {"completed", "failed"}
        /\ Settled(a[i]).attempt_count = a[i].attempt_count
        /\ Settled(a[i]).id = a[i].id /\ a[i].status # "completed"
    BY <1>1, <2>1, SettledLater DEF Same, Settles
  <2>3. KeepsDiagnoses(a, b)
    BY <1>1, <2>1, <2>2, KeepsSettled
  <2>4. RetryEntry(Settled(a[i]), b)
    BY <1>1, <2>1, <2>2, <2>3, RetryGoesOn
  <2> QED
    BY <1>1, <2>1, <2>2, <2>3, <2>4, RetrySettled
<1>11. CASE ResolveParents
  <2>1. /\ DOMAIN b = DOMAIN a
        /\ \A i \in DOMAIN a : b[i] = a[i] \/ Later(a[i], b[i], "completed", 0)
    BY <1>11, ResolveParentsEffect DEF a, b
  <2>2. KeepsDiagnoses(a, b)
    BY <2>1 DEF Later, Same, KeepsDiagnoses
  <2>3. ASSUME NEW i \in DOMAIN a, Later(a[i], b[i], "completed", 0)
        PROVE  RetryEntry(b[i], b)
    <3>1. b[i].attempt_count = a[i].attempt_count
      BY <1>1, <2>3 DEF Later, Entry
    <3> QED
      BY <1>1, <2>2, <2>3, <3>1, RetryGoesOn DEF Later
  <2> QED
    BY <1>9, <2>1, <2>2, <2>3
<1>12. CASE RewindNode
  BY <1>12, RewindNodeEffect DEF RetryInv
<1>13. CASE SpawnNode
  <2>1. PICK i \in DOMAIN mem.nodes :
           mem'.nodes = mem.nodes \o SpawnedEntries(mem.nodes, mem.nodes[i])
    BY <1>13, SpawnNodeEffect
  <2>2. /\ DOMAIN a \subseteq DOMAIN b /\ \A j \in DOMAIN a : b[j] = a[j]
        /\ \A j \in DOMAIN b \ DOMAIN a : New(b[j])
    BY <2>1, SpawnedNew DEF a, b
  <2>3. KeepsDiagnoses(a, b)
    BY <2>2 DEF KeepsDiagnoses
  <2> QED
    BY <1>9, <2>2, <2>3, RetryNew
<1>14. CASE LaunchExecutor
  <2>1. PICK e \in Entry :
           Later(a[Candidate], e, "running", 1) /\ Becomes(a, b, Candidate, e)
    BY <1>14, LaunchExecutorEffect DEF a, b
  <2>2. Candidate \in Waiting /\ Candidate \in DOMAIN a
    BY <1>14, LaunchExecutorEffect DEF Waiting, a
  <2>3. a[Candidate].status # "completed" /\ e.id = a[Candidate].id
    BY <2>1, <2>2 DEF SelectInv, Later, Same, a
  <2>4. KeepsDiagnoses(a, b)
    BY <2>1, <2>2, <2>3, KeepsBecomes
  <2>5. RetryEntry(e, b)
    BY <1>1, <2>1, <2>2, <2>4, RetryStarts DEF Later
  <2> QED
    BY <1>9, <2>1, <2>4, <2>5 DEF Becomes
<1>15. CASE ExecutorNotFound
  <2>1. PICK e \in Entry :
           Later(a[Candidate], e, "failed", 1) /\ SettledAt(a, b, Candidate, e)
    BY <1>15, ExecutorNotFoundEffect DEF a, b
  <2>2. Candidate \in Waiting /\ Candidate \in DOMAIN a
    BY <1>15, ExecutorNotFoundEffect DEF Waiting, a
  <2>3. a[Candidate].status # "completed" /\ e.id = a[Candidate].id /\ e.status = "failed"
    BY <2>1, <2>2 DEF SelectInv, Later, Same, a
  <2>4. KeepsDiagnoses(a, b)
    BY <1>1, <2>1, <2>2, <2>3, KeepsSettled
  <2>5. RetryEntry(e, b)
    BY <1>1, <2>1, <2>2, <2>4, RetryStarts DEF Later
  <2> QED
    BY <1>1, <2>1, <2>2, <2>3, <2>4, <2>5, RetrySettled
<1>16. CASE StartSync
  <2>1. PICK e \in Entry :
           Later(a[Candidate], e, "running", 1) /\ Becomes(a, b, Candidate, e)
    BY <1>16, StartSyncEffect DEF a, b
  <2>2. /\ Candidate \in Waiting /\ Candidate \in DOMAIN a
        /\ a[Candidate].mode # "none"
    BY <1>16, StartSyncEffect DEF Waiting, a
  <2>3. a[Candidate].status # "completed" /\ e.id = a[Candidate].id
    BY <2>1, <2>2 DEF SelectInv, Later, Same, a
  <2>4. KeepsDiagnoses(a, b)
    BY <2>1, <2>2, <2>3, KeepsBecomes
  <2>5. RetryEntry(e, b)
    BY <1>1, <2>1, <2>2, <2>4, RetryStarts DEF Later
  <2> QED
    BY <1>9, <2>1, <2>4, <2>5 DEF Becomes
<1>17. CASE \E ok \in BOOLEAN : SyncReturns(ok)
  <2>1. /\ cursor \in DOMAIN a /\ pc = "sync"
        /\ \E e \in Entry, status \in {"completed", "failed"} :
              Later(a[cursor], e, status, 0) /\ SettledAt(a, b, cursor, e)
    BY <1>17, SyncReturnsEffect DEF a, b
  <2>2. PICK e \in Entry, status \in {"completed", "failed"} :
              Later(a[cursor], e, status, 0) /\ SettledAt(a, b, cursor, e)
    BY <2>1
  <2>3. a[cursor].status = "running" /\ e.id = a[cursor].id
    BY <2>1, <2>2 DEF SelectInv, a, Later, Same
  <2>4. KeepsDiagnoses(a, b)
    BY <1>1, <2>1, <2>2, <2>3, KeepsSettled
  <2>5. e.attempt_count = a[cursor].attempt_count
    BY <1>1, <2>1, <2>2 DEF Later, Entry
  <2>6. RetryEntry(e, b)
    BY <1>1, <2>1, <2>2, <2>4, <2>5, RetryGoesOn DEF Later
  <2> QED
    BY <1>1, <2>1, <2>2, <2>3, <2>4, <2>6, RetrySettled DEF Later
<1>18. CASE \E answer \in {"y", "n"} : Confirm(answer)
  <2>1. plan # NoPlan
    BY <1>18, ConfirmEffect
  <2>2. CASE b = d \o [k \in DOMAIN plan.nodes |-> EntryOf(plan.nodes[k], {}, {})]
    <3>1. /\ DOMAIN d \subseteq DOMAIN b /\ \A j \in DOMAIN d : b[j] = d[j]
          /\ \A j \in DOMAIN b \ DOMAIN d : New(b[j])
      BY <2>1, <2>2, PlannedNew DEF b, d
    <3>2. KeepsDiagnoses(d, b)
      BY <3>1 DEF KeepsDiagnoses
    <3> QED
      BY <1>1, <3>1, <3>2, RetryNew, RetryKept
  <2>3. CASE /\ DOMAIN b = DOMAIN d
             /\ \A i \in DOMAIN d :
                   /\ Same(d[i], b[i]) /\ b[i].attempt_count = d[i].attempt_count
                   /\ b[i].status = IF d[i].id = NamedId(Planner)
                                      THEN "pending" ELSE d[i].status
    <3>1. KindOf(NamedId(Planner)) # "diagnose"
      BY DEF KindOf, NamedId
    <3>2. KeepsDiagnoses(d, b)
      BY <2>3, <3>1 DEF KeepsDiagnoses, Same
    <3>3. ASSUME NEW i \in DOMAIN d PROVE RetryEntry(b[i], b)
      <4>0. RetryEntry(d[i], b)
        <5>1. d[i].attempt_count - 1 \in Int
          BY <1>1 DEF Entry
        <5> QED
          BY <1>1, <3>2, <5>1, UpToKept DEF Retries, RetryEntry
      <4>1. CASE d[i].id = NamedId(Planner)
        <5>1. b[i].mode # "none" /\ b[i].status = "pending"
          BY <2>3, <4>1 DEF PlannerInv, PlannerFact, Same, d
        <5> QED
          BY <5>1 DEF RetryEntry
      <4>2. CASE d[i].id # NamedId(Planner)
        <5>1. b[i].status = d[i].status /\ b[i].attempt_count = d[i].attempt_count
              /\ b[i].id = d[i].id /\ b[i].mode = d[i].mode
          BY <2>3, <4>2 DEF Same
        <5> QED
          BY <4>0, <5>1 DEF RetryEntry, DiagnosedUpTo
      <4> QED
        BY <4>1, <4>2
    <3> QED
      BY <2>3, <3>3 DEF Retries
  <2> QED
    BY <1>18, <2>2, <2>3, ConfirmEffect DEF b, d
<1>19. CASE \/ Finalize("complete", "indexComplete") \/ Finalize("failed", "indexFailed")
            \/ ReopenWorkflow \/ Route \/ WriteLaunched \/ Persist \/ WriteConfirmed
            \/ Reread \/ Silent
  <2>1. b = a \/ b = d
    BY <1>19, FinalizeEffect, ReopenEffect, RouteEffect, WriteEffect
       DEF Reread, Silent, a, b, d
  <2> QED
    BY <1>1, <2>1
<1> QED
  BY <1>3, <1>10, <1>11, <1>12, <1>13, <1>14, <1>15, <1>16, <1>17, <1>18, <1>19, StepCases

LEMMA RetryInit == ASSUME Init PROVE RetryInv
<1>1. PlannerEntry.status = "pending" /\ PlannerEntry.attempt_count = 0
  BY DEF PlannerEntry, EntryOf
<1>2. disk.nodes = <<PlannerEntry>> /\ mem = disk /\ Waiting = {} /\ rewinds = {}
  BY DEF Init, Waiting
<1> HIDE DEF PlannerEntry
<1>3. RetryEntry(PlannerEntry, disk.nodes)
  BY <1>1 DEF RetryEntry, DiagnosedUpTo
<1> QED
  BY <1>2, <1>3 DEF RetryInv, Retries

(* With nothing that puts a tried node back, every attempt of a background *)
(* node but the last is diagnosed, whatever crashes lose: the retry that   *)
(* is written goes with the diagnosis it stands on.                        *)
THEOREM RetriesAreDiagnosed ==
    ASSUME NoPutBack, PlannerOwn PROVE Spec => []RetriesDiagnosed
<1>1. Init => RetryInv /\ MetaInv /\ PlannerInv /\ SelectInv
  BY MetaInit, PlannerInit, SelectInit, RetryInit
<1>2. /\ TypeInv /\ TypeInv' /\ RetryInv /\ MetaInv /\ PlannerInv /\ SelectInv
      /\ [Next]_vars
      => RetryInv' /\ MetaInv' /\ PlannerInv' /\ SelectInv'
  BY RetryStep, MetaStep, PlannerStep, SelectStep
<1>3. RetryInv => RetriesDiagnosed
  BY DEF RetryInv, Retries, RetryEntry, DiagnosedUpTo, RetriesDiagnosed
<1> QED
  BY <1>1, <1>2, <1>3, TypeInvariant, PTL DEF Spec

-----------------------------------------------------------------------------
(* What a rewind reaches.                                                  *)

(* What Descendants adds to S in one round. *)
Further(ns, S) ==
    S \cup {ns[i].id : i \in {j \in DOMAIN ns : ns[j].depends_on \cap S # {}}}

(* r holds the rounds in which Descendants reaches what depends on id. *)
Rounds(ns, id, r) ==
    /\ r[0] = {id}
    /\ \A k \in 1 .. Len(ns) : r[k] = Further(ns, r[k - 1])
    /\ Descendants(ns, id) = r[Len(ns)] \ {id}

(* Descendants is a recursive function; it does what it says.              *)
LEMMA DescendantsReached ==
    ASSUME NEW ns \in Seq(Entry), NEW id PROVE \E r : Rounds(ns, id, r)
<1> DEFINE n == Len(ns)
           further(S) == Further(ns, S)
           Reaches(g, k) == g = [j \in 0 .. k |-> IF j = 0 THEN {id} ELSE further(g[j - 1])]
           bad == {k \in 0 .. n : ~ \E g : Reaches(g, k)}
           reach[k \in 0 .. n] ==
             IF k = 0 THEN {id}
             ELSE LET seen == reach[k - 1] IN
                  seen \cup {ns[i].id : i \in {j \in DOMAIN ns :
                                       ns[j].depends_on \cap seen # {}}}
<1>1. n \in Nat
  BY LenProperties
<1>2. Descendants(ns, id) = reach[n] \ {id}
  BY DEF Descendants
<1>3. reach = CHOOSE g : Reaches(g, n)
  BY DEF Further
<1> HIDE DEF n, further, reach
<1>4. \E g : Reaches(g, 0)
  <2> DEFINE g == [j \in 0 .. 0 |-> {id}]
  <2>1. g = [j \in 0 .. 0 |-> IF j = 0 THEN {id} ELSE further(g[j - 1])]
    OBVIOUS
  <2> QED
    BY <2>1
<1>5. ASSUME NEW m \in Nat \ {0}, NEW g, Reaches(g, m - 1) PROVE \E h : Reaches(h, m)
  <2> DEFINE h == [j \in 0 .. m |-> IF j = m THEN further(g[m - 1]) ELSE g[j]]
  <2>1. ASSUME NEW j \in 0 .. m
        PROVE  h[j] = IF j = 0 THEN {id} ELSE further(h[j - 1])
    <3>1. h[j] = IF j = m THEN further(g[m - 1]) ELSE g[j]
      OBVIOUS
    <3>2. j # 0 => j - 1 \in 0 .. m - 1 /\ h[j - 1] = g[j - 1]
      BY <1>5
    <3>3. j # m => j \in 0 .. m - 1
      BY <1>5
    <3>4. \A k \in 0 .. m - 1 : g[k] = IF k = 0 THEN {id} ELSE further(g[k - 1])
      BY <1>5
    <3> HIDE DEF h
    <3> QED
      BY <3>1, <3>2, <3>3, <3>4
  <2>2. h \in [0 .. m -> {h[j] : j \in 0 .. m}]
    OBVIOUS
  <2>3. h = [j \in 0 .. m |-> IF j = 0 THEN {id} ELSE further(h[j - 1])]
    <3>1. h = [j \in 0 .. m |-> h[j]]
      OBVIOUS
    <3> HIDE DEF h
    <3> QED
      BY <2>1, <3>1
  <2> QED
    BY <2>3
<1>6. bad = {}
  <2> SUFFICES ASSUME bad # {} PROVE FALSE
    OBVIOUS
  <2>1. PICK m \in bad : \A k \in bad : m <= k
    <3>1. bad \in SUBSET Nat
      BY <1>1
    <3> HIDE DEF bad
    <3> QED
      BY <3>1, MinExists
  <2>2. m \in 0 .. n /\ m # 0 /\ ~ \E h : Reaches(h, m)
    BY <1>4, <2>1
  <2>3. m - 1 \in 0 .. n /\ m \in Nat \ {0} /\ ~(m <= m - 1)
    BY <1>1, <2>2
  <2>4. PICK g : Reaches(g, m - 1)
    BY <2>1, <2>3
  <2> HIDE DEF Reaches
  <2> QED
    BY <1>5, <2>2, <2>3, <2>4
<1>7. Reaches(reach, n)
  <2>1. \E g : Reaches(g, n)
    <3> HIDE DEF Reaches
    <3>1. n \in 0 .. n /\ n \notin bad
      <4> HIDE DEF bad
      <4> QED
        BY <1>1, <1>6
    <3> QED
      BY <3>1
  <2> HIDE DEF Reaches
  <2> QED
    BY <1>3, <2>1
<1>8. \A k \in 0 .. n : reach[k] = IF k = 0 THEN {id} ELSE further(reach[k - 1])
  BY <1>7
<1>9. reach[0] = {id}
  BY <1>1, <1>8
<1>10. \A k \in 1 .. n : k \in 0 .. n /\ k # 0
  BY <1>1
<1>11. \A k \in 1 .. n : reach[k] = further(reach[k - 1])
  BY <1>8, <1>10
<1>12. Rounds(ns, id, reach)
  BY <1>2, <1>9, <1>11 DEF Rounds, further, n
<1> QED
  BY <1>12

LEMMA RoundsGrow ==
    ASSUME NEW ns \in Seq(Entry), NEW id, NEW r, Rounds(ns, id, r),
           NEW k \in 0 .. Len(ns), NEW m \in 0 .. Len(ns), k <= m
    PROVE  r[k] \subseteq r[m]
<1> DEFINE bad == {j \in 0 .. Len(ns) : k <= j /\ ~(r[k] \subseteq r[j])}
<1>1. Len(ns) \in Nat
  BY LenProperties
<1>2. ASSUME NEW j \in bad PROVE \E l \in bad : ~(j <= l)
  <2>1. j \in 0 .. Len(ns) /\ k <= j /\ ~(r[k] \subseteq r[j]) /\ j # k
    OBVIOUS
  <2>2. j - 1 \in 0 .. Len(ns) /\ k <= j - 1 /\ j \in 1 .. Len(ns) /\ ~(j <= j - 1)
    BY <1>1, <2>1
  <2>3. r[j - 1] \subseteq r[j]
    BY <2>2 DEF Rounds, Further
  <2>4. ~(r[k] \subseteq r[j - 1])
    BY <2>1, <2>3
  <2> QED
    BY <2>2, <2>4
<1>3. bad \in SUBSET Nat
  BY <1>1
<1> HIDE DEF bad
<1>4. bad = {}
  BY <1>2, <1>3, MinExists
<1> QED
  BY <1>4 DEF bad

(* What Descendants finds depends on something it found, or on id.         *)
LEMMA DescendantsStand ==
    ASSUME NEW ns \in Seq(Entry), NEW id, NEW x \in Descendants(ns, id)
    PROVE  \E i \in DOMAIN ns :
              ns[i].id = x /\ ns[i].depends_on \cap ({id} \cup Descendants(ns, id)) # {}
<1> DEFINE n == Len(ns)
<1>1. PICK r : Rounds(ns, id, r)
  BY DescendantsReached
<1>2. n \in Nat
  BY LenProperties
<1> DEFINE far == {k \in 0 .. n : x \in r[k]}
<1>3. PICK m \in far : \A k \in far : m <= k
  <2>1. far \in SUBSET Nat /\ n \in far
    BY <1>1, <1>2 DEF Rounds
  <2> HIDE DEF far
  <2> QED
    BY <2>1, MinExists
<1>4. m \in 1 .. n /\ m - 1 \in 0 .. n /\ ~(m <= m - 1)
  <2>1. m # 0
    BY <1>1, <1>3 DEF Rounds
  <2> QED
    BY <1>2, <1>3, <2>1
<1>5. x \notin r[m - 1] /\ x \in Further(ns, r[m - 1])
  BY <1>1, <1>3, <1>4 DEF Rounds
<1>6. PICK i \in DOMAIN ns : ns[i].id = x /\ ns[i].depends_on \cap r[m - 1] # {}
  BY <1>5 DEF Further
<1>7. r[m - 1] \subseteq r[n]
  BY <1>1, <1>2, <1>4, RoundsGrow
<1>8. r[n] \subseteq {id} \cup Descendants(ns, id)
  BY <1>1 DEF Rounds
<1> QED
  BY <1>6, <1>7, <1>8

LEMMA DescendantsDepend ==
    ASSUME NEW ns \in Seq(Entry), NEW id, NEW x \in Descendants(ns, id)
    PROVE  \E i \in DOMAIN ns : ns[i].id = x /\ ns[i].depends_on # {}
  BY DescendantsStand

(* There are as many rounds as entries: the last finds nothing new.        *)
LEMMA DescendantsClosed ==
    ASSUME NEW ns \in Seq(Entry), NEW id, NEW i \in DOMAIN ns,
           ns[i].depends_on \cap ({id} \cup Descendants(ns, id)) # {}
    PROVE  ns[i].id \in {id} \cup Descendants(ns, id)
<1> DEFINE n == Len(ns)
<1>1. PICK r : Rounds(ns, id, r)
  BY DescendantsReached
<1>2. n \in Nat /\ DOMAIN ns = 1 .. n
  BY LenProperties
<1>3. {id} \cup Descendants(ns, id) = r[n]
  <2>1. r[0] \subseteq r[n]
    BY <1>1, <1>2, RoundsGrow
  <2> QED
    BY <1>1, <2>1 DEF Rounds
<1> SUFFICES ASSUME ns[i].id \notin r[n] PROVE FALSE
  BY <1>3
<1>4. ns[i].depends_on \cap r[n] # {}
  BY <1>3
<1> DEFINE After(k) == IF k = n + 1 THEN Further(ns, r[n]) ELSE r[k]
           Adds(k, j) == ns[j].id \in After(k) /\ ns[j].id \notin r[k - 1]
<1>5. \A k \in 1 .. n + 1 : /\ k - 1 \in 0 .. n
                            /\ After(k) = Further(ns, r[k - 1])
  <2> SUFFICES ASSUME NEW k \in 1 .. n + 1
               PROVE  k - 1 \in 0 .. n /\ After(k) = Further(ns, r[k - 1])
    OBVIOUS
  <2>1. k \in Nat /\ k - 1 \in 0 .. n /\ (k = n + 1 => k - 1 = n)
    BY <1>2
  <2>2. k # n + 1 => k \in 1 .. n
    BY <1>2
  <2>3. \A m \in 1 .. n : r[m] = Further(ns, r[m - 1])
    BY <1>1 DEF Rounds
  <2> HIDE DEF n
  <2> QED
    BY <2>1, <2>2, <2>3
<1> HIDE DEF n, After
(* A round that adds nothing would be the last. *)
<1>6. ASSUME NEW k \in 1 .. n + 1, \A j \in DOMAIN ns : ~Adds(k, j) PROVE FALSE
  <2>1. Further(ns, r[k - 1]) = r[k - 1]
    BY <1>5, <1>6 DEF Further
  <2> DEFINE bad == {m \in 0 .. n : k - 1 <= m /\ r[m] # r[k - 1]}
  <2>2. ASSUME NEW m \in bad PROVE \E l \in bad : ~(m <= l)
    <3>1. m \in 0 .. n /\ k - 1 <= m /\ r[m] # r[k - 1] /\ m # k - 1
      OBVIOUS
    <3>2. m \in 1 .. n /\ m - 1 \in 0 .. n /\ k - 1 <= m - 1 /\ ~(m <= m - 1)
      BY <1>2, <3>1
    <3>3. r[m] = Further(ns, r[m - 1])
      BY <1>1, <3>2 DEF Rounds, n
    <3>4. r[m - 1] # r[k - 1]
      BY <2>1, <3>1, <3>3
    <3> QED
      BY <3>2, <3>4
  <2>3. bad \in SUBSET Nat
    BY <1>2
  <2>4. n \in 0 .. n /\ k - 1 <= n
    BY <1>2
  <2> HIDE DEF bad
  <2>5. bad = {}
    BY <2>2, <2>3, MinExists
  <2>6. r[n] = r[k - 1]
    BY <2>4, <2>5 DEF bad
  <2> QED
    BY <1>4, <2>1, <2>6 DEF Further
<1> DEFINE f == [k \in 1 .. n + 1 |-> CHOOSE j \in DOMAIN ns : Adds(k, j)]
<1>7. \A k \in 1 .. n + 1 : f[k] \in 1 .. n /\ Adds(k, f[k])
  <2> SUFFICES ASSUME NEW k \in 1 .. n + 1 PROVE f[k] \in 1 .. n /\ Adds(k, f[k])
    OBVIOUS
  <2>1. \E j \in DOMAIN ns : Adds(k, j)
    BY <1>6
  <2> HIDE DEF Adds
  <2> QED
    BY <1>2, <2>1
<1>8. f \in [1 .. n + 1 -> 1 .. n]
  BY <1>7
<1> HIDE DEF f
<1>9. ASSUME NEW k \in 1 .. n + 1, NEW m \in 1 .. n + 1, k < m, f[k] = f[m] PROVE FALSE
  <2>1. k \in 0 .. n /\ m - 1 \in 0 .. n /\ k <= m - 1 /\ After(k) = r[k]
    BY <1>2, <1>9 DEF After
  <2>2. ns[f[k]].id \in r[k] /\ ns[f[k]].id \notin r[m - 1]
    BY <1>7, <1>9, <2>1
  <2>3. r[k] \subseteq r[m - 1]
    BY <1>1, <2>1, RoundsGrow DEF n
  <2> QED
    BY <2>2, <2>3
<1>10. \E k, m \in 1 .. n + 1 : k # m /\ f[k] = f[m]
  <2>1. /\ IsFiniteSet(1 .. n + 1) /\ Cardinality(1 .. n + 1) = n + 1
        /\ IsFiniteSet(1 .. n) /\ Cardinality(1 .. n) = n
    BY <1>2, FS_Interval
  <2>2. Cardinality(1 .. n) < Cardinality(1 .. n + 1)
    BY <1>2, <2>1
  <2> QED
    BY <1>8, <2>1, <2>2, FS_PigeonHole
<1> QED
  BY <1>2, <1>9, <1>10

(* What a rewind does to every entry.                                      *)
RewoundTo(a, b, target) ==
    /\ DOMAIN b = DOMAIN a
    /\ \A i \in DOMAIN a :
          IF a[i].id = target THEN Later(a[i], b[i], "pending", 0)
          ELSE IF a[i].id \in StaleIds(a, target) THEN Later(a[i], b[i], "stale", 0)
          ELSE b[i] = a[i]

LEMMA RewindsOne ==
    ASSUME TypeInv, RewindNode
    PROVE  \E r \in rewinds : RewoundTo(mem.nodes, mem'.nodes, r[2])
<1>1. PICK r \in rewinds : mem' = [mem EXCEPT !.nodes = Rewound(mem.nodes, r[2])]
  <2>1. ToRewind \in SUBSET DOMAIN mem.nodes /\ ToRewind # {}
    BY DEF RewindNode, ToRewind
  <2>2. FirstOf(ToRewind) \in DOMAIN mem.nodes
    BY <2>1, Memory, FirstInDomain
  <2> QED
    BY <2>2 DEF RewindNode, RewindsOf
<1>2. mem'.nodes = Rewound(mem.nodes, r[2])
  BY <1>1, Memory DEF Manifest
<1>3. /\ DOMAIN mem'.nodes = DOMAIN mem.nodes
      /\ \A i \in DOMAIN mem.nodes :
            mem'.nodes[i] =
              IF mem.nodes[i].id = r[2]
                THEN [mem.nodes[i] EXCEPT !.status = "pending", !.pid = NoPid]
              ELSE IF mem.nodes[i].id \in StaleIds(mem.nodes, r[2])
                THEN [mem.nodes[i] EXCEPT !.status = "stale", !.pid = NoPid]
              ELSE mem.nodes[i]
  BY <1>2 DEF Rewound
<1>4. \A e \in Entry : \A status \in {"pending", "stale"} :
         Later(e, [e EXCEPT !.status = status, !.pid = NoPid], status, 0)
  BY DEF Entry, Later, Same
<1>5. RewoundTo(mem.nodes, mem'.nodes, r[2])
  BY <1>3, <1>4, Memory DEF RewoundTo
<1> QED
  BY <1>5

LEMMA RewoundDepends ==
    ASSUME TypeInv, RewindNode
    PROVE  \E r \in rewinds : \A i \in DOMAIN mem.nodes :
              \/ mem'.nodes[i] = mem.nodes[i]
              \/ mem.nodes[i].id = r[2]
              \/ \E k \in DOMAIN mem.nodes : /\ mem.nodes[k].id = mem.nodes[i].id
                                            /\ mem.nodes[k].depends_on # {}
<1>1. PICK r \in rewinds : RewoundTo(mem.nodes, mem'.nodes, r[2])
  BY RewindsOne
<1>2. \A k \in DOMAIN mem.nodes :
         \/ mem'.nodes[k] = mem.nodes[k]
         \/ mem.nodes[k].id \in {r[2]} \cup Descendants(mem.nodes, r[2])
  BY <1>1 DEF RewoundTo, StaleIds
<1> QED
  BY <1>2, Memory, DescendantsDepend

-----------------------------------------------------------------------------
(* What no rewind reaches: nodes that are not rewound, with all they       *)
(* depend on, by definition or as spawned nodes on their spawner.          *)
Closed(S) ==
    \A d \in Definitions : d.name \in S => d.depends_on \cup Spawners(d) \subseteq S
Spared == UNION {S \in SUBSET (NodeName \ RewindTo) : Closed(S)}

GovernedSpared == \A d \in Definitions : d.strategy = "GOVERNANCE" => d.name \in Spared

Targets == {NamedId(target) : target \in RewindTo}

SparedFact(e) ==
    /\ e.id.base \in Spared => \A x \in e.depends_on : x.base \in Spared
    /\ GovernedSpared /\ e.strategy = "GOVERNANCE" => e.id.base \in Spared

SparedInv ==
    /\ \A j \in DOMAIN disk.nodes : SparedFact(disk.nodes[j])
    /\ \A j \in DOMAIN mem.nodes : SparedFact(mem.nodes[j])
    /\ \A r \in rewinds : r[2] \in Targets

LEMMA SparedClosed == Closed(Spared) /\ Spared \cap RewindTo = {}
<1>1. ASSUME NEW d \in Definitions, d.name \in Spared
      PROVE  d.depends_on \cup Spawners(d) \subseteq Spared
  <2>1. PICK S \in SUBSET (NodeName \ RewindTo) : Closed(S) /\ d.name \in S
    BY <1>1 DEF Spared
  <2>2. d.depends_on \cup Spawners(d) \subseteq S
    BY <2>1 DEF Closed
  <2> QED
    BY <2>1, <2>2 DEF Spared
<1> QED
  BY <1>1 DEF Closed, Spared

LEMMA AllSpared == ASSUME RewindTo = {} PROVE Spared = NodeName
<1>1. ASSUME NEW d \in Definitions PROVE d.depends_on \cup Spawners(d) \subseteq NodeName
  <2>1. d \in NodeDef
    <3>1. CASE d \in PlanDefs
      <4>1. PICK p \in Plans : d \in {p[k] : k \in DOMAIN p}
        BY <3>1 DEF PlanDefs
      <4>2. p \in Seq(NodeDef)
        BY InputsAssumption
      <4> QED
        BY <4>1, <4>2, ElementOfSeq, LenProperties
    <3>2. CASE d \in SpawnDefs
      <4>1. PICK n \in NodeName : d \in {SpawnOf[n][k] : k \in DOMAIN SpawnOf[n]}
        BY <3>2 DEF SpawnDefs
      <4>2. SpawnOf[n] \in Seq(NodeDef)
        BY InputsAssumption
      <4> QED
        BY <4>1, <4>2, ElementOfSeq, LenProperties
    <3> QED
      BY <3>1, <3>2 DEF Definitions
  <2> QED
    BY <2>1 DEF NodeDef, Spawners
<1>2. Closed(NodeName) /\ NodeName \in SUBSET (NodeName \ RewindTo)
  BY <1>1 DEF Closed
<1> QED
  BY <1>2 DEF Spared

LEMMA SparedInit == ASSUME Init PROVE SparedInv
<1>1. SparedFact(PlannerEntry)
  BY DEF PlannerEntry, EntryOf, SparedFact
<1>2. disk.nodes = <<PlannerEntry>> /\ mem = disk /\ rewinds = {}
  BY DEF Init
<1> HIDE DEF PlannerEntry
<1> QED
  BY <1>1, <1>2 DEF SparedInv

LEMMA SparedStep == ASSUME TypeInv, SparedInv, [Next]_vars PROVE SparedInv'
<1> DEFINE b == mem'.nodes
<1>1. \A e, f : SparedFact(e) /\ Same(e, f) => SparedFact(f)
  BY DEF SparedFact, Same
<1>2. ASSUME NEW e, Made(e) PROVE SparedFact(e)
  <2>1. CASE \E d \in Definitions : DefinedBy(e, d)
    <3>1. PICK d \in Definitions : DefinedBy(e, d)
      BY <2>1
    <3>2. e.id.base = d.name /\ e.strategy = d.strategy
      BY <3>1 DEF DefinedBy, NamedId
    <3>3. d.name \in Spared => d.depends_on \cup Spawners(d) \subseteq Spared
      BY SparedClosed DEF Closed
    <3>4. \A x \in e.depends_on : x.base \in d.depends_on \cup Spawners(d)
      BY <3>1 DEF DefinedBy
    <3> QED
      BY <3>2, <3>3, <3>4 DEF SparedFact, GovernedSpared
  <2>2. CASE \E kind \in MetaKinds, f \in Entry :
                e = MetaEntry(kind, f) /\ \E j \in DOMAIN mem.nodes : Same(mem.nodes[j], f)
    <3>1. PICK kind \in MetaKinds, f \in Entry :
                e = MetaEntry(kind, f) /\ \E j \in DOMAIN mem.nodes : Same(mem.nodes[j], f)
      BY <2>2
    <3>2. SparedFact(f)
      BY <1>1, <3>1 DEF SparedInv
    <3>3. /\ e.id = MetaId(kind, f.id, f.attempt_count) /\ e.depends_on = f.depends_on
          /\ e.strategy = MetaStrategy(kind)
      BY <3>1 DEF MetaEntry
    <3>4. e.id.base = f.id.base
      BY <3>3 DEF MetaId, Entry, Id
    <3>5. e.strategy # "GOVERNANCE"
      BY <3>3 DEF MetaStrategy, MetaKinds
    <3> QED
      BY <3>2, <3>3, <3>4, <3>5 DEF SparedFact
  <2> QED
    BY <1>2, <2>1, <2>2 DEF Made
<1>3. \A j \in DOMAIN b : SparedFact(b[j])
  BY <1>1, <1>2, Provenance DEF SparedInv
<1>4. \A r \in rewinds' : r[2] \in Targets
  BY RewindsStep DEF SparedInv, Targets
<1> QED
  BY <1>3, <1>4, Provenance DEF SparedInv

(* What depends on a node that is not spared is not spared either. *)
LEMMA DescendantsApart ==
    ASSUME NEW ns \in Seq(Entry), NEW id, id.base \notin Spared,
           \A j \in DOMAIN ns : SparedFact(ns[j]), NEW x \in Descendants(ns, id)
    PROVE  x.base \notin Spared
<1> SUFFICES ASSUME x.base \in Spared PROVE FALSE
  OBVIOUS
<1> DEFINE n == Len(ns)
<1>1. PICK r : Rounds(ns, id, r)
  BY DescendantsReached
<1>2. n \in Nat
  BY LenProperties
<1> DEFINE bad == {k \in 0 .. n : \E y \in r[k] : y.base \in Spared}
<1>3. PICK m \in bad : \A k \in bad : m <= k
  <2>1. bad \in SUBSET Nat /\ n \in bad
    BY <1>1, <1>2 DEF Rounds
  <2> HIDE DEF bad
  <2> QED
    BY <2>1, MinExists
<1>4. m \in 1 .. n /\ m - 1 \in 0 .. n /\ ~(m <= m - 1)
  <2>1. m # 0
    BY <1>1, <1>3 DEF Rounds
  <2> QED
    BY <1>2, <1>3, <2>1
<1>5. PICK y \in r[m] : y.base \in Spared
  BY <1>3
<1>6. \A z \in r[m - 1] : z.base \notin Spared
  BY <1>3, <1>4
<1>7. r[m] = Further(ns, r[m - 1])
  BY <1>1, <1>4 DEF Rounds
<1>8. PICK i \in DOMAIN ns : ns[i].id = y /\ ns[i].depends_on \cap r[m - 1] # {}
  BY <1>5, <1>6, <1>7 DEF Further
<1> QED
  BY <1>5, <1>6, <1>8 DEF SparedFact

LEMMA RewoundSpares ==
    ASSUME TypeInv, SparedInv, RewindNode, NEW i \in DOMAIN mem.nodes,
           mem.nodes[i].id.base \in Spared
    PROVE  i \in DOMAIN mem'.nodes /\ mem'.nodes[i] = mem.nodes[i]
<1>1. PICK r \in rewinds : RewoundTo(mem.nodes, mem'.nodes, r[2])
  BY RewindsOne
<1>2. r[2].base \notin Spared
  BY SparedClosed DEF SparedInv, Targets, NamedId
<1>3. \A x \in Descendants(mem.nodes, r[2]) : x.base \notin Spared
  BY <1>2, Memory, DescendantsApart DEF SparedInv
<1> QED
  BY <1>1, <1>2, <1>3 DEF RewoundTo, StaleIds

-----------------------------------------------------------------------------
(* Executors belong to running entries.                                    *)

(* Neither a rewind, a reset nor a crash comes between an executor and the *)
(* manifest.  Each of them can: a crash between Popen and the write of the *)
(* manifest, a rewind or a reset of a node that runs.                      *)
NoFaults == NoPutBack /\ MaxCrashes = 0
Unbroken == MaxResets = 0 /\ MaxCrashes = 0

Owns(e, p) == /\ e.id = p.node /\ e.pid = p.run
              /\ e.status = "running" /\ e.mode = "none"

OwnedInv ==
    \A p \in procs : p.state = "live" =>
        /\ p.run # NoPid
        /\ p.node.base \in Spared =>
              \E i \in DOMAIN mem.nodes :
                 /\ Owns(mem.nodes[i], p)
                 /\ \/ pc = "launched" /\ i = Candidate
                    \/ i \in DOMAIN disk.nodes /\ Owns(disk.nodes[i], p)

LEMMA LiveProcs ==
    ASSUME TypeInv, NEW q, q.state = "live",
           q \in procs \/ q \in Reaped(procs) \/ q \in Orphaned(procs)
    PROVE  \E p \in procs : p.state = "live" /\ p.node = q.node /\ p.run = q.run
<1> DEFINE Goal == \E p \in procs : p.state = "live" /\ p.node = q.node /\ p.run = q.run
<1>1. procs \subseteq Proc
  BY DEF TypeInv, TypeOK
<1>2. \A x \in Reaped(procs) : x.state = "live" => x \in procs
  BY <1>1 DEF Reaped, Proc
<1>3. ASSUME q \in Orphaned(procs) PROVE Goal
  <2>1. Reaped(procs) \subseteq Proc
    BY <1>1, ProcsType DEF TypeInv
  <2>2. PICK x \in Reaped(procs) : q = [x EXCEPT !.child = FALSE]
    BY <1>3 DEF Orphaned
  <2>3. q.state = x.state /\ q.node = x.node /\ q.run = x.run
    BY <2>1, <2>2 DEF Proc
  <2> QED
    BY <1>2, <2>2, <2>3
<1> QED
  BY <1>2, <1>3

LEMMA ProcsStep ==
    ASSUME TypeInv, [Next]_vars, NEW q \in procs', q.state = "live"
    PROVE  \/ \E p \in procs : p.state = "live" /\ p.node = q.node /\ p.run = q.run
           \/ /\ LaunchExecutor /\ q.node = mem.nodes[Candidate].id
              /\ q.run = Launches(mem.nodes[Candidate].id) + 1
<1>1. ASSUME procs' \in {procs, Reaped(procs), Orphaned(procs)}
      PROVE  \E p \in procs : p.state = "live" /\ p.node = q.node /\ p.run = q.run
  BY <1>1, LiveProcs
<1>2. CASE Executors
  <2>1. PICK p \in procs :
           procs' = (procs \ {p}) \cup
                      {[p EXCEPT !.state = IF p.child THEN "zombie" ELSE "gone"]}
    BY <1>2 DEF Executors, ExecutorExits
  <2>2. [p EXCEPT !.state = IF p.child THEN "zombie" ELSE "gone"].state # "live"
    BY <2>1 DEF TypeInv, TypeOK, Proc
  <2> QED
    BY <2>1, <2>2
<1>3. CASE \/ PlannerWrites \/ SyncSpawns \/ QuitRepl \/ RewindsDone \/ UNCHANGED vars
           \/ StartCycle \/ Crash \/ DispatchAborts \/ RouteAwaiting
           \/ (\E at, status : SyncIndex(at, status)) \/ Persist \/ WriteConfirmed
           \/ WriteLaunched
  BY <1>1, <1>3 DEF PlannerWrites, SyncSpawns, QuitRepl, RewindsDone, vars, StartCycle,
     Crash, DispatchAborts, RouteAwaiting, SyncIndex, Persist, WriteConfirmed,
     WriteLaunched, Exit
<1>4. CASE LaunchExecutor
  <2>1. q \in Reaped(procs) \/ q = [node |-> mem.nodes[Candidate].id,
                                    run |-> Launches(mem.nodes[Candidate].id) + 1,
                                    state |-> "live", child |-> TRUE]
    BY <1>4, LaunchExecutorEffect
  <2> QED
    BY <1>4, <2>1, LiveProcs
<1>5. CASE \/ ReconcileNode \/ ResolveParents \/ RewindNode \/ SpawnNode \/ Route
           \/ ExecutorNotFound \/ StartSync
  BY <1>1, <1>5, ReconcileNodeEffect, ResolveParentsEffect, RewindNodeEffect,
     SpawnNodeEffect, RouteEffect, ExecutorNotFoundEffect, StartSyncEffect
<1>6. CASE \/ (\E ok \in BOOLEAN : SyncReturns(ok))
           \/ (\E answer \in {"y", "n"} : Confirm(answer))
           \/ (\E i \in DOMAIN disk.nodes : ResetNode(i))
           \/ ReopenWorkflow
           \/ Finalize("complete", "indexComplete") \/ Finalize("failed", "indexFailed")
  BY <1>1, <1>6, SyncReturnsEffect, ConfirmEffect, ResetNodeEffect, ReopenEffect,
     FinalizeEffect
<1> QED
  BY <1>2, <1>3, <1>4, <1>5, <1>6
     DEF Next, EngineStep, Reconcile, Dispatch, Finish, User

LEMMA LaunchedStep ==
    ASSUME TypeInv, [Next]_vars, pc = "launched"
    PROVE  WriteLaunched \/ Crash \/ UNCHANGED <<disk, mem, cand, pc>>
<1>1. CASE \/ PlannerWrites \/ SyncSpawns \/ Executors \/ QuitRepl \/ UNCHANGED vars
  BY <1>1 DEF PlannerWrites, SyncSpawns, Executors, ExecutorExits, QuitRepl, vars
<1>2. CASE \/ ReconcileNode \/ ResolveParents \/ RewindNode \/ SpawnNode \/ Route
           \/ LaunchExecutor \/ ExecutorNotFound \/ StartSync
  BY <1>2, ReconcileNodeEffect, ResolveParentsEffect, RewindNodeEffect, SpawnNodeEffect,
     RouteEffect, LaunchExecutorEffect, ExecutorNotFoundEffect, StartSyncEffect
<1>3. CASE \/ (\E ok \in BOOLEAN : SyncReturns(ok))
           \/ (\E answer \in {"y", "n"} : Confirm(answer))
           \/ (\E i \in DOMAIN disk.nodes : ResetNode(i))
           \/ ReopenWorkflow
           \/ Finalize("complete", "indexComplete") \/ Finalize("failed", "indexFailed")
  BY <1>3, SyncReturnsEffect, ConfirmEffect, ResetNodeEffect, ReopenEffect,
     FinalizeEffect
<1>4. CASE Persist \/ WriteConfirmed \/ RewindsDone
  BY <1>4 DEF Persist, WriteConfirmed, RewindsDone
<1>5. CASE \/ StartCycle \/ RouteAwaiting \/ DispatchAborts
           \/ SyncIndex("indexComplete", "complete") \/ SyncIndex("indexFailed", "failed")
           \/ SyncIndex("indexActive", "active")
  BY <1>5 DEF StartCycle, RouteAwaiting, DispatchAborts, SyncIndex, Routing, Dispatching
<1>6. CASE WriteLaunched \/ Crash
  BY <1>6
<1> QED
  BY <1>1, <1>2, <1>3, <1>4, <1>5, <1>6
     DEF Next, EngineStep, Reconcile, Dispatch, Finish, User

(* An entry that owns a live executor, in memory and on disk, stays. *)
LEMMA OwnerKept ==
    ASSUME Unbroken, TypeInv, PlannerInv, SelectInv, SparedInv, [Next]_vars,
           NEW p \in procs, p.state = "live", p.run # NoPid, p.node.base \in Spared,
           NEW i \in DOMAIN mem.nodes, Owns(mem.nodes[i], p),
           i \in DOMAIN disk.nodes, Owns(disk.nodes[i], p)
    PROVE  i \in DOMAIN mem'.nodes /\ Owns(mem'.nodes[i], p)
<1> DEFINE d == disk.nodes
           a == mem.nodes
           b == mem'.nodes
           Goal == i \in DOMAIN b /\ Owns(b[i], p)
<1> SUFFICES Goal
  OBVIOUS
<1>1. /\ i \in DOMAIN a /\ Owns(a[i], p) /\ i \in DOMAIN d /\ Owns(d[i], p)
      /\ i \notin Waiting
      /\ ~Settles(a[i])
  <2>1. ~Settles(a[i])
    BY DEF Settles, Owns, Alive, NoPid
  <2> QED
    BY <2>1 DEF Owns, SelectInv
<1>2. ASSUME NEW ns \in {a, d}, i \in DOMAIN b, b[i] = ns[i] PROVE Goal
  BY <1>1, <1>2
<1> HIDE DEF a, b, d, Goal
<1>3. CASE ReconcileNode
  <2>1. PICK j \in DOMAIN a : Settles(a[j]) /\ SettledAt(a, b, j, Settled(a[j]))
    BY <1>3, ReconcileNodeEffect DEF a, b
  <2> QED
    BY <1>1, <1>2, <2>1 DEF SettledAt
<1>4. CASE ResolveParents
  <2>1. /\ DOMAIN b = DOMAIN a
        /\ b[i] = a[i] \/ a[i].status = "needs_refactor"
    BY <1>1, <1>4, ResolveParentsEffect DEF a, b
  <2> QED
    BY <1>1, <1>2, <2>1 DEF Owns
<1>5. CASE RewindNode
  <2>1. a[i].id.base \in Spared
    BY <1>1 DEF Owns
  <2>2. i \in DOMAIN b /\ b[i] = a[i]
    BY <1>1, <1>5, <2>1, RewoundSpares DEF a, b
  <2> QED
    BY <1>2, <2>2
<1>6. CASE SpawnNode
  <2>1. PICK j \in DOMAIN mem.nodes :
           mem'.nodes = mem.nodes \o SpawnedEntries(mem.nodes, mem.nodes[j])
    BY <1>6, SpawnNodeEffect
  <2>2. DOMAIN a \subseteq DOMAIN b /\ \A k \in DOMAIN a : b[k] = a[k]
    BY <2>1, SpawnedNew DEF a, b
  <2> QED
    BY <1>1, <1>2, <2>2
<1>7. CASE LaunchExecutor \/ StartSync \/ ExecutorNotFound
  <2>1. DOMAIN a \subseteq DOMAIN b /\ \A j \in DOMAIN a : j # Candidate => b[j] = a[j]
    BY <1>7, LaunchExecutorEffect, StartSyncEffect, ExecutorNotFoundEffect
       DEF a, b, Becomes, SettledAt
  <2>2. Candidate \in Waiting
    BY <1>7, LaunchExecutorEffect, StartSyncEffect, ExecutorNotFoundEffect DEF Waiting
  <2> QED
    BY <1>1, <1>2, <2>1, <2>2
<1>8. CASE \E ok \in BOOLEAN : SyncReturns(ok)
  <2>1. /\ pc = "sync" /\ DOMAIN a \subseteq DOMAIN b
        /\ \A j \in DOMAIN a : j # cursor => b[j] = a[j]
    BY <1>8, SyncReturnsEffect DEF a, b, SettledAt
  <2>2. i # cursor
    BY <1>1, <2>1 DEF SelectInv, Owns, a
  <2> QED
    BY <1>1, <1>2, <2>1, <2>2
<1>9. CASE \E answer \in {"y", "n"} : Confirm(answer)
  <2>1. plan # NoPlan
    BY <1>9, ConfirmEffect
  <2>2. CASE b = d \o [k \in DOMAIN plan.nodes |-> EntryOf(plan.nodes[k], {}, {})]
    <3>1. DOMAIN d \subseteq DOMAIN b /\ \A j \in DOMAIN d : b[j] = d[j]
      BY <2>1, <2>2, PlannedNew DEF b, d
    <3> QED
      BY <1>1, <1>2, <3>1
  <2>3. CASE /\ DOMAIN b = DOMAIN d
             /\ \A j \in DOMAIN d :
                   /\ Same(d[j], b[j]) /\ b[j].pid = d[j].pid
                   /\ b[j].status = IF d[j].id = NamedId(Planner)
                                      THEN "pending" ELSE d[j].status
    <3>1. d[i].id # NamedId(Planner)
      BY <1>1 DEF PlannerInv, PlannerFact, Owns, d
    <3> QED
      BY <1>1, <2>3, <3>1 DEF Owns, Same, Goal
  <2> QED
    BY <1>9, <2>2, <2>3, ConfirmEffect DEF b, d
<1>10. CASE \E j \in DOMAIN disk.nodes : ResetNode(j)
  <2>1. resets \in Nat /\ MaxResets = 0
    BY DEF TypeInv, TypeOK, Unbroken
  <2> QED
    BY <1>10, <2>1 DEF ResetNode
<1>11. CASE \/ Finalize("complete", "indexComplete") \/ Finalize("failed", "indexFailed")
            \/ ReopenWorkflow \/ Route \/ WriteLaunched \/ Persist \/ WriteConfirmed
            \/ Reread \/ Silent
  <2>1. b = a \/ b = d
    BY <1>11, FinalizeEffect, ReopenEffect, RouteEffect, WriteEffect
       DEF Reread, Silent, a, b, d
  <2> QED
    BY <1>1, <1>2, <2>1
<1> QED
  BY <1>3, <1>4, <1>5, <1>6, <1>7, <1>8, <1>9, <1>10, <1>11, StepCases

LEMMA OwnedStep ==
    ASSUME Unbroken, TypeInv, PlannerInv, SelectInv, SparedInv, OwnedInv, [Next]_vars
    PROVE  OwnedInv'
<1>0. ~Crash
  <2>1. crashes \in Nat /\ MaxCrashes = 0
    BY DEF TypeInv, TypeOK, Unbroken
  <2> QED
    BY <2>1 DEF Crash
<1> SUFFICES ASSUME NEW q \in procs', q.state = "live"
             PROVE  /\ q.run # NoPid
                    /\ q.node.base \in Spared =>
                          \E i \in DOMAIN mem'.nodes :
                             /\ Owns(mem'.nodes[i], q)
                             /\ \/ pc' = "launched" /\ i = Candidate'
                                \/ i \in DOMAIN disk'.nodes /\ Owns(disk'.nodes[i], q)
  BY DEF OwnedInv
<1>1. CASE /\ LaunchExecutor /\ q.node = mem.nodes[Candidate].id
           /\ q.run = Launches(mem.nodes[Candidate].id) + 1
  <2>1. PICK e \in Entry :
           /\ Later(mem.nodes[Candidate], e, "running", 1) /\ e.pid = q.run
           /\ Becomes(mem.nodes, mem'.nodes, Candidate, e)
    BY <1>1, LaunchExecutorEffect
  <2>2. /\ q.run # NoPid /\ pc' = "launched" /\ Candidate' = Candidate
        /\ Candidate \in DOMAIN mem.nodes /\ mem.nodes[Candidate].mode = "none"
    BY <1>1, LaunchExecutorEffect DEF NoPid, Candidate
  <2> QED
    BY <1>1, <2>1, <2>2 DEF Becomes, Later, Same, Owns
<1>2. CASE \E p \in procs : p.state = "live" /\ p.node = q.node /\ p.run = q.run
  <2>1. PICK p \in procs : p.state = "live" /\ p.node = q.node /\ p.run = q.run
    BY <1>2
  <2>2. p.run # NoPid
    BY <2>1 DEF OwnedInv
  <2> SUFFICES ASSUME p.node.base \in Spared
               PROVE  \E i \in DOMAIN mem'.nodes :
                         /\ Owns(mem'.nodes[i], q)
                         /\ \/ pc' = "launched" /\ i = Candidate'
                            \/ i \in DOMAIN disk'.nodes /\ Owns(disk'.nodes[i], q)
    BY <2>1, <2>2
  <2>3. PICK i \in DOMAIN mem.nodes :
           /\ Owns(mem.nodes[i], p)
           /\ \/ pc = "launched" /\ i = Candidate
              \/ i \in DOMAIN disk.nodes /\ Owns(disk.nodes[i], p)
    BY <2>1 DEF OwnedInv
  <2>4. \A e : Owns(e, p) => Owns(e, q)
    BY <2>1 DEF Owns
  <2>5. CASE i \in DOMAIN disk.nodes /\ Owns(disk.nodes[i], p)
    <3>1. i \in DOMAIN mem'.nodes /\ Owns(mem'.nodes[i], p)
      BY <2>1, <2>3, <2>2, <2>5, OwnerKept
    <3>2. i \in DOMAIN disk'.nodes /\ Owns(disk'.nodes[i], p)
      BY <2>3, <2>5, <3>1, Provenance
    <3> QED
      BY <2>1, <2>2, <2>4, <3>1, <3>2
  <2>6. CASE pc = "launched" /\ i = Candidate
    <3>1. CASE WriteLaunched
      BY <2>1, <2>3, <2>2, <2>4, <3>1 DEF WriteLaunched
    <3>2. CASE UNCHANGED <<disk, mem, cand, pc>>
      BY <2>1, <2>3, <2>2, <2>4, <2>6, <3>2 DEF Candidate
    <3> QED
      BY <1>0, <2>6, <3>1, <3>2, LaunchedStep
  <2> QED
    BY <2>3, <2>5, <2>6
<1> QED
  BY <1>1, <1>2, ProcsStep

(* Without rewinds all nodes are spared. *)
LEMMA AllOwned ==
    ASSUME NoFaults, TypeInv, OwnedInv, NEW p \in procs, p.state = "live"
    PROVE  \E i \in DOMAIN mem.nodes : Owns(mem.nodes[i], p)
<1>1. p.node.base \in NodeName
  BY DEF TypeInv, TypeOK, Proc, Id
<1> QED
  BY <1>1, AllSpared DEF OwnedInv, NoFaults, NoPutBack

(* Without crashes, rewinds and resets the engine never loses sight of an  *)
(* executor: each one that still runs is named by a running entry, from    *)
(* Popen on.                                                               *)
THEOREM ExecutorsOwned ==
    ASSUME NoFaults, PlannerOwn PROVE Spec => []NoOrphanExecutor
<1>1. Init => OwnedInv /\ SparedInv /\ MetaInv /\ PlannerInv /\ SelectInv
  BY MetaInit, PlannerInit, SelectInit, SparedInit DEF Init, OwnedInv
<1>2. /\ TypeInv /\ TypeInv' /\ OwnedInv /\ SparedInv /\ MetaInv /\ PlannerInv
      /\ SelectInv /\ [Next]_vars
      => OwnedInv' /\ SparedInv' /\ MetaInv' /\ PlannerInv' /\ SelectInv'
  BY OwnedStep, SparedStep, MetaStep, PlannerStep, SelectStep
     DEF NoFaults, NoPutBack, Unbroken
<1>3. TypeInv /\ OwnedInv => NoOrphanExecutor
  BY AllOwned DEF Owns, NoOrphanExecutor
<1> QED
  BY <1>1, <1>2, <1>3, TypeInvariant, PTL DEF Spec

-----------------------------------------------------------------------------
(* A complete workflow is at rest.                                         *)

LEMMA SpawnsStep ==
    ASSUME TypeInv, [Next]_vars, NEW id \in spawns', id \notin spawns
    PROVE  pc = "sync" \/ \E p \in procs : p.state = "live"
<1>1. CASE Executors
  BY <1>1 DEF Executors, ExecutorExits
<1>2. CASE \/ PlannerWrites \/ SyncSpawns \/ QuitRepl \/ RewindsDone \/ UNCHANGED vars
  BY <1>2 DEF PlannerWrites, SyncSpawns, QuitRepl, RewindsDone, files, vars
<1>3. CASE \/ ReconcileNode \/ ResolveParents \/ RewindNode \/ SpawnNode \/ Route
           \/ LaunchExecutor \/ ExecutorNotFound \/ StartSync
  BY <1>3, ReconcileNodeEffect, ResolveParentsEffect, RewindNodeEffect, SpawnNodeEffect,
     RouteEffect, LaunchExecutorEffect, ExecutorNotFoundEffect, StartSyncEffect DEF files
<1>4. CASE \/ (\E ok \in BOOLEAN : SyncReturns(ok))
           \/ (\E answer \in {"y", "n"} : Confirm(answer))
           \/ (\E i \in DOMAIN disk.nodes : ResetNode(i))
           \/ ReopenWorkflow \/ WriteLaunched \/ Persist \/ WriteConfirmed
           \/ Finalize("complete", "indexComplete") \/ Finalize("failed", "indexFailed")
  BY <1>4, SyncReturnsEffect, ConfirmEffect, ResetNodeEffect, ReopenEffect, WriteEffect,
     FinalizeEffect
<1>5. CASE \/ StartCycle \/ RouteAwaiting \/ DispatchAborts \/ Crash
           \/ (\E at, status : SyncIndex(at, status))
  BY <1>5, RereadEffect DEF Reread
<1> QED
  BY <1>1, <1>2, <1>3, <1>4, <1>5
     DEF Next, EngineStep, Reconcile, Dispatch, Finish, User

(* Nothing is left to do, and nothing to add. *)
Finished(ns, ids) == /\ AllCompleted(ns) /\ DOMAIN ns # {}
                     /\ \A i \in DOMAIN ns : ns[i].id \notin ids

DoneInv ==
    /\ pc = "spawn" /\ AllCompleted(mem.nodes) =>
          \A i \in DOMAIN mem.nodes : i < cursor => mem.nodes[i].id \notin spawns
    /\ pc = "complete" => Finished(mem.nodes, spawns)
    /\ disk.phase = "complete" =>
          /\ Finished(disk.nodes, spawns) /\ Finished(mem.nodes, spawns) /\ mem.phase = "complete"
          /\ pc \in {"idle", "reconcile", "rewind", "spawn", "complete", "indexComplete"}
    /\ mem.phase = "complete" => disk.phase = "complete"

LEMMA DoneStep ==
    ASSUME NoFaults, TypeInv, SparedInv, OwnedInv, DoneInv, [Next]_vars
    PROVE  DoneInv'
<1> DEFINE d == disk.nodes
           a == mem.nodes
           b == mem'.nodes
           rest == disk.phase = "complete"
<1>1. /\ pc = "spawn" /\ AllCompleted(a) =>
            \A i \in DOMAIN a : i < cursor => a[i].id \notin spawns
      /\ pc = "complete" => Finished(a, spawns)
      /\ rest => /\ Finished(d, spawns) /\ Finished(a, spawns) /\ mem.phase = "complete"
                 /\ pc \in {"idle", "reconcile", "rewind", "spawn", "complete",
                            "indexComplete"}
      /\ mem.phase = "complete" => rest
      /\ cursor \in Nat /\ DOMAIN a \subseteq Nat
  BY Memory DEF DoneInv, TypeInv, TypeOK
<1>2. ASSUME disk'.phase # "complete", mem'.phase # "complete",
             pc' \notin {"spawn", "complete"}
      PROVE  DoneInv'
  BY <1>2 DEF DoneInv
<1>3. ASSUME ~rest, mem'.phase # "complete", pc' \notin {"spawn", "complete"}
      PROVE  DoneInv'
  <2>1. disk'.phase # "complete"
    BY <1>1, <1>3, Provenance
  <2> QED
    BY <1>2, <1>3, <2>1
<1>4. ASSUME AllCompleted(a) PROVE \A p \in procs : p.state # "live"
  BY <1>4, AllOwned DEF Owns, AllCompleted
<1>5. ASSUME NEW ns, Finished(ns, spawns), spawns' \subseteq spawns PROVE Finished(ns, spawns')
  BY <1>5 DEF Finished
<1> HIDE DEF a, b, d, rest
<1>6. CASE ReconcileNode
  <2>1. PICK i \in DOMAIN a : Settles(a[i])
    BY <1>6, ReconcileNodeEffect DEF a
  <2>2. ~rest
    BY <1>1, <2>1 DEF Finished, AllCompleted, Settles
  <2> QED
    BY <1>1, <1>3, <1>6, <2>2, ReconcileNodeEffect
<1>7. CASE ResolveParents
  <2>1. /\ disk' = disk /\ mem'.phase = mem.phase /\ pc' = "rewind" /\ spawns' = spawns
        /\ DOMAIN b = DOMAIN a
        /\ \A i \in DOMAIN a : b[i] = a[i] \/ a[i].status = "needs_refactor"
    BY <1>7, ResolveParentsEffect DEF a, b
  <2>2. CASE rest
    <3>1. \A i \in DOMAIN a : b[i] = a[i]
      BY <1>1, <2>1, <2>2 DEF Finished, AllCompleted
    <3>2. Finished(b, spawns') /\ Finished(d, spawns')
      BY <1>1, <2>1, <2>2, <3>1 DEF Finished, AllCompleted, b, d
    <3> QED
      BY <1>1, <2>1, <2>2, <3>2 DEF DoneInv, rest, b, d
  <2> QED
    BY <1>1, <1>3, <2>1, <2>2
<1>8. CASE RewindNode
  BY <1>8, RewindsOne DEF SparedInv, Targets, NoFaults, NoPutBack
<1>9. CASE SpawnNode
  <2>1. PICK i \in ToSpawn :
           /\ i \in DOMAIN mem.nodes /\ cursor' = i + 1
           /\ \A k \in ToSpawn : i <= k
           /\ spawns' = spawns \ {mem.nodes[i].id}
           /\ mem'.nodes = mem.nodes \o SpawnedEntries(mem.nodes, mem.nodes[i])
    BY <1>9, SpawnNodeEffect
  <2>2. /\ DOMAIN a \subseteq DOMAIN b /\ \A j \in DOMAIN a : b[j] = a[j]
        /\ \A j \in DOMAIN b \ DOMAIN a : b[j].status = "pending"
    BY <2>1, SpawnedNew DEF New, a, b
  <2>3. ~rest
    BY <1>1, <2>1 DEF Finished, ToSpawn, a
  <2>4. disk'.phase # "complete" /\ mem'.phase # "complete" /\ pc' = "spawn" /\ pc = "spawn"
    BY <1>1, <1>9, <2>3, SpawnNodeEffect DEF rest
  <2>5. ASSUME AllCompleted(b), NEW j \in DOMAIN b, j < i + 1
        PROVE  b[j].id \notin spawns'
    <3>1. j \in DOMAIN a /\ b[j] = a[j] /\ AllCompleted(a) /\ a[j].status = "completed"
      BY <2>2, <2>5 DEF AllCompleted
    <3>2. CASE j = i
      BY <2>1, <3>1, <3>2 DEF a
    <3>3. CASE j # i
      <4>1. j < i /\ i \in Nat /\ j \in Nat
        BY <1>1, <2>1, <2>5, <3>1, <3>3 DEF a
      <4>2. j \notin ToSpawn
        BY <2>1, <4>1
      <4>3. j < cursor \/ a[j].id \notin spawns
        BY <1>1, <3>1, <4>1, <4>2 DEF ToSpawn, a
      <4> QED
        BY <1>1, <2>1, <2>4, <3>1, <4>3
    <3> QED
      BY <3>2, <3>3
  <2> QED
    BY <2>1, <2>4, <2>5 DEF DoneInv, b
<1>10. CASE Route
  <2>1. /\ pc = "spawn" /\ ToSpawn = {} /\ mem' = mem /\ disk' = disk /\ spawns' = spawns
        /\ pc' \in {"complete", "dispatch", "failed", "blocked"}
        /\ pc' = "complete" => a # <<>> /\ AllCompleted(a)
        /\ pc' # "complete" => a = <<>> \/ ~AllCompleted(a)
    BY <1>10, RouteEffect DEF files, a
  <2>2. CASE pc' # "complete"
    <3>1. ~rest
      BY <1>1, <2>1, <2>2 DEF Finished
    <3> QED
      BY <1>1, <1>3, <2>1, <2>2, <3>1
  <2>3. CASE pc' = "complete"
    <3>1. \A i \in DOMAIN a : a[i].id \notin spawns
      <4> SUFFICES ASSUME NEW i \in DOMAIN a PROVE a[i].id \notin spawns
        OBVIOUS
      <4>1. i < cursor \/ i >= cursor
        BY <1>1
      <4> QED
        BY <1>1, <2>1, <2>3, <4>1 DEF ToSpawn, AllCompleted, a
    <3>2. DOMAIN a # {}
      <4>1. a \in Seq(Entry) /\ a # <<>>
        BY <2>1, <2>3, Memory DEF a
      <4>2. Len(a) \in Nat /\ Len(a) # 0 /\ DOMAIN a = 1 .. Len(a)
        BY <4>1, LenProperties, EmptySeq
      <4> QED
        BY <4>2
    <3>3. Finished(a, spawns)
      BY <2>1, <2>3, <3>1, <3>2 DEF Finished
    <3> QED
      BY <1>1, <2>1, <2>3, <3>3 DEF DoneInv, Finished, AllCompleted, rest, a, d
  <2> QED
    BY <2>2, <2>3
<1>11. CASE LaunchExecutor \/ ExecutorNotFound \/ StartSync
  <2>1. /\ pc = "dispatch" /\ pc' \in {"launched", "sync"} /\ mem'.phase = mem.phase
    BY <1>11, LaunchExecutorEffect, ExecutorNotFoundEffect, StartSyncEffect
  <2> QED
    BY <1>1, <1>3, <2>1
<1>12. CASE \E ok \in BOOLEAN : SyncReturns(ok)
  <2>1. /\ pc = "sync" /\ pc' \in {"dispatch", "indexFailed"}
        /\ mem'.phase \in {mem.phase, "awaiting_confirm", "failed"}
    BY <1>12, SyncReturnsEffect
  <2> QED
    BY <1>1, <1>3, <2>1
<1>13. CASE Finalize("complete", "indexComplete")
  <2>1. /\ pc = "complete" /\ pc' = "indexComplete" /\ disk' = mem'
        /\ mem'.phase = "complete" /\ mem'.nodes = a /\ spawns' = spawns
    BY <1>13, FinalizeEffect DEF a
  <2>2. Finished(a, spawns')
    BY <1>1, <2>1 DEF Finished, AllCompleted, a
  <2> QED
    BY <1>1, <2>1, <2>2 DEF DoneInv, Finished, AllCompleted
<1>14. CASE Finalize("failed", "indexFailed")
  BY <1>2, <1>14, FinalizeEffect
<1>15. CASE \E answer \in {"y", "n"} : Confirm(answer)
  BY <1>2, <1>15, ConfirmEffect
<1>16. CASE \E j \in DOMAIN disk.nodes : ResetNode(j)
  <2>1. resets \in Nat /\ MaxResets = 0
    BY DEF TypeInv, TypeOK, NoFaults, NoPutBack
  <2> QED
    BY <1>16, <2>1 DEF ResetNode
<1>17. CASE ReopenWorkflow
  BY <1>2, <1>17, ReopenEffect
<1>18. CASE WriteLaunched \/ Persist \/ WriteConfirmed
  <2>1. pc \in {"launched", "dispatch", "blocked", "confirm"}
    BY <1>18 DEF WriteLaunched, Persist, WriteConfirmed
  <2>2. mem' = mem /\ pc' \in {"idle", "dispatch"}
    BY <1>18, WriteEffect
  <2> QED
    BY <1>1, <1>3, <2>1, <2>2
<1>19. CASE Reread
  <2>1. mem' = disk /\ disk' = disk /\ pc' \in {"idle", "reconcile"} /\ spawns' = spawns
    BY <1>19 DEF Reread
  <2> QED
    BY <1>1, <2>1 DEF DoneInv, Finished, AllCompleted, rest, d
<1>20. CASE Silent
  <2>1. mem' = mem /\ disk' = disk
        /\ \/ pc' = pc /\ cursor' = cursor
           \/ pc = "rewind" /\ pc' = "spawn" /\ cursor' = 1
    BY <1>20 DEF Silent, RewindsDone
  <2>2. ASSUME AllCompleted(a), pc # "sync" PROVE spawns' \subseteq spawns
    BY <1>4, <2>2, SpawnsStep
  <2>3. pc' = "spawn" /\ AllCompleted(a) =>
           \A i \in DOMAIN a : i < cursor' => a[i].id \notin spawns'
    <3> SUFFICES ASSUME pc' = "spawn", AllCompleted(a), NEW i \in DOMAIN a, i < cursor'
                 PROVE  a[i].id \notin spawns'
      OBVIOUS
    <3>1. spawns' \subseteq spawns
      BY <2>1, <2>2
    <3>2. a \in Seq(Entry)
      BY Memory DEF a
    <3>3. i >= 1
      BY <3>2, LenProperties
    <3> QED
      BY <1>1, <2>1, <3>1, <3>3
  <2>4. ASSUME Finished(a, spawns), pc # "sync" PROVE Finished(a, spawns')
    BY <2>1, <2>2, <2>4 DEF Finished, AllCompleted, a
  <2>5. rest => Finished(d, spawns')
    BY <1>1, <2>1, <2>2 DEF Finished, AllCompleted, d
  <2> QED
    BY <1>1, <2>1, <2>3, <2>4, <2>5 DEF DoneInv, rest, a, d
<1> QED
  BY <1>6, <1>7, <1>8, <1>9, <1>10, <1>11, <1>12, <1>13, <1>14, <1>15, <1>16, <1>17,
     <1>18, <1>19, <1>20, StepCases

(* Without crashes, rewinds and resets a workflow that is complete on disk *)
(* is done: every node is completed, no executor still runs, and none will *)
(* be added: its spawn.json files were all processed.                      *)
THEOREM CompleteIsDone ==
    ASSUME NoFaults, PlannerOwn PROVE Spec => []CompleteMeansDone
<1>1. Init => DoneInv /\ OwnedInv /\ SparedInv /\ MetaInv /\ PlannerInv /\ SelectInv
  BY MetaInit, PlannerInit, SelectInit, SparedInit DEF Init, OwnedInv, DoneInv
<1>2. /\ TypeInv /\ TypeInv' /\ DoneInv /\ OwnedInv /\ SparedInv /\ MetaInv /\ PlannerInv
      /\ SelectInv /\ [Next]_vars
      => DoneInv' /\ OwnedInv' /\ SparedInv' /\ MetaInv' /\ PlannerInv' /\ SelectInv'
  BY DoneStep, OwnedStep, SparedStep, MetaStep, PlannerStep, SelectStep
     DEF NoFaults, NoPutBack, Unbroken
<1>3. TypeInv /\ DoneInv /\ OwnedInv => CompleteMeansDone
  <2> SUFFICES ASSUME TypeInv, DoneInv, OwnedInv, disk.phase = "complete"
               PROVE  /\ \A i \in DOMAIN disk.nodes : disk.nodes[i].status = "completed"
                      /\ \A p \in procs : p.state # "live"
    BY DEF CompleteMeansDone
  <2>1. AllCompleted(disk.nodes) /\ AllCompleted(mem.nodes)
    BY DEF DoneInv, Finished
  <2> QED
    BY <2>1, AllOwned DEF AllCompleted, Owns
<1> QED
  BY <1>1, <1>2, <1>3, TypeInvariant, PTL DEF Spec

-----------------------------------------------------------------------------
(* Node ids stay unique.                                                   *)

(* What is spawned was not there, nor twice in spawn.json.                 *)
DistinctNames(defs) ==
    \A j, k \in DOMAIN defs : defs[j].name = defs[k].name => j = k

(* No plan and no spawn.json names a node twice.  Nothing validates them.  *)
NamesOnce == /\ \A defs \in Plans : DistinctNames(defs)
             /\ \A n \in NodeName : DistinctNames(SpawnOf[n])

Once(ns) == \A i, j \in DOMAIN ns : ns[i].id = ns[j].id => i = j

LEMMA SpawnedOnce ==
    ASSUME NamesOnce, NEW ns, NEW e \in Entry
    PROVE  /\ Once(SpawnedEntries(ns, e))
           /\ \A k \in DOMAIN SpawnedEntries(ns, e) :
                 SpawnedEntries(ns, e)[k].id \notin Ids(ns)
<1> DEFINE defs == SpawnOf[e.id.base]
           fresh == {m \in DOMAIN defs : NamedId(defs[m].name) \notin Ids(ns)}
           n == Cardinality(fresh)
           more == SpawnedEntries(ns, e)
<1>1. defs \in Seq(NodeDef) /\ e.id.base \in NodeName
  BY InputsAssumption DEF Entry, Id
<1>2. Len(defs) \in Nat /\ DOMAIN defs = 1 .. Len(defs)
  BY <1>1, LenProperties
<1>3. more = [m \in 1 .. n |-> EntryOf(defs[Nth(fresh, m)], {e.id}, {e.id})]
  BY DEF SpawnedEntries
<1>4. \A m \in 1 .. n : /\ Nth(fresh, m) \in fresh
                        /\ Cardinality({j \in fresh : j <= Nth(fresh, m)}) = m
  BY <1>2, NthType
<1>5. \A d : EntryOf(d, {e.id}, {e.id}).id = NamedId(d.name)
  BY DEF EntryOf
<1>6. DistinctNames(defs)
  BY <1>1 DEF NamesOnce
<1>7. \A m \in fresh : m \in DOMAIN defs /\ NamedId(defs[m].name) \notin Ids(ns)
  OBVIOUS
<1>8. \A x, y : NamedId(x) = NamedId(y) => x = y
  BY DEF NamedId
<1> HIDE DEF defs, fresh, n, more
<1>9. DOMAIN more = 1 .. n /\ \A m \in 1 .. n : more[m].id = NamedId(defs[Nth(fresh, m)].name)
  BY <1>3, <1>5
<1>10. ASSUME NEW i \in 1 .. n, NEW j \in 1 .. n, more[i].id = more[j].id PROVE i = j
  <2>1. defs[Nth(fresh, i)].name = defs[Nth(fresh, j)].name
    BY <1>8, <1>9, <1>10
  <2>2. Nth(fresh, i) = Nth(fresh, j)
    BY <1>4, <1>6, <1>7, <2>1 DEF DistinctNames
  <2> QED
    BY <1>4, <2>2
<1>11. Once(more)
  BY <1>9, <1>10 DEF Once
<1>12. ASSUME NEW k \in DOMAIN more PROVE more[k].id \notin Ids(ns)
  BY <1>4, <1>7, <1>9
<1> QED
  BY <1>11, <1>12 DEF more

LEMMA ConcatOnce ==
    ASSUME NEW a \in Seq(Entry), NEW more \in Seq(Entry), Once(a), Once(more),
           \A k \in DOMAIN more : more[k].id \notin Ids(a)
    PROVE  Once(a \o more)
<1> DEFINE b == a \o more
<1>1. /\ Len(a) \in Nat /\ DOMAIN a = 1 .. Len(a)
      /\ Len(more) \in Nat /\ DOMAIN more = 1 .. Len(more)
  BY LenProperties
<1>2. /\ DOMAIN b = 1 .. Len(a) + Len(more)
      /\ \A j \in 1 .. Len(a) : b[j] = a[j]
      /\ \A j \in 1 .. Len(more) : b[Len(a) + j] = more[j]
  BY <1>1, ConcatProperties, LenProperties
<1> HIDE DEF b
<1>3. ASSUME NEW i \in DOMAIN b, NEW j \in DOMAIN b, b[i].id = b[j].id
      PROVE  i = j
  <2>1. ASSUME NEW k \in DOMAIN b, k \notin DOMAIN a
        PROVE  k - Len(a) \in DOMAIN more /\ b[k] = more[k - Len(a)]
    <3>1. k - Len(a) \in 1 .. Len(more) /\ Len(a) + (k - Len(a)) = k
      BY <1>1, <1>2, <2>1
    <3> QED
      BY <1>1, <1>2, <3>1
  <2>2. \A k \in DOMAIN a : b[k] = a[k] /\ a[k].id \in Ids(a)
    BY <1>1, <1>2 DEF Ids
  <2>3. CASE i \in DOMAIN a /\ j \in DOMAIN a
    BY <1>3, <2>2, <2>3 DEF Once
  <2>4. CASE i \notin DOMAIN a /\ j \notin DOMAIN a
    <3>1. i - Len(a) = j - Len(a)
      BY <1>3, <2>1, <2>4 DEF Once
    <3> QED
      BY <1>1, <1>2, <3>1
  <2> QED
    BY <1>3, <2>1, <2>2, <2>3, <2>4
<1> QED
  BY <1>3 DEF Once, b

-----------------------------------------------------------------------------
(* Whose spawn.json, and whose rewind.json, there may be.                  *)
NamedSpawns == \A id \in spawns : id.meta = <<>>
PlannerSpared == \A r \in rewinds : r[2] # NamedId(Planner)

LEMMA NamedIds ==
    ASSUME NEW id \in Id, ~IsMeta(id) PROVE id.meta = <<>>
<1>1. id.meta \in Seq(MetaKinds \X Nat)
  BY DEF Id
<1>2. ASSUME id.meta # <<>> PROVE id.meta[Len(id.meta)] \in MetaKinds \X Nat
  BY <1>1, <1>2, LenProperties, EmptySeq
<1> QED
  BY <1>2 DEF IsMeta, KindOf, MetaKinds

LEMMA SpawnsNamed ==
    ASSUME TypeInv, MetaInv, SelectInv, [Next]_vars, NEW id \in spawns', id \notin spawns
    PROVE  id.meta = <<>>
<1>1. CASE Executors
  <2>1. PICK p \in procs, wrote \in BOOLEAN : ExecutorExits(p, wrote)
    BY <1>1 DEF Executors
  <2>2. id = p.node /\ ~IsMeta(p.node)
    BY <2>1 DEF ExecutorExits
  <2>3. p.node \in Id
    BY DEF TypeInv, TypeOK, Proc
  <2> QED
    BY <2>2, <2>3, NamedIds
<1>2. CASE PlannerWrites \/ QuitRepl \/ RewindsDone \/ UNCHANGED vars
  BY <1>2 DEF PlannerWrites, QuitRepl, RewindsDone, files, vars
<1>3. CASE SyncSpawns
  <2>1. id = mem.nodes[cursor].id /\ cursor \in DOMAIN mem.nodes /\ pc = "sync"
    BY <1>3 DEF SyncSpawns, TypeInv, PcInv
  <2> QED
    BY <2>1 DEF SelectInv, MetaInv, MetaFact
<1>4. CASE \/ ReconcileNode \/ ResolveParents \/ RewindNode \/ SpawnNode \/ Route
           \/ LaunchExecutor \/ ExecutorNotFound \/ StartSync
  BY <1>4, ReconcileNodeEffect, ResolveParentsEffect, RewindNodeEffect, SpawnNodeEffect,
     RouteEffect, LaunchExecutorEffect, ExecutorNotFoundEffect, StartSyncEffect DEF files
<1>5. CASE \/ (\E ok \in BOOLEAN : SyncReturns(ok))
           \/ (\E answer \in {"y", "n"} : Confirm(answer))
           \/ (\E i \in DOMAIN disk.nodes : ResetNode(i))
           \/ ReopenWorkflow \/ WriteLaunched \/ Persist \/ WriteConfirmed
           \/ Finalize("complete", "indexComplete") \/ Finalize("failed", "indexFailed")
  BY <1>5, SyncReturnsEffect, ConfirmEffect, ResetNodeEffect, ReopenEffect, WriteEffect,
     FinalizeEffect
<1>6. CASE \/ StartCycle \/ RouteAwaiting \/ DispatchAborts \/ Crash
           \/ (\E at, status : SyncIndex(at, status))
  BY <1>6, RereadEffect DEF Reread
<1> QED
  BY <1>1, <1>2, <1>3, <1>4, <1>5, <1>6
     DEF Next, EngineStep, Reconcile, Dispatch, Finish, User

LEMMA FilesStep ==
    ASSUME Planner \notin RewindTo, TypeInv, MetaInv, SelectInv, NamedSpawns,
           PlannerSpared, [Next]_vars
    PROVE  NamedSpawns' /\ PlannerSpared'
<1>1. NamedSpawns'
  BY SpawnsNamed DEF NamedSpawns
<1>2. \A target \in RewindTo : NamedId(target) # NamedId(Planner)
  BY DEF NamedId
<1>3. PlannerSpared'
  BY <1>2, RewindsStep DEF PlannerSpared
<1> QED
  BY <1>1, <1>3

-----------------------------------------------------------------------------
(* Nothing but the planner and its meta nodes; the planner is done.        *)
Fresh(ns) == \A i \in DOMAIN ns : ns[i].id.base = Planner
PlannerDone(ns) ==
    \A i \in DOMAIN ns : ns[i].id = NamedId(Planner) => ns[i].status = "completed"

(* Before the first plan is accepted a manifest holds the planner alone,   *)
(* and it goes on only when the planner is done.  held: spawned nodes in   *)
(* memory which a workflow that waits for an answer will drop.             *)
Era(ns, phase, held) ==
    /\ Once(ns)
    /\ Fresh(ns) \/ PlannerDone(ns)
    /\ phase = "awaiting_confirm" => PlannerDone(ns) /\ (Fresh(ns) \/ held)

EraInv ==
    resets = 0 => /\ Era(disk.nodes, disk.phase, FALSE)
                  /\ Era(mem.nodes, mem.phase, pc = "spawn")

(* Entries stay, the planner stays done, and what is new is a meta node.   *)
ChildOf(id, ns) == id.meta # <<>> /\ \E i \in DOMAIN ns : id.base = ns[i].id.base
StaysDone(e, f) ==
    /\ f.id = e.id
    /\ e.id = NamedId(Planner) /\ e.status = "completed" => f.status = "completed"
Follows(a, b) ==
    /\ DOMAIN a \subseteq DOMAIN b
    /\ \A i \in DOMAIN a : StaysDone(a[i], b[i])
    /\ \A j, k \in DOMAIN b \ DOMAIN a : j = k
    /\ \A j \in DOMAIN b \ DOMAIN a : b[j].id \notin Ids(a) /\ ChildOf(b[j].id, a)

LEMMA FollowsEra ==
    ASSUME NEW a, NEW b, Follows(a, b), NEW p, NEW q, NEW held, Era(a, p, held),
           q = "awaiting_confirm" => p = "awaiting_confirm"
    PROVE  Era(b, q, held)
<1>1. Once(b)
  <2>1. \A i \in DOMAIN a : b[i].id = a[i].id /\ b[i].id \in Ids(a)
    BY DEF Follows, StaysDone, Ids
  <2>2. \A j \in DOMAIN b \ DOMAIN a : b[j].id \notin Ids(a)
    BY DEF Follows
  <2>3. ASSUME NEW i \in DOMAIN b, NEW j \in DOMAIN b, b[i].id = b[j].id PROVE i = j
    <3>1. CASE i \in DOMAIN a /\ j \in DOMAIN a
      BY <2>1, <2>3, <3>1 DEF Era, Once
    <3>2. CASE i \notin DOMAIN a /\ j \notin DOMAIN a
      BY <3>2 DEF Follows
    <3> QED
      BY <2>1, <2>2, <2>3, <3>1, <3>2
  <2> QED
    BY <2>3 DEF Once
<1>2. Fresh(a) => Fresh(b)
  <2>1. \A j \in DOMAIN b \ DOMAIN a : \E i \in DOMAIN a : b[j].id.base = a[i].id.base
    BY DEF Follows, ChildOf
  <2> QED
    BY <2>1 DEF Fresh, Follows, StaysDone
<1>3. PlannerDone(a) => PlannerDone(b)
  <2>1. \A j \in DOMAIN b \ DOMAIN a : b[j].id # NamedId(Planner)
    BY DEF Follows, ChildOf, NamedId
  <2> QED
    BY <2>1 DEF PlannerDone, Follows, StaysDone
<1> QED
  BY <1>1, <1>2, <1>3 DEF Era

LEMMA SettledFollows ==
    ASSUME NEW a \in Seq(Entry), NEW b, NEW i \in DOMAIN a, NEW e \in Entry,
           Same(a[i], e), SettledAt(a, b, i, e),
           a[i].id = NamedId(Planner) => a[i].status # "completed"
    PROVE  Follows(a, b)
<1>1. \A kind \in MetaKinds, n \in Nat :
         /\ MetaId(kind, e.id, n).meta # <<>>
         /\ MetaId(kind, e.id, n).base = e.id.base
  <2>1. \A kind \in MetaKinds, n \in Nat :
           MetaId(kind, e.id, n).meta = Append(e.id.meta, <<kind, n>>)
    BY MetaIdType DEF Entry
  <2>2. e.id.meta \in Seq(MetaKinds \X Nat)
    BY DEF Entry, Id
  <2>3. \A x \in MetaKinds \X Nat : Append(e.id.meta, x) # <<>>
    <3> DEFINE S == MetaKinds \X Nat
               m == e.id.meta
    <3>1. m \in Seq(S)
      BY <2>2
    <3> HIDE DEF S, m
    <3>2. \A x \in S : Append(m, x) # <<>>
      BY <3>1, AppendProperties
    <3> QED
      BY <3>2 DEF S, m
  <2>4. \A kind \in MetaKinds, n \in Nat : <<kind, n>> \in MetaKinds \X Nat
    OBVIOUS
  <2>5. \A kind, n : MetaId(kind, e.id, n).base = e.id.base
    BY DEF MetaId, Entry, Id
  <2> QED
    BY <2>1, <2>3, <2>4, <2>5
<1>2. Audited(e).id = e.id /\ Audited(e).attempt_count \in Nat /\ e.id = a[i].id
  BY AuditedLater DEF Entry, Same
<1>3. ASSUME NEW j \in DOMAIN b \ DOMAIN a
      PROVE  b[j].id \notin Ids(a) /\ ChildOf(b[j].id, a)
  <2>1. PICK kind \in ChildKinds(Audited(e)) :
           b[j] = MetaEntry(kind, Audited(e)) /\ b[j].id \notin Ids(a)
    BY <1>3 DEF SettledAt
  <2>2. kind \in MetaKinds
    BY DEF ChildKinds
  <2>3. b[j].id = MetaId(kind, e.id, Audited(e).attempt_count)
    BY <1>2, <2>1 DEF MetaEntry
  <2> QED
    BY <1>1, <1>2, <2>1, <2>2, <2>3 DEF ChildOf
<1>4. \A k \in DOMAIN a : StaysDone(a[k], b[k])
  BY <1>2 DEF SettledAt, StaysDone
<1> QED
  BY <1>3, <1>4 DEF Follows, SettledAt

LEMMA BecomesFollows ==
    ASSUME NEW a, NEW b, NEW i \in DOMAIN a, NEW e, Becomes(a, b, i, e),
           e.id = a[i].id, a[i].id = NamedId(Planner) => a[i].status # "completed"
    PROVE  Follows(a, b)
  BY DEF Becomes, Follows, StaysDone

LEMMA FollowsItself == ASSUME NEW a PROVE Follows(a, a)
  BY DEF Follows, StaysDone

(* What a completed planner's spawn.json or an accepted plan adds. *)
AddsNamed(a, b) ==
    /\ Once(b) /\ DOMAIN a \subseteq DOMAIN b
    /\ \A j \in DOMAIN a : b[j] = a[j]
    /\ \A j \in DOMAIN b \ DOMAIN a : b[j].id # NamedId(Planner)

LEMMA AddsEra ==
    ASSUME NEW a, NEW b, AddsNamed(a, b), PlannerDone(a), NEW q, NEW held,
           q = "awaiting_confirm" => held
    PROVE  Era(b, q, held)
<1>1. PlannerDone(b)
  BY DEF PlannerDone, AddsNamed
<1> QED
  BY <1>1 DEF Era, AddsNamed

LEMMA SpawnAdds ==
    ASSUME NamesOnce, PlannerOwn, NEW a \in Seq(Entry), Once(a), NEW e \in Entry
    PROVE  AddsNamed(a, a \o SpawnedEntries(a, e))
<1> DEFINE more == SpawnedEntries(a, e)
           b == a \o more
<1>1. more \in Seq(Entry)
  BY SpawnedShape
<1>2. Once(more) /\ \A k \in DOMAIN more : more[k].id \notin Ids(a)
  BY SpawnedOnce
<1>3. ASSUME NEW k \in DOMAIN more PROVE more[k].id # NamedId(Planner)
  <2>1. PICK d \in SpawnDefs : DefinedBy(more[k], d)
    BY <1>3, SpawnedDefined
  <2>2. d.name # Planner
    BY <2>1 DEF PlannerOwn, Definitions
  <2> QED
    BY <2>1, <2>2 DEF DefinedBy, NamedId
<1> HIDE DEF more
<1>4. Once(b)
  BY <1>1, <1>2, ConcatOnce
<1>5. /\ DOMAIN a \subseteq DOMAIN b /\ \A j \in DOMAIN a : b[j] = a[j]
      /\ \A j \in DOMAIN b \ DOMAIN a : \E k \in DOMAIN more : b[j] = more[k]
  BY <1>1, ConcatShape
<1>6. AddsNamed(a, b)
  BY <1>3, <1>4, <1>5 DEF AddsNamed
<1> QED
  BY <1>6 DEF more

LEMMA PlanAdds ==
    ASSUME NamesOnce, PlannerOwn, TypeInv, plan # NoPlan, Once(disk.nodes), Fresh(disk.nodes)
    PROVE  AddsNamed(disk.nodes, disk.nodes \o [k \in DOMAIN plan.nodes |->
                                         EntryOf(plan.nodes[k], {}, {})])
<1> DEFINE d == disk.nodes
           more == [k \in DOMAIN plan.nodes |-> EntryOf(plan.nodes[k], {}, {})]
           b == d \o more
<1>1. more \in Seq(Entry)
  BY PlanType, PlannedShape
<1>2. \A k \in DOMAIN plan.nodes : plan.nodes[k].name # Planner
  <2>1. \A k \in DOMAIN plan.nodes : plan.nodes[k] \in PlanDefs
    BY PlanType DEF PlanDefs
  <2> QED
    BY <2>1 DEF PlannerOwn, Definitions
<1>3. DistinctNames(plan.nodes)
  BY PlanType DEF NamesOnce
<1>4. DOMAIN more = DOMAIN plan.nodes
      /\ \A k \in DOMAIN more : more[k].id = NamedId(plan.nodes[k].name)
  BY DEF EntryOf
<1>5. \A x, y : (NamedId(x) = NamedId(y) => x = y) /\ NamedId(x).base = x
  BY DEF NamedId
<1>6. \A i \in DOMAIN d : d[i].id.base = Planner
  BY DEF Fresh
<1>7. d \in Seq(Entry) /\ Once(d)
  BY Memory
<1> HIDE DEF more, d
<1>8. Once(more)
  BY <1>3, <1>4, <1>5 DEF Once, DistinctNames
<1>9. \A k \in DOMAIN more : more[k].id # NamedId(Planner) /\ more[k].id \notin Ids(d)
  BY <1>2, <1>4, <1>5, <1>6 DEF Ids
<1>10. Once(b)
  BY <1>1, <1>7, <1>8, <1>9, ConcatOnce
<1>11. /\ DOMAIN d \subseteq DOMAIN b /\ \A j \in DOMAIN d : b[j] = d[j]
       /\ \A j \in DOMAIN b \ DOMAIN d : \E k \in DOMAIN more : b[j] = more[k]
  BY <1>1, <1>7, ConcatShape
<1>12. AddsNamed(d, b)
  BY <1>9, <1>10, <1>11 DEF AddsNamed
<1> QED
  BY <1>12 DEF more, d

(* The planner, in mode "planning", is no background node, and what a      *)
(* rewind marks stale depends on something.                                *)
LEMMA EraReconcile ==
    ASSUME TypeInv, PlannerInv, PlannerSpared, NEW p, NEW held,
           Era(mem.nodes, p, held),
           ReconcileNode \/ ResolveParents \/ RewindNode
    PROVE  Follows(mem.nodes, mem'.nodes)
<1> DEFINE a == mem.nodes
           b == mem'.nodes
<1>1. \A i \in DOMAIN a : a[i].mode = "none" \/ a[i].depends_on # {}
                             => a[i].id # NamedId(Planner)
  BY DEF PlannerInv, PlannerFact
<1>2. a \in Seq(Entry)
  BY Memory
<1> HIDE DEF a, b
<1>3. CASE ReconcileNode
  <2>1. PICK i \in DOMAIN a : /\ Settles(a[i]) /\ Settled(a[i]) \in Entry
                              /\ Same(a[i], Settled(a[i]))
                              /\ SettledAt(a, b, i, Settled(a[i]))
    BY <1>3, ReconcileNodeEffect DEF a, b
  <2>2. a[i].id # NamedId(Planner)
    BY <1>1, <2>1 DEF Settles
  <2>3. Follows(a, b)
    BY <1>2, <2>1, <2>2, SettledFollows
  <2> QED
    BY <2>3 DEF a, b
<1>4. CASE ResolveParents
  <2>1. /\ DOMAIN b = DOMAIN a
        /\ \A i \in DOMAIN a : \/ b[i] = a[i]
                               \/ Later(a[i], b[i], "completed", 0)
    BY <1>4, ResolveParentsEffect DEF a, b
  <2>2. \A i \in DOMAIN a : StaysDone(a[i], b[i])
    BY <2>1 DEF StaysDone, Later, Same
  <2>3. Follows(a, b)
    BY <2>1, <2>2 DEF Follows
  <2> QED
    BY <2>3 DEF a, b
<1>5. CASE RewindNode
  <2>1. PICK r \in rewinds : \A i \in DOMAIN a :
           \/ b[i] = a[i]
           \/ a[i].id = r[2]
           \/ \E k \in DOMAIN a : a[k].id = a[i].id /\ a[k].depends_on # {}
    BY <1>5, RewoundDepends DEF a, b
  <2>2. DOMAIN b = DOMAIN a /\ \A i \in DOMAIN a : b[i].id = a[i].id
    BY <1>5, RewindNodeEffect DEF a, b, Later, Same
  <2>3. \A i \in DOMAIN a : StaysDone(a[i], b[i])
    BY <1>1, <2>1, <2>2 DEF StaysDone, PlannerSpared
  <2>4. Follows(a, b)
    BY <2>2, <2>3 DEF Follows
  <2> QED
    BY <2>4 DEF a, b
<1> QED
  BY <1>3, <1>4, <1>5

LEMMA EraSpawn ==
    ASSUME NamesOnce, PlannerOwn, TypeInv, NamedSpawns,
           Era(mem.nodes, mem.phase, FALSE) \/ Era(mem.nodes, mem.phase, TRUE), SpawnNode
    PROVE  Era(mem'.nodes, mem'.phase, TRUE)
<1> DEFINE a == mem.nodes
           b == mem'.nodes
<1>1. PICK i \in DOMAIN a : /\ i \in ToSpawn
                            /\ b = a \o SpawnedEntries(a, a[i])
  BY SpawnNodeEffect
<1>2. a \in Seq(Entry) /\ Once(a) /\ a[i] \in Entry /\ (Fresh(a) \/ PlannerDone(a))
  BY Memory DEF Era
<1>3. a[i].id \in spawns /\ a[i].status = "completed" /\ a[i].id \in Id
  BY <1>1, <1>2 DEF ToSpawn, Entry
<1>4. a[i].id.meta = <<>>
  BY <1>3 DEF NamedSpawns
<1>5. PlannerDone(a)
  <2>1. CASE Fresh(a)
    <3>1. a[i].id = NamedId(Planner)
      BY <1>3, <1>4, <2>1 DEF Fresh, Id, NamedId
    <3> QED
      BY <1>2, <1>3, <3>1 DEF PlannerDone, Once
  <2> QED
    BY <1>2, <2>1
<1> HIDE DEF a, b
<1>6. AddsNamed(a, a \o SpawnedEntries(a, a[i]))
  BY <1>2, SpawnAdds
<1>7. Era(b, mem'.phase, TRUE)
  BY <1>1, <1>5, <1>6, AddsEra
<1> QED
  BY <1>7 DEF b

LEMMA EraDispatch ==
    ASSUME TypeInv, PlannerInv, SelectInv,
           LaunchExecutor \/ ExecutorNotFound \/ StartSync
    PROVE  Follows(mem.nodes, mem'.nodes)
<1> DEFINE a == mem.nodes
           b == mem'.nodes
           c == Candidate
<1>1. /\ c \in DOMAIN a /\ a \in Seq(Entry)
      /\ a[c].mode = "none" => a[c].id # NamedId(Planner)
  BY LaunchExecutorEffect, ExecutorNotFoundEffect, StartSyncEffect, Memory
     DEF PlannerInv, PlannerFact
<1>2. pc = "dispatch" /\ c \in cand => a[c].status # "completed"
  BY DEF SelectInv, Waiting
<1> HIDE DEF a, b, c
<1>3. CASE LaunchExecutor \/ StartSync
  <2>1. PICK e : Becomes(a, b, c, e) /\ e.id = a[c].id
    BY <1>3, LaunchExecutorEffect, StartSyncEffect DEF a, b, c, Later, Same
  <2>2. pc = "dispatch" /\ c \in cand
    BY <1>3, LaunchExecutorEffect, StartSyncEffect DEF c
  <2>3. Follows(a, b)
    BY <1>1, <1>2, <2>1, <2>2, BecomesFollows
  <2> QED
    BY <2>3 DEF a, b
<1>4. CASE ExecutorNotFound
  <2>1. PICK e \in Entry : Same(a[c], e) /\ SettledAt(a, b, c, e)
    BY <1>4, ExecutorNotFoundEffect DEF a, b, c, Later
  <2>2. a[c].mode = "none"
    BY <1>4, ExecutorNotFoundEffect DEF a, c
  <2>3. Follows(a, b)
    BY <1>1, <2>1, <2>2, SettledFollows
  <2> QED
    BY <2>3 DEF a, b
<1> QED
  BY <1>3, <1>4

(* A planner that runs has planned nothing yet that was accepted. *)
LEMMA EraSync ==
    ASSUME TypeInv, PlanningInv, SelectInv, NEW ok \in BOOLEAN, SyncReturns(ok),
           Era(mem.nodes, mem.phase, FALSE)
    PROVE  Era(mem'.nodes, mem'.phase, FALSE)
<1> DEFINE a == mem.nodes
           b == mem'.nodes
           c == cursor
<1>1. /\ c \in DOMAIN a /\ a \in Seq(Entry) /\ a[c].status = "running"
      /\ PlanningFact(a[c])
  BY SyncReturnsEffect, Memory DEF SelectInv, PlanningInv
<1>2. Era(a, mem.phase, FALSE)
  OBVIOUS
<1>3. PICK e \in Entry, status \in {"completed", "failed"} :
         /\ Later(a[c], e, status, 0) /\ SettledAt(a, b, c, e)
         /\ \/ mem'.phase \in {mem.phase, "failed"}
            \/ e.mode = "planning" /\ status = "completed"
  BY SyncReturnsEffect
<1> HIDE DEF a, b, c
<1>4. Same(a[c], e) /\ e.status = status
  BY <1>3 DEF Later
<1>5. Follows(a, b)
  BY <1>1, <1>3, <1>4, SettledFollows
<1>6. CASE mem'.phase \in {mem.phase, "failed"}
  <2>1. Era(b, mem'.phase, FALSE)
    BY <1>2, <1>5, <1>6, FollowsEra
  <2> QED
    BY <2>1 DEF b
<1>7. CASE e.mode = "planning" /\ status = "completed"
  <2>1. a[c].id = NamedId(Planner) /\ e.strategy = "NONE"
    BY <1>1, <1>4, <1>7 DEF PlanningFact, Same
  <2>2. Fresh(a)
    BY <1>1, <1>2, <2>1 DEF Era, PlannerDone
  <2>3. Era(b, "running", FALSE)
    BY <1>2, <1>5, FollowsEra
  <2>4. Fresh(b)
    <3>1. \A j \in DOMAIN b \ DOMAIN a : \E i \in DOMAIN a : b[j].id.base = a[i].id.base
      BY <1>5 DEF Follows, ChildOf
    <3> QED
      BY <1>5, <2>2, <3>1 DEF Fresh, Follows, StaysDone
  <2>5. StrategyOf(e) # "GOVERNANCE"
    BY <2>1 DEF StrategyOf
  <2>6. c \in DOMAIN b /\ b[c].status = "completed" /\ b[c].id = NamedId(Planner)
    BY <1>1, <1>3, <1>4, <1>7, <2>1, <2>5 DEF SettledAt, Audited, Same
  <2>7. PlannerDone(b)
    BY <2>3, <2>6 DEF PlannerDone, Era, Once
  <2>8. Era(b, mem'.phase, FALSE)
    BY <2>3, <2>4, <2>7 DEF Era
  <2> QED
    BY <2>8 DEF b
<1> QED
  BY <1>3, <1>6, <1>7

LEMMA EraConfirm ==
    ASSUME NamesOnce, PlannerOwn, TypeInv, NEW answer, Confirm(answer),
           Era(disk.nodes, disk.phase, FALSE)
    PROVE  Era(mem'.nodes, mem'.phase, FALSE)
<1> DEFINE d == disk.nodes
           b == mem'.nodes
           more == [k \in DOMAIN plan.nodes |-> EntryOf(plan.nodes[k], {}, {})]
<1>1. Once(d) /\ Fresh(d) /\ PlannerDone(d) /\ plan # NoPlan
  BY ConfirmEffect DEF Era
<1>2. AddsNamed(d, d \o more)
  BY <1>1, PlanAdds
<1>3. \/ mem'.phase = "running" /\ b = d \o more
      \/ /\ mem'.phase = "planning" /\ DOMAIN b = DOMAIN d
         /\ \A i \in DOMAIN d : b[i].id = d[i].id
  BY ConfirmEffect DEF Same
<1> HIDE DEF b, d, more
<1>4. CASE mem'.phase = "running" /\ b = d \o more
  <2>1. Era(b, mem'.phase, FALSE)
    BY <1>1, <1>2, <1>4, AddsEra
  <2> QED
    BY <2>1 DEF b
<1>5. CASE /\ mem'.phase = "planning" /\ DOMAIN b = DOMAIN d
           /\ \A i \in DOMAIN d : b[i].id = d[i].id
  <2>1. Once(b) /\ Fresh(b)
    BY <1>1, <1>5 DEF Once, Fresh
  <2>2. Era(b, mem'.phase, FALSE)
    BY <1>5, <2>1 DEF Era
  <2> QED
    BY <2>2 DEF b
<1> QED
  BY <1>3, <1>4, <1>5

LEMMA EraStep ==
    ASSUME NamesOnce, PlannerOwn, TypeInv, PlannerInv, PlanningInv, SelectInv,
           NamedSpawns, PlannerSpared, EraInv, [Next]_vars
    PROVE  EraInv'
<1> SUFFICES ASSUME resets' = 0
             PROVE  /\ Era(disk'.nodes, disk'.phase, FALSE)
                    /\ Era(mem'.nodes, mem'.phase, pc' = "spawn")
  BY DEF EraInv
<1> DEFINE Disk == Era(disk.nodes, disk.phase, FALSE)
           Mem(held) == Era(mem.nodes, mem.phase, held)
           DiskNext == Era(disk'.nodes, disk'.phase, FALSE)
           MemNext(held) == Era(mem'.nodes, mem'.phase, held)
           Goal == DiskNext /\ MemNext(pc' = "spawn")
<1>1. resets = 0 => Disk /\ Mem(pc = "spawn")
  BY DEF EraInv
<1>2. /\ MemNext(FALSE) => MemNext(TRUE) /\ MemNext(pc' = "spawn")
      /\ Disk => Era(disk.nodes, disk.phase, TRUE)
      /\ mem' = disk /\ Disk => MemNext(FALSE)
      /\ disk' = disk /\ Disk => DiskNext
      /\ disk' = mem /\ Mem(FALSE) => DiskNext
      /\ disk' = mem' /\ MemNext(FALSE) => DiskNext
      /\ mem' = mem /\ Mem(FALSE) => MemNext(FALSE)
      /\ pc # "spawn" /\ Mem(pc = "spawn") => Mem(FALSE)
      /\ Mem(pc = "spawn") => Mem(FALSE) \/ Mem(TRUE)
  BY DEF Era
<1>3. ASSUME NEW held, Mem(held), Follows(mem.nodes, mem'.nodes),
             mem'.phase = "awaiting_confirm" => mem.phase = "awaiting_confirm"
      PROVE  MemNext(held)
  <2> DEFINE a == mem.nodes
             b == mem'.nodes
             p == mem.phase
             q == mem'.phase
  <2>1. Era(a, p, held) /\ Follows(a, b) /\ (q = "awaiting_confirm" => p = "awaiting_confirm")
    BY <1>3
  <2> HIDE DEF a, b, p, q
  <2>2. Era(b, q, held)
    BY <2>1, FollowsEra
  <2> QED
    BY <2>2 DEF b, q
<1>4. mem' = mem /\ Mem(pc = "spawn") /\ (pc' = "spawn" \/ pc = pc') => MemNext(pc' = "spawn")
  BY DEF Era
<1> SUFFICES Goal
  OBVIOUS
<1>16. DiskNext /\ (MemNext(FALSE) \/ (pc' = "spawn" /\ MemNext(TRUE))) => Goal
  BY DEF Era
<1> HIDE DEF Disk, Mem, DiskNext, MemNext, Goal
<1>5. CASE ReconcileNode \/ ResolveParents \/ RewindNode
  <2>1. /\ pc \in {"reconcile", "rewind"} /\ pc' # "spawn"
        /\ mem'.phase = mem.phase /\ disk' = disk /\ resets' = resets
    BY <1>5, ReconcileNodeEffect, ResolveParentsEffect, RewindNodeEffect
  <2>2. Disk /\ Mem(FALSE)
    BY <1>1, <1>2, <2>1
  <2>3. Follows(mem.nodes, mem'.nodes)
    BY <1>5, <2>2, EraReconcile DEF Mem
  <2> QED
    BY <1>16, <1>2, <1>3, <2>1, <2>2, <2>3
<1>6. CASE SpawnNode
  <2>1. pc' = "spawn" /\ disk' = disk /\ resets' = resets
    BY <1>6, SpawnNodeEffect
  <2>2. Disk /\ (Mem(FALSE) \/ Mem(TRUE))
    BY <1>1, <1>2, <2>1
  <2>3. MemNext(TRUE)
    BY <1>6, <2>2, EraSpawn DEF Mem, MemNext
  <2> QED
    BY <1>16, <1>2, <2>1, <2>2, <2>3
<1>7. CASE Route
  <2>1. pc' # "spawn" /\ disk' = disk /\ mem' = mem /\ resets' = resets
        /\ mem.phase # "awaiting_confirm"
    BY <1>7, RouteEffect DEF files
  <2>2. Disk /\ Mem(FALSE)
    BY <1>1, <2>1 DEF Mem, Era
  <2> QED
    BY <1>16, <1>2, <2>1, <2>2
<1>8. CASE LaunchExecutor \/ ExecutorNotFound \/ StartSync
  <2>1. /\ pc = "dispatch" /\ pc' # "spawn" /\ mem'.phase = mem.phase
        /\ disk' \in {disk, mem'} /\ resets' = resets
    BY <1>8, LaunchExecutorEffect, ExecutorNotFoundEffect, StartSyncEffect
  <2>2. Disk /\ Mem(FALSE)
    BY <1>1, <1>2, <2>1
  <2>3. Follows(mem.nodes, mem'.nodes)
    BY <1>8, EraDispatch
  <2>4. MemNext(FALSE)
    BY <1>3, <2>1, <2>2, <2>3
  <2> QED
    BY <1>16, <1>2, <2>1, <2>2, <2>4
<1>9. CASE \E ok \in BOOLEAN : SyncReturns(ok)
  <2>1. PICK ok \in BOOLEAN : SyncReturns(ok)
    BY <1>9
  <2>2. pc = "sync" /\ disk' \in {disk, mem'} /\ resets' = resets
    BY <2>1, SyncReturnsEffect
  <2>3. Disk /\ Mem(FALSE)
    BY <1>1, <1>2, <2>2
  <2>4. MemNext(FALSE)
    BY <2>1, <2>3, EraSync DEF Mem, MemNext
  <2> QED
    BY <1>16, <1>2, <2>2, <2>3, <2>4
<1>10. CASE \E answer \in {"y", "n"} : Confirm(answer)
  <2>1. PICK answer \in {"y", "n"} : Confirm(answer)
    BY <1>10
  <2>2. disk' = disk /\ resets' = resets
    BY <2>1, ConfirmEffect
  <2>3. Disk
    BY <1>1, <2>2
  <2>4. MemNext(FALSE)
    BY <2>1, <2>3, EraConfirm DEF Disk, MemNext
  <2> QED
    BY <1>16, <1>2, <2>2, <2>3, <2>4
<1>11. CASE \/ Finalize("complete", "indexComplete") \/ Finalize("failed", "indexFailed")
            \/ ReopenWorkflow
  <2>1. /\ pc # "spawn" /\ mem'.nodes = mem.nodes /\ disk' = mem'
        /\ mem'.phase # "awaiting_confirm" /\ resets' = resets
    BY <1>11, FinalizeEffect, ReopenEffect
  <2>2. Mem(FALSE)
    BY <1>1, <1>2, <2>1
  <2>3. MemNext(FALSE)
    BY <1>3, <2>1, <2>2, FollowsItself
  <2> QED
    BY <1>16, <1>2, <2>1, <2>3
<1>12. CASE \E i \in DOMAIN disk.nodes : ResetNode(i)
  <2>1. resets' = resets + 1 /\ resets \in Nat
    BY <1>12, ResetNodeEffect DEF TypeInv, TypeOK
  <2> QED
    BY <1>16, <2>1
<1>13. CASE WriteLaunched \/ Persist \/ WriteConfirmed
  <2>1. disk' = mem /\ mem' = mem /\ resets' = resets
    BY <1>13, WriteEffect
  <2>2. pc # "spawn"
    BY <1>13 DEF WriteLaunched, Persist, WriteConfirmed
  <2>3. Mem(FALSE)
    BY <1>1, <1>2, <2>1, <2>2
  <2> QED
    BY <1>16, <1>2, <2>1, <2>3
<1>14. CASE Reread
  <2>1. mem' = disk /\ disk' = disk /\ resets' = resets
    BY <1>14 DEF Reread
  <2> QED
    BY <1>16, <1>1, <1>2, <2>1
<1>15. CASE Silent
  <2>1. mem' = mem /\ disk' = disk /\ (pc' = "spawn" \/ pc = pc')
    BY <1>15 DEF Silent, RewindsDone
  <2>2. resets' = resets
    BY <1>15 DEF Silent
  <2>3. MemNext(pc' = "spawn") => MemNext(FALSE) \/ (pc' = "spawn" /\ MemNext(TRUE))
    BY DEF MemNext, Era
  <2> QED
    BY <1>16, <1>1, <1>2, <1>4, <2>1, <2>2, <2>3
<1> QED
  BY <1>5, <1>6, <1>7, <1>8, <1>9, <1>10, <1>11, <1>12, <1>13, <1>14, <1>15, StepCases

LEMMA EraInit == ASSUME Init PROVE EraInv /\ NamedSpawns /\ PlannerSpared
<1> DEFINE ns == <<PlannerEntry>>
<1>1. disk.nodes = ns /\ mem.nodes = ns /\ disk.phase = "planning" /\ mem.phase = "planning"
  BY DEF Init
<1>2. PlannerEntry.id = NamedId(Planner)
  BY DEF PlannerEntry, EntryOf
<1>3. DOMAIN ns = {1} /\ ns[1] = PlannerEntry
  OBVIOUS
<1> HIDE DEF PlannerEntry, ns
<1>4. Once(ns) /\ Fresh(ns)
  BY <1>2, <1>3 DEF Once, Fresh, NamedId
<1>5. \A held : Era(ns, "planning", held)
  BY <1>4 DEF Era
<1>6. EraInv
  BY <1>1, <1>5 DEF EraInv
<1> QED
  BY <1>6 DEF Init, NamedSpawns, PlannerSpared

(* Unless the planner itself is put back, by wf reset or by a diagnosis,   *)
(* its plan is appended once, and no node ever shares its id: whatever is  *)
(* spawned, rejected, rewound or lost in a crash.  A second node in mode   *)
(* "planning" would ask for another confirmation, with a plan in hand.     *)
THEOREM NodeIdsUnique ==
    ASSUME Planner \notin RewindTo, NamesOnce, PlannerOwn, OnePlanner
    PROVE  Spec => []UniqueIds
<1>1. Init => /\ EraInv /\ NamedSpawns /\ PlannerSpared
              /\ MetaInv /\ PlannerInv /\ PlanningInv /\ SelectInv
  BY MetaInit, PlannerInit, PlanningInit, SelectInit, EraInit
<1>2. /\ TypeInv /\ TypeInv' /\ EraInv /\ NamedSpawns /\ PlannerSpared
      /\ MetaInv /\ PlannerInv /\ PlanningInv /\ SelectInv /\ [Next]_vars
      => /\ EraInv' /\ NamedSpawns' /\ PlannerSpared'
         /\ MetaInv' /\ PlannerInv' /\ PlanningInv' /\ SelectInv'
  BY EraStep, FilesStep, MetaStep, PlannerStep, PlanningStep, SelectStep
<1>3. EraInv => UniqueIds
  BY DEF EraInv, Era, Once, UniqueIds, IdsUnique
<1> QED
  BY <1>1, <1>2, <1>3, TypeInvariant, PTL DEF Spec

-----------------------------------------------------------------------------
(* What runs or is done stands on completed dependencies.                  *)

KeepsCompleted(a, b) ==
    \A j \in DOMAIN a : /\ j \in DOMAIN b /\ b[j].id = a[j].id
                        /\ a[j].status = "completed" => b[j].status = "completed"

(* Of what is rewound, the target waits on what it had; all others are     *)
(* stale until their dependencies are completed again.                     *)
StandsOn(e, ns) ==
    /\ e.status \notin {"pending", "stale"} => e.attempt_count > 0
    /\ e.status = "stale" => e.id \notin Targets
    /\ e.id.meta = <<>> /\ e.attempt_count > 0 /\ e.status # "stale" =>
          e.depends_on \subseteq CompletedIds(ns)

Stands(ns) == \A i \in DOMAIN ns : StandsOn(ns[i], ns)

(* What was attempted depends on what was attempted before: no attempted   *)
(* node can be reached from itself.                                        *)
Tried(ns) == {ns[i].id : i \in {j \in DOMAIN ns : ns[j].attempt_count > 0}}

LeastIn(S, ns) == \E i \in DOMAIN ns : /\ ns[i].attempt_count > 0 /\ ns[i].id \in S
                                        /\ ns[i].depends_on \cap S = {}

Layered(ns) ==
    /\ \A i \in DOMAIN ns : ns[i].attempt_count > 0 => ns[i].depends_on \subseteq Tried(ns)
    /\ \A S \in SUBSET Tried(ns) : S # {} => LeastIn(S, ns)

(* A node that left a process or artifacts was attempted. *)
Ran(ns, id) == \E i \in DOMAIN ns : ns[i].id = id /\ ns[i].attempt_count > 0

RanInv ==
    \A id \in arts \cup {p.node : p \in procs} :
        Ran(mem.nodes, id) /\ (pc # "launched" => Ran(disk.nodes, id))

UpstreamInv ==
    /\ resets = 0
    /\ Stands(disk.nodes) /\ Stands(mem.nodes)
    /\ Layered(disk.nodes) /\ Layered(mem.nodes)
    /\ \A i \in Waiting : mem.nodes[i].depends_on \subseteq CompletedIds(mem.nodes)
    /\ \A r \in rewinds : r[2] \in Targets
    /\ RanInv

(* At most one node is ever rewound, and it is not the planner.            *)
OneRewound == \A x, y \in RewindTo : x = y
Undisturbed == /\ OneRewound /\ Planner \notin RewindTo
               /\ MaxResets = 0 /\ MaxCrashes = 0

LEMMA CompletedIdsKept ==
    ASSUME NEW a, NEW b, KeepsCompleted(a, b)
    PROVE  CompletedIds(a) \subseteq CompletedIds(b)
  BY DEF KeepsCompleted, CompletedIds

LEMMA StandsKept ==
    ASSUME NEW a, NEW b, KeepsCompleted(a, b), Stands(a),
           \A j \in DOMAIN b : (j \in DOMAIN a /\ b[j] = a[j]) \/ StandsOn(b[j], b)
    PROVE  Stands(b)
<1>1. CompletedIds(a) \subseteq CompletedIds(b)
  BY CompletedIdsKept
<1>2. \A j \in DOMAIN a : StandsOn(a[j], b)
  BY <1>1 DEF Stands, StandsOn
<1> QED
  BY <1>2 DEF Stands

(* e, which was attempted, goes on as f. *)
LEMMA StandsGoesOn ==
    ASSUME NEW a, NEW b, KeepsCompleted(a, b), NEW e \in Entry, NEW f,
           Same(e, f), f.attempt_count = e.attempt_count, e.attempt_count > 0,
           e.status # "stale", f.status # "stale", StandsOn(e, a)
    PROVE  StandsOn(f, b)
<1>1. CompletedIds(a) \subseteq CompletedIds(b)
  BY CompletedIdsKept
<1> QED
  BY <1>1 DEF StandsOn, Same

LEMMA StandsStarts ==
    ASSUME NEW a, NEW b, KeepsCompleted(a, b), NEW e \in Entry, NEW f,
           Same(e, f), f.attempt_count = e.attempt_count + 1, f.status # "stale",
           e.depends_on \subseteq CompletedIds(a)
    PROVE  StandsOn(f, b)
<1>1. CompletedIds(a) \subseteq CompletedIds(b)
  BY CompletedIdsKept
<1>2. e.attempt_count \in Nat
  BY DEF Entry
<1> QED
  BY <1>1, <1>2 DEF StandsOn, Same

LEMMA StandsSettled ==
    ASSUME NEW a \in Seq(Entry), NEW b, NEW i \in DOMAIN a, NEW e \in Entry,
           Same(a[i], e), SettledAt(a, b, i, e), a[i].status # "completed", Stands(a),
           e.status # "stale",
           \/ /\ e.attempt_count = a[i].attempt_count /\ a[i].attempt_count > 0
              /\ a[i].status # "stale"
           \/ /\ e.attempt_count = a[i].attempt_count + 1
              /\ a[i].depends_on \subseteq CompletedIds(a)
    PROVE  KeepsCompleted(a, b) /\ Stands(b)
<1>1. /\ Same(e, Audited(e)) /\ Audited(e).attempt_count = e.attempt_count
      /\ a[i] \in Entry /\ Audited(e).status # "stale"
  BY AuditedLater, ElementOfSeq, LenProperties
<1>2. Same(a[i], Audited(e))
  BY <1>1 DEF Same
<1>3. KeepsCompleted(a, b)
  BY <1>2 DEF SettledAt, KeepsCompleted, Same
<1>4. StandsOn(a[i], a)
  BY DEF Stands
<1>5. StandsOn(Audited(e), b)
  BY <1>1, <1>2, <1>3, <1>4, StandsGoesOn, StandsStarts
<1>6. \A j \in DOMAIN b \ DOMAIN a :
         b[j].status = "pending" /\ b[j].attempt_count = 0
  BY DEF SettledAt, MetaEntry
<1>7. \A j \in DOMAIN b \ DOMAIN a : StandsOn(b[j], b)
  BY <1>6 DEF StandsOn
<1> QED
  BY <1>3, <1>5, <1>7, StandsKept DEF SettledAt

LEMMA StandsAdds ==
    ASSUME NEW a, NEW b, DOMAIN a \subseteq DOMAIN b, Stands(a),
           \A j \in DOMAIN a : b[j] = a[j],
           \A j \in DOMAIN b \ DOMAIN a : New(b[j])
    PROVE  KeepsCompleted(a, b) /\ Stands(b)
<1>1. KeepsCompleted(a, b)
  BY DEF KeepsCompleted
<1>2. \A j \in DOMAIN b \ DOMAIN a : StandsOn(b[j], b)
  BY DEF New, StandsOn
<1> QED
  BY <1>1, <1>2, StandsKept

LEMMA LayeredStep ==
    ASSUME NEW a, NEW b, Layered(a), DOMAIN a \subseteq DOMAIN b, NEW c,
           \A j \in DOMAIN a :
              /\ b[j].id = a[j].id /\ b[j].depends_on = a[j].depends_on
              /\ \/ b[j].attempt_count = a[j].attempt_count
                 \/ /\ j = c /\ a[j].depends_on \subseteq Tried(a)
                    /\ b[j].attempt_count > 0,
           \A j \in DOMAIN b \ DOMAIN a : b[j].attempt_count = 0
    PROVE  Layered(b)
<1>1. ASSUME NEW i \in DOMAIN a, a[i].attempt_count > 0 PROVE b[i].attempt_count > 0
  BY <1>1
<1>2. Tried(a) \subseteq Tried(b)
  BY <1>1 DEF Tried
<1>3. ASSUME NEW i \in DOMAIN b, b[i].attempt_count > 0
      PROVE  i \in DOMAIN a /\ b[i].depends_on \subseteq Tried(a)
  <2>1. i \in DOMAIN a
    BY <1>3
  <2>2. a[i].attempt_count > 0 => a[i].depends_on \subseteq Tried(a)
    BY <2>1 DEF Layered
  <2> QED
    BY <1>3, <2>1, <2>2
<1>4. ASSUME NEW S \in SUBSET Tried(b), S # {} PROVE LeastIn(S, b)
  <2> DEFINE old == S \cap Tried(a)
  <2>1. CASE old = {}
    <3>1. PICK i \in DOMAIN b : b[i].attempt_count > 0 /\ b[i].id \in S
      BY <1>4 DEF Tried
    <3>2. b[i].depends_on \cap S = {}
      BY <1>3, <2>1, <3>1
    <3> QED
      BY <3>1, <3>2 DEF LeastIn
  <2>2. CASE old # {}
    <3>1. LeastIn(old, a)
      BY <2>2 DEF Layered
    <3>2. PICK i \in DOMAIN a : /\ a[i].attempt_count > 0 /\ a[i].id \in old
                                /\ a[i].depends_on \cap old = {}
      BY <3>1 DEF LeastIn
    <3>3. i \in DOMAIN b /\ b[i].attempt_count > 0 /\ b[i].id \in S
      BY <1>1, <3>2
    <3>4. b[i].depends_on \subseteq Tried(a) /\ b[i].depends_on \cap old = {}
      BY <1>3, <3>2, <3>3
    <3> QED
      BY <3>3, <3>4 DEF LeastIn
  <2> QED
    BY <2>1, <2>2
<1> QED
  BY <1>2, <1>3, <1>4 DEF Layered

LEMMA CompletedTried ==
    ASSUME NEW ns, Stands(ns) PROVE CompletedIds(ns) \subseteq Tried(ns)
  BY DEF Stands, StandsOn, CompletedIds, Tried

LEMMA LayeredSettled ==
    ASSUME NEW a \in Seq(Entry), NEW b, NEW i \in DOMAIN a, NEW e \in Entry,
           Same(a[i], e), SettledAt(a, b, i, e), Stands(a), Layered(a),
           \/ e.attempt_count = a[i].attempt_count
           \/ /\ e.attempt_count = a[i].attempt_count + 1
              /\ a[i].depends_on \subseteq CompletedIds(a)
    PROVE  Layered(b)
<1>1. /\ Same(e, Audited(e)) /\ Audited(e).attempt_count = e.attempt_count
      /\ a[i].attempt_count \in Nat
  BY AuditedLater, AttemptsType
<1>2. /\ b[i].id = a[i].id /\ b[i].depends_on = a[i].depends_on
      /\ \/ b[i].attempt_count = a[i].attempt_count
         \/ /\ a[i].depends_on \subseteq Tried(a)
            /\ b[i].attempt_count > 0
  BY <1>1, CompletedTried DEF SettledAt, Same
<1>3. \A j \in DOMAIN b \ DOMAIN a : b[j].attempt_count = 0
  BY DEF SettledAt, MetaEntry
<1> QED
  BY <1>2, <1>3, LayeredStep DEF SettledAt

LEMMA LayeredBecomes ==
    ASSUME NEW a \in Seq(Entry), NEW b, NEW c \in DOMAIN a, NEW e \in Entry,
           Same(a[c], e), e.attempt_count = a[c].attempt_count + 1, Becomes(a, b, c, e),
           Stands(a), Layered(a), a[c].depends_on \subseteq CompletedIds(a)
    PROVE  Layered(b)
<1>1. a[c].attempt_count \in Nat
  BY AttemptsType
<1>2. /\ b[c].id = a[c].id /\ b[c].depends_on = a[c].depends_on
      /\ a[c].depends_on \subseteq Tried(a) /\ b[c].attempt_count > 0
  BY <1>1, CompletedTried DEF Becomes, Same
<1> QED
  BY <1>2, LayeredStep DEF Becomes

LEMMA LayeredAdds ==
    ASSUME NEW a, NEW b, DOMAIN a \subseteq DOMAIN b, Layered(a),
           \A j \in DOMAIN a : b[j] = a[j],
           \A j \in DOMAIN b \ DOMAIN a : New(b[j])
    PROVE  Layered(b)
  BY LayeredStep DEF New

(* A background node that is settled was attempted.                        *)
LEMMA SettlesTried ==
    ASSUME TypeInv, EraInv, UpstreamInv,
           NEW i \in DOMAIN mem.nodes, Settles(mem.nodes[i])
    PROVE  mem.nodes[i].attempt_count > 0 /\ mem.nodes[i].status \in {"running", "pending"}
<1>1. mem.nodes[i].status \in {"running", "pending"}
  BY DEF Settles
<1>2. CASE mem.nodes[i].status = "running"
  BY <1>2 DEF UpstreamInv, Stands, StandsOn
<1>3. CASE mem.nodes[i].status = "pending"
  <2>1. mem.nodes[i].id \in arts
    BY <1>3 DEF Settles, HasArtifacts
  <2>2. PICK k \in DOMAIN mem.nodes :
           mem.nodes[k].id = mem.nodes[i].id /\ mem.nodes[k].attempt_count > 0
    BY <2>1 DEF UpstreamInv, RanInv, Ran
  <2>3. k = i
    BY <2>2 DEF EraInv, UpstreamInv, Era, Once
  <2> QED
    BY <1>1, <2>2, <2>3
<1> QED
  BY <1>1, <1>2, <1>3

(* An attempted node does not stand on what stands on it.                  *)
LEMMA NoLoop ==
    ASSUME NEW ns \in Seq(Entry), Once(ns), Layered(ns), NEW i \in DOMAIN ns,
           ns[i].attempt_count > 0
    PROVE  ns[i].depends_on \cap ({ns[i].id} \cup Descendants(ns, ns[i].id)) = {}
<1> DEFINE t == ns[i].id
           G == {t} \cup Descendants(ns, t)
           S == G \cap Tried(ns)
<1>1. t \in S
  BY DEF Tried
<1>2. LeastIn(S, ns)
  BY <1>1 DEF Layered
<1>3. PICK k \in DOMAIN ns : /\ ns[k].attempt_count > 0 /\ ns[k].id \in S
                             /\ ns[k].depends_on \cap S = {}
  BY <1>2 DEF LeastIn
<1>4. ns[k].depends_on \subseteq Tried(ns)
  BY <1>3 DEF Layered
<1>5. CASE ns[k].id = t
  <2>1. k = i
    BY <1>5 DEF Once
  <2> QED
    BY <1>3, <1>4, <2>1
<1>6. CASE ns[k].id # t
  <2>1. ns[k].id \in Descendants(ns, t)
    BY <1>3, <1>6
  <2>2. PICK m \in DOMAIN ns : ns[m].id = ns[k].id /\ ns[m].depends_on \cap G # {}
    BY <2>1, DescendantsStand
  <2>3. m = k
    BY <2>2 DEF Once
  <2> QED
    BY <1>3, <1>4, <2>2, <2>3
<1> QED
  BY <1>5, <1>6

(* The target stands on what it stood on: it is not reached from itself.   *)
(* What stands on something rewound is rewound with it.                    *)
LEMMA StandsRewound ==
    ASSUME NEW a \in Seq(Entry), NEW b, NEW target \in Targets,
           \A x \in Targets : x = target,
           Once(a), Stands(a), Layered(a), RewoundTo(a, b, target)
    PROVE  Stands(b) /\ Layered(b)
<1> DEFINE D == Descendants(a, target)
<1>1. ASSUME NEW i \in DOMAIN a
      PROVE  /\ a[i] \in Entry /\ a[i].attempt_count \in Nat /\ StandsOn(a[i], a)
             /\ Same(a[i], b[i]) /\ b[i].attempt_count = a[i].attempt_count
  <2>1. a[i] \in Entry
    BY ElementOfSeq, LenProperties
  <2>2. a[i].attempt_count \in Nat /\ StandsOn(a[i], a)
    BY <2>1 DEF Entry, Stands
  <2>3. Same(a[i], b[i]) /\ b[i].attempt_count = a[i].attempt_count
    BY <2>2 DEF RewoundTo, Later, Same
  <2> QED
    BY <2>1, <2>2, <2>3
<1>2. \A i \in DOMAIN a : /\ b[i].id = a[i].id /\ b[i].depends_on = a[i].depends_on
                          /\ b[i].attempt_count = a[i].attempt_count
  BY <1>1 DEF Same
<1>3. Layered(b)
  BY <1>2, LayeredStep DEF RewoundTo
<1>4. ASSUME NEW S, S \subseteq CompletedIds(a), S \cap ({target} \cup D) = {}
      PROVE  S \subseteq CompletedIds(b)
  <2> SUFFICES ASSUME NEW x \in S PROVE x \in CompletedIds(b)
    OBVIOUS
  <2>1. PICK j \in DOMAIN a : a[j].id = x /\ a[j].status = "completed"
    BY <1>4 DEF CompletedIds
  <2>2. b[j] = a[j]
    BY <1>4, <2>1 DEF RewoundTo, StaleIds
  <2>3. j \in DOMAIN b
    BY DEF RewoundTo
  <2> QED
    BY <2>1, <2>2, <2>3 DEF CompletedIds
<1>5. ASSUME NEW i \in DOMAIN a, a[i].id = target PROVE StandsOn(b[i], b)
  <2>1. b[i].status = "pending" /\ a[i].status # "stale"
    BY <1>1, <1>5 DEF RewoundTo, Later, StandsOn
  <2>2. ASSUME a[i].id.meta = <<>>, a[i].attempt_count > 0
        PROVE  a[i].depends_on \subseteq CompletedIds(b)
    <3>1. a[i].depends_on \subseteq CompletedIds(a)
      BY <1>1, <2>1, <2>2 DEF StandsOn
    <3>2. a[i].depends_on \cap ({target} \cup D) = {}
      BY <1>5, <2>2, NoLoop
    <3> QED
      BY <1>4, <3>1, <3>2
  <2> QED
    BY <1>2, <2>1, <2>2 DEF StandsOn
<1>6. ASSUME NEW i \in DOMAIN a, a[i].id # target, a[i].id \in StaleIds(a, target)
      PROVE  StandsOn(b[i], b)
  <2>1. b[i].status = "stale" /\ b[i].id \notin Targets
    BY <1>2, <1>6 DEF RewoundTo, Later
  <2> QED
    BY <2>1 DEF StandsOn
<1>7. ASSUME NEW i \in DOMAIN a, a[i].id # target, a[i].id \notin StaleIds(a, target)
      PROVE  StandsOn(b[i], b)
  <2>1. b[i] = a[i]
    BY <1>7 DEF RewoundTo
  <2>2. ASSUME a[i].id.meta = <<>>, a[i].attempt_count > 0, a[i].status # "stale"
        PROVE  a[i].depends_on \subseteq CompletedIds(b)
    <3>1. a[i].depends_on \subseteq CompletedIds(a)
      BY <1>1, <2>2 DEF StandsOn
    <3>2. ~IsMeta(a[i].id)
      BY <2>2 DEF IsMeta, KindOf
    <3>3. a[i].id \notin {target} \cup D
      BY <1>7, <3>2 DEF StaleIds
    <3>4. a[i].depends_on \cap ({target} \cup D) = {}
      BY <3>3, DescendantsClosed
    <3> QED
      BY <1>4, <3>1, <3>4
  <2> QED
    BY <1>1, <2>1, <2>2 DEF StandsOn
<1>8. Stands(b)
  BY <1>5, <1>6, <1>7 DEF Stands, RewoundTo
<1> QED
  BY <1>3, <1>8

LEMMA ArtsStep ==
    ASSUME TypeInv, [Next]_vars, NEW id \in arts', id \notin arts
    PROVE  \E p \in procs : p.node = id
<1>1. CASE Executors
  BY <1>1 DEF Executors, ExecutorExits
<1>2. CASE PlannerWrites \/ SyncSpawns \/ QuitRepl \/ RewindsDone \/ UNCHANGED vars
  BY <1>2 DEF PlannerWrites, SyncSpawns, QuitRepl, RewindsDone, files, vars
<1>3. CASE \/ ReconcileNode \/ ResolveParents \/ SpawnNode \/ Route
           \/ LaunchExecutor \/ ExecutorNotFound \/ StartSync
  BY <1>3, ReconcileNodeEffect, ResolveParentsEffect, SpawnNodeEffect,
     RouteEffect, LaunchExecutorEffect, ExecutorNotFoundEffect, StartSyncEffect DEF files
<1>4. CASE RewindNode
  <2>1. PICK S : arts' = arts \ S
    BY <1>4 DEF RewindNode
  <2> QED
    BY <2>1
<1>5. CASE \/ (\E ok \in BOOLEAN : SyncReturns(ok))
           \/ (\E answer \in {"y", "n"} : Confirm(answer))
           \/ (\E i \in DOMAIN disk.nodes : ResetNode(i))
           \/ ReopenWorkflow \/ WriteLaunched \/ Persist \/ WriteConfirmed
           \/ Finalize("complete", "indexComplete") \/ Finalize("failed", "indexFailed")
  BY <1>5, SyncReturnsEffect, ConfirmEffect, ResetNodeEffect, ReopenEffect, WriteEffect,
     FinalizeEffect
<1>6. CASE \/ StartCycle \/ RouteAwaiting \/ DispatchAborts \/ Crash
           \/ (\E at, status : SyncIndex(at, status))
  BY <1>6, RereadEffect DEF Reread
<1> QED
  BY <1>1, <1>2, <1>3, <1>4, <1>5, <1>6
     DEF Next, EngineStep, Reconcile, Dispatch, Finish, User

ProcNodes(ps) == {p.node : p \in ps}

LEMMA SameProcNodes ==
    ASSUME NEW ps \in SUBSET Proc
    PROVE  /\ ProcNodes(Reaped(ps)) = ProcNodes(ps)
           /\ ProcNodes(Orphaned(ps)) = ProcNodes(ps)
<1>1. \A p \in Proc : \A s : [p EXCEPT !.state = s].node = p.node
  BY DEF Proc
<1>2. \A p \in Proc : \A c : [p EXCEPT !.child = c].node = p.node
  BY DEF Proc
<1>3. ProcNodes(Reaped(ps)) = ProcNodes(ps)
  <2> DEFINE r(p) == IF p.state = "zombie" THEN [p EXCEPT !.state = "gone"] ELSE p
  <2>1. \A p \in ps : r(p).node = p.node
    BY <1>1
  <2>2. Reaped(ps) = {r(p) : p \in ps}
    BY DEF Reaped
  <2> HIDE DEF r
  <2> QED
    BY <2>1, <2>2 DEF ProcNodes
<1>4. ProcNodes(Orphaned(ps)) = ProcNodes(Reaped(ps))
  <2> DEFINE qs == Reaped(ps)
             o(p) == [p EXCEPT !.child = FALSE]
  <2>1. qs \subseteq Proc
    BY DEF Reaped, Proc
  <2>2. \A p \in qs : o(p).node = p.node
    BY <1>2, <2>1
  <2>3. Orphaned(ps) = {o(p) : p \in qs}
    BY DEF Orphaned
  <2> HIDE DEF o, qs
  <2>4. ProcNodes(Orphaned(ps)) = ProcNodes(qs)
    BY <2>2, <2>3 DEF ProcNodes
  <2> QED
    BY <2>4 DEF qs
<1> QED
  BY <1>3, <1>4

LEMMA ProcNodesStep ==
    ASSUME TypeInv, [Next]_vars
    PROVE  \/ ProcNodes(procs') \subseteq ProcNodes(procs)
           \/ /\ LaunchExecutor
              /\ ProcNodes(procs') = ProcNodes(procs) \cup {mem.nodes[Candidate].id}
<1>1. procs \in SUBSET Proc
  BY DEF TypeInv, TypeOK
<1>2. ASSUME procs' \in {procs, Reaped(procs), Orphaned(procs)}
      PROVE  ProcNodes(procs') \subseteq ProcNodes(procs)
  BY <1>1, <1>2, SameProcNodes
<1>3. CASE Executors
  <2>1. PICK p \in procs :
           procs' = (procs \ {p}) \cup
                      {[p EXCEPT !.state = IF p.child THEN "zombie" ELSE "gone"]}
    BY <1>3 DEF Executors, ExecutorExits
  <2>2. [p EXCEPT !.state = IF p.child THEN "zombie" ELSE "gone"].node = p.node
    BY <1>1, <2>1 DEF Proc
  <2> QED
    BY <2>1, <2>2 DEF ProcNodes
<1>4. CASE \/ PlannerWrites \/ SyncSpawns \/ QuitRepl \/ RewindsDone \/ UNCHANGED vars
           \/ StartCycle \/ Crash \/ DispatchAborts \/ RouteAwaiting
           \/ (\E at, status : SyncIndex(at, status)) \/ Persist \/ WriteConfirmed
           \/ WriteLaunched
  BY <1>2, <1>4 DEF PlannerWrites, SyncSpawns, QuitRepl, RewindsDone, vars, StartCycle,
     Crash, DispatchAborts, RouteAwaiting, SyncIndex, Persist, WriteConfirmed,
     WriteLaunched, Exit
<1>5. CASE LaunchExecutor
  <2> DEFINE id == mem.nodes[Candidate].id
             p == [node |-> id, run |-> Launches(id) + 1, state |-> "live", child |-> TRUE]
             qs == Reaped(procs)
  <2>1. procs' = qs \cup {p} /\ p.node = id
    BY <1>5, LaunchExecutorEffect
  <2> HIDE DEF p, qs, id
  <2>2. ProcNodes(procs') = ProcNodes(qs) \cup {id}
    BY <2>1 DEF ProcNodes
  <2> USE DEF qs, id
  <2> QED
    BY <1>1, <1>5, <2>2, SameProcNodes
<1>6. CASE \/ ReconcileNode \/ ResolveParents \/ RewindNode \/ SpawnNode \/ Route
           \/ ExecutorNotFound \/ StartSync
  BY <1>2, <1>6, ReconcileNodeEffect, ResolveParentsEffect, RewindNodeEffect,
     SpawnNodeEffect, RouteEffect, ExecutorNotFoundEffect, StartSyncEffect
<1>7. CASE \/ (\E ok \in BOOLEAN : SyncReturns(ok))
           \/ (\E answer \in {"y", "n"} : Confirm(answer))
           \/ (\E i \in DOMAIN disk.nodes : ResetNode(i))
           \/ ReopenWorkflow
           \/ Finalize("complete", "indexComplete") \/ Finalize("failed", "indexFailed")
  BY <1>2, <1>7, SyncReturnsEffect, ConfirmEffect, ResetNodeEffect, ReopenEffect,
     FinalizeEffect
<1> QED
  BY <1>3, <1>4, <1>5, <1>6, <1>7
     DEF Next, EngineStep, Reconcile, Dispatch, Finish, User

LEMMA RanGrows ==
    ASSUME NEW a \in Seq(Entry), NEW b \in Seq(Entry), Grows(a, b), NEW id, Ran(a, id)
    PROVE  Ran(b, id)
<1>1. /\ \A i \in DOMAIN a : a[i].attempt_count \in Nat
      /\ \A i \in DOMAIN b : b[i].attempt_count \in Nat
  BY AttemptsType
<1>2. PICK i \in DOMAIN a : a[i].id = id /\ a[i].attempt_count > 0
  BY DEF Ran
<1>3. i \in DOMAIN b /\ b[i].id = id /\ b[i].attempt_count > 0
  BY <1>1, <1>2 DEF Grows
<1> QED
  BY <1>3 DEF Ran

LEMMA RanStep ==
    ASSUME MaxCrashes = 0, TypeInv, TypeInv', GrowsInv, RanInv, [Next]_vars
    PROVE  RanInv'
<1>1. ~Crash
  <2>1. crashes \in Nat /\ MaxCrashes = 0
    BY DEF TypeInv, TypeOK
  <2> QED
    BY <2>1 DEF Crash
<1>2. mem.nodes \in Seq(Entry) /\ disk.nodes \in Seq(Entry)
      /\ mem'.nodes \in Seq(Entry) /\ disk'.nodes \in Seq(Entry)
  BY DEF TypeInv, TypeOK, Manifest
<1>3. Grows(disk.nodes, mem'.nodes) /\ (disk' = disk \/ disk' = mem')
  BY GrowsStep
<1>4. ASSUME NEW id \in arts \cup ProcNodes(procs)
      PROVE  Ran(mem'.nodes, id) /\ (pc' # "launched" => Ran(disk'.nodes, id))
  <2>1. Ran(mem.nodes, id) /\ (pc # "launched" => Ran(disk.nodes, id))
    BY <1>4 DEF RanInv, ProcNodes
  <2>2. CASE pc # "launched"
    <3>1. Ran(mem'.nodes, id)
      BY <1>2, <1>3, <2>1, <2>2, RanGrows
    <3> QED
      BY <1>3, <2>1, <2>2, <3>1
  <2>3. CASE pc = "launched"
    <3>1. CASE WriteLaunched
      BY <2>1, <3>1 DEF WriteLaunched
    <3>2. CASE UNCHANGED <<disk, mem, cand, pc>>
      BY <2>1, <2>3, <3>2
    <3> QED
      BY <1>1, <2>3, <3>1, <3>2, LaunchedStep
  <2> QED
    BY <2>2, <2>3
<1>5. arts' \subseteq arts \cup ProcNodes(procs)
  BY ArtsStep DEF ProcNodes
<1>6. CASE ProcNodes(procs') \subseteq ProcNodes(procs)
  BY <1>4, <1>5, <1>6 DEF RanInv, ProcNodes
<1>7. CASE /\ LaunchExecutor
           /\ ProcNodes(procs') = ProcNodes(procs) \cup {mem.nodes[Candidate].id}
  <2> DEFINE c == Candidate
  <2>1. PICK e \in Entry : /\ Later(mem.nodes[c], e, "running", 1)
                           /\ Becomes(mem.nodes, mem'.nodes, c, e)
    BY <1>7, LaunchExecutorEffect
  <2>2. c \in DOMAIN mem.nodes /\ mem.nodes[c].attempt_count \in Nat /\ pc' = "launched"
    BY <1>2, <1>7, LaunchExecutorEffect, AttemptsType
  <2>3. Ran(mem'.nodes, mem.nodes[c].id)
    BY <2>1, <2>2 DEF Becomes, Later, Same, Ran
  <2> QED
    BY <1>4, <1>5, <1>7, <2>2, <2>3 DEF RanInv, ProcNodes
<1> QED
  BY <1>6, <1>7, ProcNodesStep

NoReset == resets = 0

LEMMA NoResetStep ==
    ASSUME MaxResets = 0, TypeInv, NoReset, [Next]_vars PROVE NoReset'
<1>1. ~ \E i \in DOMAIN disk.nodes : ResetNode(i)
  BY ResetNodeEffect DEF NoReset
<1>2. CASE \/ ReconcileNode \/ ResolveParents \/ RewindNode \/ SpawnNode \/ Route
           \/ LaunchExecutor \/ ExecutorNotFound \/ StartSync
  BY <1>2, ReconcileNodeEffect, ResolveParentsEffect, RewindNodeEffect, SpawnNodeEffect,
     RouteEffect, LaunchExecutorEffect, ExecutorNotFoundEffect, StartSyncEffect DEF NoReset
<1>3. CASE \/ (\E ok \in BOOLEAN : SyncReturns(ok))
           \/ (\E answer \in {"y", "n"} : Confirm(answer))
           \/ ReopenWorkflow \/ WriteLaunched \/ Persist \/ WriteConfirmed
           \/ Finalize("complete", "indexComplete") \/ Finalize("failed", "indexFailed")
  BY <1>3, SyncReturnsEffect, ConfirmEffect, ReopenEffect, WriteEffect, FinalizeEffect
     DEF NoReset
<1>4. CASE Reread \/ Silent
  BY <1>4 DEF Reread, Silent, NoReset
<1> QED
  BY <1>1, <1>2, <1>3, <1>4, StepCases

(* A node stops being completed when it is rewound, or stale, or is the    *)
(* planner of a rejected plan; then no node waits to be dispatched.        *)
Onward == /\ Stands(mem'.nodes) /\ Layered(mem'.nodes)
          /\ KeepsCompleted(mem.nodes, mem'.nodes) \/ Waiting' = {}

LEMMA OnwardReconcile ==
    ASSUME Undisturbed, TypeInv, EraInv, UpstreamInv,
           ReconcileNode \/ ResolveParents \/ RewindNode \/ SpawnNode
    PROVE  Onward
<1> DEFINE a == mem.nodes
           b == mem'.nodes
           W == Waiting'
<1>1. a \in Seq(Entry) /\ Stands(a) /\ Layered(a)
  BY Memory DEF UpstreamInv
<1>2. KeepsCompleted(a, b) /\ Stands(b) /\ Layered(b) => Onward
  BY DEF Onward
<1>3. \A i \in DOMAIN a : a[i] \in Entry /\ StandsOn(a[i], a)
  BY <1>1, ElementOfSeq, LenProperties DEF Stands
<1>4. \A i \in DOMAIN a : Settles(a[i]) => /\ a[i].attempt_count > 0
                                            /\ a[i].status \in {"running", "pending"}
  BY SettlesTried
<1> HIDE DEF a, b
<1>5. CASE ReconcileNode
  <2>1. PICK i \in DOMAIN a : /\ Settles(a[i]) /\ Settled(a[i]) \in Entry
                              /\ Same(a[i], Settled(a[i]))
                              /\ SettledAt(a, b, i, Settled(a[i]))
    BY <1>5, ReconcileNodeEffect DEF a, b
  <2>2. a[i].status \in {"running", "pending"} /\ a[i].attempt_count > 0
    BY <1>4, <2>1
  <2>3. /\ Settled(a[i]).attempt_count = a[i].attempt_count
        /\ Settled(a[i]).status \in {"completed", "failed"}
    BY <1>3, <2>1, SettledLater
  <2>4. KeepsCompleted(a, b) /\ Stands(b)
    BY <1>1, <2>1, <2>2, <2>3, StandsSettled
  <2>5. Layered(b)
    BY <1>1, <2>1, <2>3, LayeredSettled
  <2> QED
    BY <1>2, <2>4, <2>5
<1>6. CASE ResolveParents
  <2>1. /\ DOMAIN b = DOMAIN a
        /\ \A i \in DOMAIN a :
              \/ b[i] = a[i]
              \/ /\ a[i].status = "needs_refactor"
                 /\ Later(a[i], b[i], "completed", 0)
    BY <1>6, ResolveParentsEffect DEF a, b
  <2>2. KeepsCompleted(a, b)
    BY <2>1 DEF KeepsCompleted, Later, Same
  <2>3. ASSUME NEW i \in DOMAIN a, b[i] # a[i] PROVE StandsOn(b[i], b)
    <3>1. a[i].status = "needs_refactor" /\ Later(a[i], b[i], "completed", 0)
      BY <2>1, <2>3
    <3>2. a[i].attempt_count > 0 /\ a[i].attempt_count \in Nat
      BY <1>3, <3>1 DEF StandsOn, Entry
    <3>3. Same(a[i], b[i]) /\ b[i].attempt_count = a[i].attempt_count
      BY <3>1, <3>2 DEF Later
    <3>4. b[i].status = "completed"
      BY <3>1 DEF Later
    <3> QED
      BY <1>3, <2>2, <3>1, <3>2, <3>3, <3>4, StandsGoesOn
  <2>4. Stands(b)
    BY <1>1, <2>1, <2>2, <2>3, StandsKept
  <2>5. \A i \in DOMAIN a : /\ b[i].id = a[i].id /\ b[i].depends_on = a[i].depends_on
                            /\ b[i].attempt_count = a[i].attempt_count
    BY <1>3, <2>1 DEF Later, Same, Entry
  <2>6. Layered(b)
    BY <1>1, <2>1, <2>5, LayeredStep
  <2> QED
    BY <1>2, <2>2, <2>4, <2>6
<1>7. CASE RewindNode
  <2>1. PICK r \in rewinds : RewoundTo(a, b, r[2])
    BY <1>7, RewindsOne DEF a, b
  <2>2. r[2] \in Targets /\ \A x \in Targets : x = r[2]
    BY DEF UpstreamInv, Targets, Undisturbed, OneRewound
  <2>3. Once(a)
    BY DEF EraInv, UpstreamInv, Era, a
  <2>4. Stands(b) /\ Layered(b)
    BY <1>1, <2>1, <2>2, <2>3, StandsRewound
  <2>5. Waiting' = {}
    BY <1>7, RewindNodeEffect DEF Waiting
  <2> QED
    BY <2>4, <2>5 DEF Onward, b
<1>8. CASE SpawnNode
  <2>1. PICK i \in DOMAIN mem.nodes :
           mem'.nodes = mem.nodes \o SpawnedEntries(mem.nodes, mem.nodes[i])
    BY <1>8, SpawnNodeEffect
  <2>2. /\ DOMAIN a \subseteq DOMAIN b /\ \A j \in DOMAIN a : b[j] = a[j]
        /\ \A j \in DOMAIN b \ DOMAIN a : New(b[j])
    BY <2>1, SpawnedNew DEF a, b
  <2> QED
    BY <1>1, <1>2, <2>2, StandsAdds, LayeredAdds
<1> QED
  BY <1>5, <1>6, <1>7, <1>8

LEMMA OnwardDispatch ==
    ASSUME TypeInv, SelectInv, UpstreamInv,
           \/ LaunchExecutor \/ ExecutorNotFound \/ StartSync
           \/ \E ok \in BOOLEAN : SyncReturns(ok)
    PROVE  Onward
<1> DEFINE a == mem.nodes
           b == mem'.nodes
           c == Candidate
<1>1. a \in Seq(Entry) /\ Stands(a) /\ Layered(a)
  BY Memory DEF UpstreamInv
<1>2. KeepsCompleted(a, b) /\ Stands(b) /\ Layered(b) => Onward
  BY DEF Onward
<1>3. \A i \in DOMAIN a : /\ a[i] \in Entry /\ StandsOn(a[i], a)
                          /\ a[i].attempt_count \in Nat
  <2>1. \A i \in DOMAIN a : a[i] \in Entry
    BY <1>1, ElementOfSeq, LenProperties
  <2> QED
    BY <1>1, <2>1 DEF Stands, Entry
<1>4. pc = "dispatch" /\ c \in cand =>
         a[c].status # "completed" /\ a[c].depends_on \subseteq CompletedIds(a)
  BY DEF SelectInv, UpstreamInv, Waiting
<1> HIDE DEF a, b, c
<1>5. CASE LaunchExecutor \/ StartSync
  <2>1. /\ pc = "dispatch" /\ c \in cand /\ c \in DOMAIN a
        /\ \E e \in Entry : Later(a[c], e, "running", 1) /\ Becomes(a, b, c, e)
    BY <1>5, LaunchExecutorEffect, StartSyncEffect DEF a, b, c
  <2>2. Later(a[c], b[c], "running", 1) /\ DOMAIN b = DOMAIN a
        /\ \A j \in DOMAIN a : j # c => b[j] = a[j]
    BY <2>1 DEF Becomes
  <2>3. KeepsCompleted(a, b)
    BY <1>4, <2>1, <2>2 DEF KeepsCompleted, Later, Same
  <2>4. StandsOn(b[c], b)
    <3>1. /\ Same(a[c], b[c]) /\ b[c].attempt_count = a[c].attempt_count + 1
          /\ b[c].status # "stale"
      BY <2>2 DEF Later
    <3> QED
      BY <1>3, <1>4, <2>1, <2>3, <3>1, StandsStarts
  <2>5. Stands(b)
    BY <1>1, <2>2, <2>3, <2>4, StandsKept
  <2>6. PICK e \in Entry : Later(a[c], e, "running", 1) /\ Becomes(a, b, c, e)
    BY <2>1
  <2>7. Same(a[c], e) /\ e.attempt_count = a[c].attempt_count + 1
    BY <2>6 DEF Later
  <2>8. Layered(b)
    BY <1>1, <1>4, <2>1, <2>6, <2>7, LayeredBecomes
  <2> QED
    BY <1>2, <2>3, <2>5, <2>8
<1>6. CASE ExecutorNotFound
  <2>1. /\ pc = "dispatch" /\ c \in cand /\ c \in DOMAIN a
        /\ \E e \in Entry : Later(a[c], e, "failed", 1) /\ SettledAt(a, b, c, e)
    BY <1>6, ExecutorNotFoundEffect DEF a, b, c
  <2>2. PICK e \in Entry : Later(a[c], e, "failed", 1) /\ SettledAt(a, b, c, e)
    BY <2>1
  <2>3. /\ Same(a[c], e) /\ e.attempt_count = a[c].attempt_count + 1
        /\ e.status # "stale"
    BY <2>2 DEF Later
  <2>4. KeepsCompleted(a, b) /\ Stands(b)
    BY <1>1, <1>4, <2>1, <2>2, <2>3, StandsSettled
  <2>5. Layered(b)
    BY <1>1, <1>4, <2>1, <2>2, <2>3, LayeredSettled
  <2> QED
    BY <1>2, <2>4, <2>5
<1>7. CASE \E ok \in BOOLEAN : SyncReturns(ok)
  <2> DEFINE k == cursor
  <2>1. /\ pc = "sync" /\ k \in DOMAIN a
        /\ \E e \in Entry, status \in {"completed", "failed"} :
              Later(a[k], e, status, 0) /\ SettledAt(a, b, k, e)
    BY <1>7, SyncReturnsEffect DEF a, b
  <2>2. PICK e \in Entry, status \in {"completed", "failed"} :
           Later(a[k], e, status, 0) /\ SettledAt(a, b, k, e)
    BY <2>1
  <2>3. a[k].status = "running"
    BY <2>1 DEF SelectInv, a
  <2> HIDE DEF k
  <2>4. /\ a[k].attempt_count > 0 /\ Same(a[k], e) /\ e.attempt_count = a[k].attempt_count
        /\ e.status # "stale"
    BY <1>3, <2>1, <2>2, <2>3 DEF Later, StandsOn
  <2>5. KeepsCompleted(a, b) /\ Stands(b)
    BY <1>1, <2>1, <2>2, <2>3, <2>4, StandsSettled
  <2>6. Layered(b)
    BY <1>1, <2>1, <2>2, <2>4, LayeredSettled
  <2> QED
    BY <1>2, <2>5, <2>6
<1> QED
  BY <1>5, <1>6, <1>7

LEMMA OnwardConfirm ==
    ASSUME TypeInv, MetaInv, PlannerInv, EraInv, UpstreamInv, NEW answer, Confirm(answer)
    PROVE  Onward
<1> DEFINE d == disk.nodes
           b == mem'.nodes
<1>1. /\ Stands(d) /\ Layered(d) /\ Fresh(d)
      /\ Waiting' = {} /\ plan # NoPlan
  BY ConfirmEffect DEF UpstreamInv, EraInv, Era, Waiting
<1>2. CASE b = d \o [k \in DOMAIN plan.nodes |-> EntryOf(plan.nodes[k], {}, {})]
  <2>1. /\ DOMAIN d \subseteq DOMAIN b /\ \A j \in DOMAIN d : b[j] = d[j]
        /\ \A j \in DOMAIN b \ DOMAIN d : New(b[j])
    BY <1>1, <1>2, PlannedNew
  <2> HIDE DEF b, d
  <2>2. Stands(b) /\ Layered(b)
    BY <1>1, <2>1, StandsAdds, LayeredAdds
  <2> QED
    BY <1>1, <2>2 DEF Onward, b
<1>3. CASE /\ DOMAIN b = DOMAIN d
           /\ \A i \in DOMAIN d :
                 /\ Same(d[i], b[i])
                 /\ b[i].status = IF d[i].id = NamedId(Planner) THEN "pending"
                                                                ELSE d[i].status
                 /\ b[i].attempt_count = d[i].attempt_count
  <2>1. \A i \in DOMAIN d : /\ d[i].id \in Id /\ d[i].id.base = Planner
                            /\ StandsOn(d[i], d) /\ PlannerFact(d[i])
    BY <1>1 DEF MetaInv, MetaFact, Fresh, Stands, PlannerInv
  <2>2. ASSUME NEW i \in DOMAIN b PROVE StandsOn(b[i], b)
    <3>1. b[i].id = d[i].id /\ b[i].depends_on = d[i].depends_on
      BY <1>3, <2>2 DEF Same
    <3>2. d[i].id.meta = <<>> => d[i].depends_on = {}
      BY <1>3, <2>1, <2>2 DEF Id, NamedId, PlannerFact
    <3> QED
      BY <1>3, <2>1, <2>2, <3>1, <3>2 DEF StandsOn
  <2>3. \A i \in DOMAIN d : /\ b[i].id = d[i].id /\ b[i].depends_on = d[i].depends_on
                            /\ b[i].attempt_count = d[i].attempt_count
    BY <1>3 DEF Same
  <2> HIDE DEF b, d
  <2>4. Layered(b)
    BY <1>1, <1>3, <2>3, LayeredStep
  <2> QED
    BY <1>1, <2>2, <2>4 DEF Onward, Stands, b
<1> QED
  BY <1>2, <1>3, ConfirmEffect

LEMMA UpstreamStep ==
    ASSUME Undisturbed, TypeInv, TypeInv', GrowsInv, MetaInv, PlannerInv, SelectInv,
           EraInv, UpstreamInv, [Next]_vars
    PROVE  UpstreamInv'
<1>1. resets' = 0
  BY NoResetStep DEF Undisturbed, UpstreamInv, NoReset
<1>2. RanInv'
  BY RanStep DEF Undisturbed, UpstreamInv
<1>3. disk' \in {disk, mem, mem'}
  BY Provenance
<1> DEFINE Aimed == \A r \in rewinds' : r[2] \in Targets
<1>14. Aimed
  BY RewindsStep DEF UpstreamInv, Targets
<1>4. Stands(disk.nodes) /\ Stands(mem.nodes) /\ Layered(disk.nodes) /\ Layered(mem.nodes)
      /\ \A i \in Waiting : mem.nodes[i].depends_on \subseteq CompletedIds(mem.nodes)
  BY DEF UpstreamInv
<1>5. ASSUME Onward, ~Route PROVE UpstreamInv'
  <2>1. \A i \in Waiting' : i \in Waiting /\ mem'.nodes[i] = mem.nodes[i]
    BY <1>5, WaitingStep
  <2>2. Waiting' # {} => CompletedIds(mem.nodes) \subseteq CompletedIds(mem'.nodes)
    BY <1>5, CompletedIdsKept DEF Onward
  <2>3. \A i \in Waiting' : mem'.nodes[i].depends_on \subseteq CompletedIds(mem'.nodes)
    BY <1>4, <2>1, <2>2
  <2>4. /\ Stands(mem'.nodes) /\ Stands(disk'.nodes)
        /\ Layered(mem'.nodes) /\ Layered(disk'.nodes)
    BY <1>3, <1>4, <1>5 DEF Onward
  <2> QED
    BY <1>1, <1>2, <1>14, <2>3, <2>4 DEF UpstreamInv
<1>6. CASE Route
  <2>1. mem' = mem /\ disk' = disk /\ cand' \subseteq Selected(mem.nodes)
    BY <1>6, RouteEffect DEF files
  <2>2. Waiting' \subseteq Selected(mem.nodes)
    BY <2>1 DEF Waiting
  <2>3. \A i \in Selected(mem.nodes) :
           mem.nodes[i].depends_on \subseteq CompletedIds(mem.nodes)
    BY DEF Selected, Ready
  <2>4. /\ Stands(mem'.nodes) /\ Stands(disk'.nodes)
        /\ Layered(mem'.nodes) /\ Layered(disk'.nodes)
    BY <1>4, <2>1
  <2>5. \A i \in Waiting' : mem'.nodes[i].depends_on \subseteq CompletedIds(mem'.nodes)
    BY <2>1, <2>2, <2>3
  <2> QED
    BY <1>1, <1>2, <1>14, <2>4, <2>5 DEF UpstreamInv
<1>7. mem'.nodes = mem.nodes => Onward
  BY <1>4 DEF Onward, KeepsCompleted
<1>8. CASE ReconcileNode \/ ResolveParents \/ RewindNode \/ SpawnNode
  BY <1>5, <1>6, <1>8, OnwardReconcile
<1>9. CASE \/ LaunchExecutor \/ ExecutorNotFound \/ StartSync
           \/ \E ok \in BOOLEAN : SyncReturns(ok)
  BY <1>5, <1>6, <1>9, OnwardDispatch
<1>10. CASE \E answer \in {"y", "n"} : Confirm(answer)
  BY <1>5, <1>6, <1>10, OnwardConfirm
<1>11. CASE \/ Finalize("complete", "indexComplete") \/ Finalize("failed", "indexFailed")
            \/ ReopenWorkflow \/ WriteLaunched \/ Persist \/ WriteConfirmed \/ Silent
  <2>1. mem'.nodes = mem.nodes
    BY <1>11, FinalizeEffect, ReopenEffect, WriteEffect DEF Silent
  <2> QED
    BY <1>5, <1>6, <1>7, <2>1
<1>12. CASE Reread
  <2>1. mem' = disk /\ cand' = {}
    BY <1>12 DEF Reread
  <2>2. Onward
    BY <1>4, <2>1 DEF Onward, Waiting
  <2> QED
    BY <1>5, <1>6, <2>2
<1>13. CASE \E i \in DOMAIN disk.nodes : ResetNode(i)
  BY <1>13, ResetNodeEffect DEF Undisturbed, UpstreamInv
<1> QED
  BY <1>6, <1>8, <1>9, <1>10, <1>11, <1>12, <1>13, StepCases

LEMMA UpstreamInit == ASSUME Init PROVE UpstreamInv
<1> DEFINE ns == <<PlannerEntry>>
<1>1. /\ disk.nodes = ns /\ mem.nodes = ns /\ resets = 0 /\ Waiting = {}
      /\ arts = {} /\ procs = {} /\ rewinds = {}
  BY DEF Init, Waiting
<1>2. PlannerEntry.status = "pending" /\ PlannerEntry.attempt_count = 0
  BY DEF PlannerEntry, EntryOf
<1>3. DOMAIN ns = {1} /\ ns[1] = PlannerEntry
  OBVIOUS
<1> HIDE DEF PlannerEntry, ns
<1>4. Stands(ns)
  BY <1>2, <1>3 DEF Stands, StandsOn
<1>5. RanInv
  BY <1>1 DEF RanInv
<1>6. Layered(ns)
  <2>1. \A i \in DOMAIN ns : ~(ns[i].attempt_count > 0)
    BY <1>2, <1>3
  <2>2. Tried(ns) = {}
    BY <2>1 DEF Tried
  <2> QED
    BY <2>1, <2>2 DEF Layered
<1> QED
  BY <1>1, <1>4, <1>5, <1>6 DEF UpstreamInv

(* As long as no more than one node is ever rewound, a named node runs,    *)
(* and is completed, on completed dependencies only: neither the artifacts *)
(* it left, nor a spawn, nor a rejected plan, nor any number of rewinds    *)
(* takes it past them.                                                     *)
THEOREM UpstreamIsDone ==
    ASSUME Undisturbed, NamesOnce, PlannerOwn, OnePlanner PROVE Spec => []UpstreamDone
<1>1. Init => /\ EraInv /\ NamedSpawns /\ PlannerSpared /\ GrowsInv
              /\ MetaInv /\ PlannerInv /\ PlanningInv /\ SelectInv /\ UpstreamInv
  BY MetaInit, PlannerInit, PlanningInit, SelectInit, EraInit, GrowsInit,
     UpstreamInit
<1>2. Planner \notin RewindTo
  BY DEF Undisturbed
<1>3. /\ TypeInv /\ TypeInv' /\ EraInv /\ NamedSpawns /\ PlannerSpared
      /\ GrowsInv /\ MetaInv /\ PlannerInv /\ PlanningInv /\ SelectInv
      /\ UpstreamInv /\ [Next]_vars
      => /\ EraInv' /\ NamedSpawns' /\ PlannerSpared' /\ GrowsInv'
         /\ MetaInv' /\ PlannerInv' /\ PlanningInv' /\ SelectInv' /\ UpstreamInv'
  BY <1>2, EraStep, FilesStep, MetaStep, PlannerStep, PlanningStep, SelectStep,
     GrowsNext, UpstreamStep
<1>4. TypeInv /\ UpstreamInv => UpstreamDone
  <2> SUFFICES ASSUME TypeInv, UpstreamInv, NEW i \in DOMAIN mem.nodes,
                      ~IsMeta(mem.nodes[i].id),
                      mem.nodes[i].status \in {"running", "completed"}
               PROVE  mem.nodes[i].depends_on \subseteq CompletedIds(mem.nodes)
    BY DEF UpstreamDone
  <2>1. mem.nodes[i].id \in Id
    BY Memory DEF Entry
  <2>2. mem.nodes[i].id.meta = <<>>
    BY <2>1, NamedIds
  <2> QED
    BY <2>2 DEF UpstreamInv, Stands, StandsOn
<1> QED
  BY <1>1, <1>3, <1>4, TypeInvariant, PTL DEF Spec

-----------------------------------------------------------------------------
(* Nothing runs on audit findings.                                         *)

(* The id of a meta node tells its parent. *)
ParentFact(e) ==
    e.id.meta # <<>> =>
        \E kind \in MetaKinds, f \in Entry :
            e.id = MetaId(kind, f.id, f.attempt_count) /\ e.parent = {f.id}

Parents(ns) == \A j \in DOMAIN ns : ParentFact(ns[j])
ParentInv == Parents(disk.nodes) /\ Parents(mem.nodes)

LEMMA MetaIdInjective ==
    ASSUME NEW id \in Id, NEW kind \in MetaKinds, NEW n \in Nat,
           NEW other \in Id, NEW k \in MetaKinds, NEW m \in Nat,
           MetaId(kind, id, n) = MetaId(k, other, m)
    PROVE  id = other
<1> DEFINE S == MetaKinds \X Nat
           s == id.meta
           t == other.meta
<1>1. s \in Seq(S) /\ t \in Seq(S) /\ <<kind, n>> \in S /\ <<k, m>> \in S
  BY DEF Id
<1>2. Append(s, <<kind, n>>) = Append(t, <<k, m>>)
  <2>1. MetaId(kind, id, n).meta = Append(s, <<kind, n>>)
    BY MetaIdType
  <2>2. MetaId(k, other, m).meta = Append(t, <<k, m>>)
    BY MetaIdType
  <2> QED
    BY <2>1, <2>2
<1>3. id.base = other.base
  BY DEF MetaId, Id
<1> HIDE DEF S, s, t
<1>4. s = t
  BY <1>1, <1>2, AppendInjective
<1> QED
  BY <1>3, <1>4 DEF Id, s, t

LEMMA ParentInit == ASSUME Init PROVE ParentInv
<1>1. ParentFact(PlannerEntry)
  BY DEF PlannerEntry, EntryOf, NamedId, ParentFact
<1>2. disk.nodes = <<PlannerEntry>> /\ mem = disk
  BY DEF Init
<1> HIDE DEF PlannerEntry
<1> QED
  BY <1>1, <1>2 DEF ParentInv, Parents

LEMMA ParentStep == ASSUME TypeInv, ParentInv, [Next]_vars PROVE ParentInv'
<1> DEFINE b == mem'.nodes
<1>1. \A e, f : ParentFact(e) /\ Same(e, f) => ParentFact(f)
  BY DEF ParentFact, Same
<1>2. ASSUME NEW e, Made(e) PROVE ParentFact(e)
  <2>1. CASE New(e)
    BY <2>1 DEF New, ParentFact
  <2>2. CASE \E kind \in MetaKinds, f \in Entry : e = MetaEntry(kind, f)
    <3>1. PICK kind \in MetaKinds, f \in Entry : e = MetaEntry(kind, f)
      BY <2>2
    <3>2. e.id = MetaId(kind, f.id, f.attempt_count) /\ e.parent = {f.id}
      BY <3>1 DEF MetaEntry
    <3> QED
      BY <3>2 DEF ParentFact
  <2> QED
    BY <1>2, <2>1, <2>2 DEF Made
<1>3. \A j \in DOMAIN b : ParentFact(b[j])
  BY <1>1, <1>2, Provenance DEF ParentInv, Parents
<1> QED
  BY <1>3, Provenance DEF ParentInv, Parents

(* Findings that were refactored, and a refactoring under way. *)
Refactoring(e, ns) ==
    \E k \in DOMAIN ns : /\ ns[k].id = MetaId("refactor", e.id, e.attempt_count)
                         /\ ns[k].parent = {e.id}
GovernedEntry(e, ns, bad) ==
    /\ e.status = "completed" /\ e.strategy = "GOVERNANCE" /\ e.id \in bad
          => MetaId("refactor", e.id, e.attempt_count) \in CompletedIds(ns)
    /\ e.status = "needs_refactor" => Refactoring(e, ns)
Governed(ns, bad) == \A i \in DOMAIN ns : GovernedEntry(ns[i], ns, bad)

GovernedInv ==
    /\ Governed(mem.nodes, dirty)
    /\ pc # "launched" => Governed(disk.nodes, dirty)

(* What is completed stays so, children keep their parents. *)
KeepsChildren(a, b) ==
    KeepsCompleted(a, b) /\ \A j \in DOMAIN a : b[j].parent = a[j].parent

LEMMA GovernedKept ==
    ASSUME NEW a, NEW b, NEW bad, KeepsChildren(a, b), Governed(a, bad),
           \A j \in DOMAIN b : (j \in DOMAIN a /\ b[j] = a[j]) \/ GovernedEntry(b[j], b, bad)
    PROVE  Governed(b, bad)
<1>1. CompletedIds(a) \subseteq CompletedIds(b)
  BY CompletedIdsKept DEF KeepsChildren
<1>2. \A e : Refactoring(e, a) => Refactoring(e, b)
  BY DEF Refactoring, KeepsChildren, KeepsCompleted
<1>3. \A j \in DOMAIN a : GovernedEntry(a[j], b, bad)
  BY <1>1, <1>2 DEF Governed, GovernedEntry
<1> QED
  BY <1>3 DEF Governed

LEMMA GovernedSettled ==
    ASSUME NEW a \in Seq(Entry), NEW b, NEW i \in DOMAIN a, NEW e \in Entry,
           Same(a[i], e), SettledAt(a, b, i, e), a[i].status # "completed",
           e.status \in {"completed", "failed"}, Governed(a, dirty), Parents(b)
    PROVE  Governed(b, dirty)
<1> DEFINE f == Audited(e)
           child == MetaId("refactor", e.id, e.attempt_count)
<1>1. /\ Same(e, f) /\ f.attempt_count = e.attempt_count
      /\ \/ f = e
         \/ e.status = "completed" /\ f.status = "needs_refactor"
  BY AuditedLater
<1>2. /\ b[i] = f /\ f.id = e.id /\ i \in DOMAIN b
      /\ \A j \in DOMAIN a : j # i => b[j] = a[j]
      /\ \A j \in DOMAIN b \ DOMAIN a : b[j].status = "pending"
  BY <1>1 DEF SettledAt, MetaEntry, Same
<1>3. KeepsChildren(a, b)
  BY <1>1, <1>2 DEF SettledAt, KeepsChildren, KeepsCompleted, Same
<1>4. e.id \in Id /\ e.attempt_count \in Nat /\ "refactor" \in MetaKinds
  BY DEF Entry, MetaKinds
<1>5. ASSUME f.status = "needs_refactor" PROVE Refactoring(f, b)
  <2>1. "refactor" \in ChildKinds(f)
    BY <1>4, <1>5 DEF ChildKinds
  <2>2. child \in Ids(b)
    BY <2>1 DEF SettledAt
  <2>3. PICK k \in DOMAIN b : b[k].id = child
    BY <2>2 DEF Ids
  <2>4. child.meta # <<>>
    <3>1. KindOf(child) = "refactor"
      BY <1>4, MetaIdType
    <3> QED
      BY <3>1 DEF KindOf
  <2>5. PICK kind \in MetaKinds, g \in Entry :
           b[k].id = MetaId(kind, g.id, g.attempt_count) /\ b[k].parent = {g.id}
    BY <2>3, <2>4 DEF Parents, ParentFact
  <2>6. g.id \in Id /\ g.attempt_count \in Nat
    BY DEF Entry
  <2>7. g.id = e.id
    BY <1>4, <2>3, <2>5, <2>6, MetaIdInjective
  <2> QED
    BY <1>1, <1>2, <2>3, <2>5, <2>7 DEF Refactoring
<1>6. f.status = "completed" /\ f.strategy = "GOVERNANCE" => f.id \notin dirty
  BY <1>1, <1>2 DEF Audited, StrategyOf, Same
<1>7. GovernedEntry(b[i], b, dirty)
  BY <1>2, <1>5, <1>6 DEF GovernedEntry
<1>8. \A j \in DOMAIN b \ DOMAIN a : GovernedEntry(b[j], b, dirty)
  BY <1>2 DEF GovernedEntry
<1> HIDE DEF f
<1> QED
  BY <1>2, <1>3, <1>7, <1>8, GovernedKept

LEMMA GovernedAdds ==
    ASSUME NEW a, NEW b, NEW bad, DOMAIN a \subseteq DOMAIN b, Governed(a, bad),
           \A j \in DOMAIN a : b[j] = a[j],
           \A j \in DOMAIN b \ DOMAIN a : New(b[j])
    PROVE  Governed(b, bad)
<1>1. KeepsChildren(a, b)
  BY DEF KeepsChildren, KeepsCompleted
<1>2. \A j \in DOMAIN b \ DOMAIN a : GovernedEntry(b[j], b, bad)
  BY DEF New, GovernedEntry
<1> QED
  BY <1>1, <1>2, GovernedKept

LEMMA GovernedResolved ==
    ASSUME NEW a \in Seq(Entry), NEW b, NEW bad, Governed(a, bad), DOMAIN b = DOMAIN a,
           \A i \in DOMAIN a :
              \/ b[i] = a[i]
              \/ Refactored(a, a[i]) /\ Later(a[i], b[i], "completed", 0)
    PROVE  Governed(b, bad)
<1>1. KeepsChildren(a, b)
  BY DEF KeepsChildren, KeepsCompleted, Later, Same
<1>2. CompletedIds(a) \subseteq CompletedIds(b)
  BY <1>1, CompletedIdsKept DEF KeepsChildren
<1>3. ASSUME NEW i \in DOMAIN a, b[i] # a[i] PROVE GovernedEntry(b[i], b, bad)
  <2> DEFINE child == MetaId("refactor", a[i].id, a[i].attempt_count)
  <2>1. Refactored(a, a[i]) /\ Later(a[i], b[i], "completed", 0)
    BY <1>3
  <2>2. a[i] \in Entry
    BY ElementOfSeq, LenProperties
  <2>3. KindOf(child) = "refactor" /\ a[i].attempt_count + 0 = a[i].attempt_count
    <3>1. a[i].id \in Id /\ a[i].attempt_count \in Nat /\ "refactor" \in MetaKinds
      BY <2>2 DEF Entry, MetaKinds
    <3> QED
      BY <3>1, MetaIdType
  <2>4. Refactoring(a[i], a)
    BY <2>1 DEF Refactored, Governed, GovernedEntry
  <2>5. PICK k \in DOMAIN a : a[k].id = child /\ a[k].parent = {a[i].id}
    BY <2>4 DEF Refactoring
  <2> HIDE DEF child
  <2>6. k \in Children(a, a[i].id)
    BY <2>5 DEF Children
  <2>7. a[k].status = "completed"
    BY <2>1, <2>3, <2>5, <2>6 DEF Refactored
  <2>8. child \in CompletedIds(b)
    BY <1>2, <2>5, <2>7 DEF CompletedIds
  <2>9. b[i].status = "completed" /\ b[i].id = a[i].id /\ b[i].attempt_count = a[i].attempt_count
    BY <2>1, <2>3 DEF Later, Same
  <2> QED
    BY <2>8, <2>9 DEF GovernedEntry, child
<1> QED
  BY <1>1, <1>3, GovernedKept

(* A refactoring is a meta node: it is not rewound. *)
LEMMA GovernedRewound ==
    ASSUME NEW a \in Seq(Entry), NEW b, NEW bad, NEW target, target.meta = <<>>,
           RewoundTo(a, b, target), Governed(a, bad), \A i \in DOMAIN a : a[i] \in Entry
    PROVE  Governed(b, bad)
<1>1. ASSUME NEW i \in DOMAIN a
      PROVE  /\ i \in DOMAIN b /\ Same(a[i], b[i])
             /\ b[i] = a[i] \/ ~IsMeta(a[i].id)
             /\ b[i] = a[i] \/ b[i].status \in {"pending", "stale"}
  <2>1. Same(a[i], a[i]) /\ ~IsMeta(target)
    BY DEF Same, IsMeta, KindOf
  <2> QED
    BY <2>1 DEF RewoundTo, Later, StaleIds
<1>2. ASSUME NEW i \in DOMAIN a, Refactoring(a[i], a) PROVE Refactoring(a[i], b)
  BY <1>1, <1>2 DEF Refactoring, Same
<1>3. ASSUME NEW i \in DOMAIN a,
             MetaId("refactor", a[i].id, a[i].attempt_count) \in CompletedIds(a)
      PROVE  MetaId("refactor", a[i].id, a[i].attempt_count) \in CompletedIds(b)
  <2> DEFINE child == MetaId("refactor", a[i].id, a[i].attempt_count)
  <2>1. KindOf(child) = "refactor"
    BY MetaIdType DEF Entry, MetaKinds
  <2>2. child \in CompletedIds(a)
    BY <1>3
  <2> HIDE DEF child
  <2>3. PICK k \in DOMAIN a : a[k].id = child /\ a[k].status = "completed"
    BY <2>2 DEF CompletedIds
  <2>4. k \in DOMAIN b /\ b[k] = a[k]
    BY <1>1, <2>1, <2>3 DEF IsMeta
  <2>5. child \in CompletedIds(b)
    BY <2>3, <2>4 DEF CompletedIds
  <2> QED
    BY <2>5 DEF child
<1>4. ASSUME NEW i \in DOMAIN b PROVE GovernedEntry(b[i], b, bad)
  <2>1. i \in DOMAIN a
    BY DEF RewoundTo
  <2>2. CASE b[i] = a[i]
    <3>1. GovernedEntry(a[i], a, bad)
      BY <2>1 DEF Governed
    <3> QED
      BY <1>2, <1>3, <2>1, <2>2, <3>1 DEF GovernedEntry
  <2>3. CASE b[i].status \in {"pending", "stale"}
    BY <2>3 DEF GovernedEntry
  <2> QED
    BY <1>1, <2>1, <2>2, <2>3
<1> QED
  BY <1>4 DEF Governed

LEMMA DirtyStep ==
    ASSUME TypeInv, [Next]_vars
    PROVE  \/ dirty' \subseteq dirty
           \/ /\ UNCHANGED <<disk, mem, pc>>
              /\ \E p \in procs : p.state = "live" /\ dirty' \subseteq dirty \cup {p.node}
<1>1. CASE Executors
  BY <1>1 DEF Executors, ExecutorExits
<1>2. CASE PlannerWrites \/ SyncSpawns \/ QuitRepl \/ RewindsDone \/ UNCHANGED vars
  BY <1>2 DEF PlannerWrites, SyncSpawns, QuitRepl, RewindsDone, files, vars
<1>3. CASE \/ ReconcileNode \/ ResolveParents \/ SpawnNode \/ Route
           \/ LaunchExecutor \/ ExecutorNotFound \/ StartSync
  BY <1>3, ReconcileNodeEffect, ResolveParentsEffect, SpawnNodeEffect,
     RouteEffect, LaunchExecutorEffect, ExecutorNotFoundEffect, StartSyncEffect DEF files
<1>4. CASE RewindNode
  <2>1. PICK S : dirty' = dirty \ S
    BY <1>4 DEF RewindNode
  <2> QED
    BY <2>1
<1>5. CASE \/ (\E ok \in BOOLEAN : SyncReturns(ok))
           \/ (\E answer \in {"y", "n"} : Confirm(answer))
           \/ (\E i \in DOMAIN disk.nodes : ResetNode(i))
           \/ ReopenWorkflow \/ WriteLaunched \/ Persist \/ WriteConfirmed
           \/ Finalize("complete", "indexComplete") \/ Finalize("failed", "indexFailed")
  BY <1>5, SyncReturnsEffect, ConfirmEffect, ResetNodeEffect, ReopenEffect, WriteEffect,
     FinalizeEffect
<1>6. CASE \/ StartCycle \/ RouteAwaiting \/ DispatchAborts \/ Crash
           \/ (\E at, status : SyncIndex(at, status))
  BY <1>6, RereadEffect DEF Reread
<1> QED
  BY <1>1, <1>2, <1>3, <1>4, <1>5, <1>6
     DEF Next, EngineStep, Reconcile, Dispatch, Finish, User

(* What the audit found so far, in the manifest that comes next. *)
LEMMA GovernedReconcile ==
    ASSUME TypeInv, EraInv, UpstreamInv, ParentInv', GovernedInv,
           ReconcileNode \/ ResolveParents \/ RewindNode \/ SpawnNode
    PROVE  Governed(mem'.nodes, dirty)
<1> DEFINE a == mem.nodes
           b == mem'.nodes
<1>1. a \in Seq(Entry) /\ Governed(a, dirty) /\ Parents(b)
  BY Memory DEF GovernedInv, ParentInv
<1>2. \A i \in DOMAIN a : Settles(a[i]) => a[i].status # "completed"
  BY DEF Settles
<1>3. \A i \in DOMAIN a : a[i] \in Entry
  BY Memory
<1> HIDE DEF a, b
<1>4. CASE ReconcileNode
  <2>1. PICK i \in DOMAIN a : /\ Settles(a[i]) /\ Settled(a[i]) \in Entry
                              /\ Same(a[i], Settled(a[i]))
                              /\ SettledAt(a, b, i, Settled(a[i]))
    BY <1>4, ReconcileNodeEffect DEF a, b
  <2>2. a[i].status # "completed" /\ Settled(a[i]).status \in {"completed", "failed"}
    BY <1>2, <1>3, <2>1, SettledLater
  <2>3. Governed(b, dirty)
    BY <1>1, <2>1, <2>2, GovernedSettled
  <2> QED
    BY <2>3 DEF b
<1>5. CASE ResolveParents
  <2>1. /\ DOMAIN b = DOMAIN a
        /\ \A i \in DOMAIN a :
              \/ b[i] = a[i]
              \/ Refactored(a, a[i]) /\ Later(a[i], b[i], "completed", 0)
    BY <1>5, ResolveParentsEffect DEF a, b
  <2>2. Governed(b, dirty)
    BY <1>1, <2>1, GovernedResolved
  <2> QED
    BY <2>2 DEF b
<1>6. CASE RewindNode
  <2>1. PICK r \in rewinds : RewoundTo(a, b, r[2])
    BY <1>6, RewindsOne DEF a, b
  <2>2. r[2].meta = <<>>
    BY DEF UpstreamInv, Targets, NamedId
  <2>3. Governed(b, dirty)
    BY <1>1, <1>3, <2>1, <2>2, GovernedRewound
  <2> QED
    BY <2>3 DEF b
<1>7. CASE SpawnNode
  <2>1. PICK i \in DOMAIN mem.nodes :
           mem'.nodes = mem.nodes \o SpawnedEntries(mem.nodes, mem.nodes[i])
    BY <1>7, SpawnNodeEffect
  <2>2. /\ DOMAIN a \subseteq DOMAIN b /\ \A j \in DOMAIN a : b[j] = a[j]
        /\ \A j \in DOMAIN b \ DOMAIN a : New(b[j])
    BY <2>1, SpawnedNew DEF a, b
  <2>3. Governed(b, dirty)
    BY <1>1, <2>2, GovernedAdds
  <2> QED
    BY <2>3 DEF b
<1> QED
  BY <1>4, <1>5, <1>6, <1>7

LEMMA GovernedDispatch ==
    ASSUME TypeInv, SelectInv, ParentInv', GovernedInv,
           \/ LaunchExecutor \/ ExecutorNotFound \/ StartSync
           \/ \E ok \in BOOLEAN : SyncReturns(ok)
    PROVE  Governed(mem'.nodes, dirty)
<1> DEFINE a == mem.nodes
           b == mem'.nodes
           c == Candidate
           k == cursor
<1>1. a \in Seq(Entry) /\ Governed(a, dirty) /\ Parents(b)
  BY Memory DEF GovernedInv, ParentInv
<1>2. /\ pc = "dispatch" /\ c \in cand => a[c].status # "completed"
      /\ pc = "sync" => a[k].status = "running"
  BY DEF SelectInv, Waiting
<1> HIDE DEF a, b, c, k
<1>3. CASE LaunchExecutor \/ StartSync
  <2>1. /\ pc = "dispatch" /\ c \in cand /\ c \in DOMAIN a
        /\ \E e \in Entry : Later(a[c], e, "running", 1) /\ Becomes(a, b, c, e)
    BY <1>3, LaunchExecutorEffect, StartSyncEffect DEF a, b, c
  <2>2. Later(a[c], b[c], "running", 1) /\ DOMAIN b = DOMAIN a
        /\ \A j \in DOMAIN a : j # c => b[j] = a[j]
    BY <2>1 DEF Becomes
  <2>3. KeepsChildren(a, b)
    BY <1>2, <2>1, <2>2 DEF KeepsChildren, KeepsCompleted, Later, Same
  <2>4. GovernedEntry(b[c], b, dirty)
    BY <2>2 DEF GovernedEntry, Later
  <2>5. Governed(b, dirty)
    BY <1>1, <2>2, <2>3, <2>4, GovernedKept
  <2> QED
    BY <2>5 DEF b
<1>4. CASE ExecutorNotFound
  <2>1. /\ pc = "dispatch" /\ c \in cand /\ c \in DOMAIN a
        /\ \E e \in Entry : Later(a[c], e, "failed", 1) /\ SettledAt(a, b, c, e)
    BY <1>4, ExecutorNotFoundEffect DEF a, b, c
  <2>2. PICK e \in Entry : Later(a[c], e, "failed", 1) /\ SettledAt(a, b, c, e)
    BY <2>1
  <2>3. Same(a[c], e) /\ e.status = "failed"
    BY <2>2 DEF Later
  <2>4. Governed(b, dirty)
    BY <1>1, <1>2, <2>1, <2>2, <2>3, GovernedSettled
  <2> QED
    BY <2>4 DEF b
<1>5. CASE \E ok \in BOOLEAN : SyncReturns(ok)
  <2>1. /\ pc = "sync" /\ k \in DOMAIN a
        /\ \E e \in Entry, status \in {"completed", "failed"} :
              Later(a[k], e, status, 0) /\ SettledAt(a, b, k, e)
    BY <1>5, SyncReturnsEffect DEF a, b, k
  <2>2. PICK e \in Entry, status \in {"completed", "failed"} :
           Later(a[k], e, status, 0) /\ SettledAt(a, b, k, e)
    BY <2>1
  <2>3. Same(a[k], e) /\ e.status \in {"completed", "failed"}
    BY <2>2 DEF Later
  <2>4. Governed(b, dirty)
    BY <1>1, <1>2, <2>1, <2>2, <2>3, GovernedSettled
  <2> QED
    BY <2>4 DEF b
<1> QED
  BY <1>3, <1>4, <1>5

LEMMA GovernedConfirm ==
    ASSUME TypeInv, GovernedInv, NEW answer, Confirm(answer)
    PROVE  Governed(mem'.nodes, dirty)
<1> DEFINE d == disk.nodes
           b == mem'.nodes
<1>1. Governed(d, dirty) /\ plan # NoPlan /\ \A i \in DOMAIN d : d[i] \in Entry
  BY ConfirmEffect, Memory DEF GovernedInv
<1>2. CASE b = d \o [k \in DOMAIN plan.nodes |-> EntryOf(plan.nodes[k], {}, {})]
  <2>1. /\ DOMAIN d \subseteq DOMAIN b /\ \A j \in DOMAIN d : b[j] = d[j]
        /\ \A j \in DOMAIN b \ DOMAIN d : New(b[j])
    BY <1>1, <1>2, PlannedNew
  <2> HIDE DEF b, d
  <2>2. Governed(b, dirty)
    BY <1>1, <2>1, GovernedAdds
  <2> QED
    BY <2>2 DEF b
<1>3. CASE /\ DOMAIN b = DOMAIN d
           /\ \A i \in DOMAIN d :
                 /\ Same(d[i], b[i])
                 /\ b[i].status = IF d[i].id = NamedId(Planner) THEN "pending"
                                                                ELSE d[i].status
                 /\ b[i].attempt_count = d[i].attempt_count
  <2> HIDE DEF b, d
  <2>1. \A i \in DOMAIN d : Refactoring(d[i], d) => Refactoring(b[i], b)
    BY <1>3 DEF Refactoring, Same
  <2>2. ASSUME NEW i \in DOMAIN d,
               MetaId("refactor", d[i].id, d[i].attempt_count) \in CompletedIds(d)
        PROVE  MetaId("refactor", b[i].id, b[i].attempt_count) \in CompletedIds(b)
    <3> DEFINE child == MetaId("refactor", d[i].id, d[i].attempt_count)
    <3>1. KindOf(child) = "refactor"
      BY <1>1, MetaIdType DEF Entry, MetaKinds
    <3>2. child # NamedId(Planner)
      BY <3>1 DEF KindOf, NamedId
    <3>3. child \in CompletedIds(d)
      BY <2>2
    <3>4. MetaId("refactor", b[i].id, b[i].attempt_count) = child
      BY <1>3 DEF Same
    <3> HIDE DEF child
    <3>5. child \in CompletedIds(b)
      BY <1>3, <3>2, <3>3 DEF CompletedIds, Same
    <3> QED
      BY <3>4, <3>5
  <2>3. ASSUME NEW i \in DOMAIN b PROVE GovernedEntry(b[i], b, dirty)
    <3>1. /\ b[i].status # "pending" => b[i].status = d[i].status
          /\ b[i].id = d[i].id /\ b[i].strategy = d[i].strategy
          /\ GovernedEntry(d[i], d, dirty)
      BY <1>1, <1>3, <2>3 DEF Same, Governed
    <3> QED
      BY <1>3, <2>1, <2>2, <2>3, <3>1 DEF GovernedEntry
  <2>4. Governed(b, dirty)
    BY <2>3 DEF Governed
  <2> QED
    BY <2>4 DEF b
<1> QED
  BY <1>2, <1>3, ConfirmEffect

LEMMA GovernedFewer ==
    ASSUME NEW ns, NEW bad, NEW fewer, Governed(ns, bad), fewer \subseteq bad
    PROVE  Governed(ns, fewer)
  BY DEF Governed, GovernedEntry

(* An executor reports findings on a node that still runs. *)
LEMMA GovernedMore ==
    ASSUME NEW ns, NEW bad, NEW more, Governed(ns, bad), Once(ns), NEW p,
           more \subseteq bad \cup {p.node}, \E i \in DOMAIN ns : Owns(ns[i], p)
    PROVE  Governed(ns, more)
<1>1. PICK i \in DOMAIN ns : ns[i].id = p.node /\ ns[i].status = "running"
  BY DEF Owns
<1>2. \A j \in DOMAIN ns : ns[j].status = "completed" => ns[j].id # p.node
  BY <1>1 DEF Once
<1> QED
  BY <1>2 DEF Governed, GovernedEntry

LEMMA GovernedStep ==
    ASSUME Unbroken, GovernedSpared, TypeInv, SelectInv, SparedInv, OwnedInv, EraInv,
           UpstreamInv, ParentInv', GovernedInv, [Next]_vars
    PROVE  GovernedInv'
<1>1. ~Crash
  <2>1. crashes \in Nat /\ MaxCrashes = 0
    BY DEF TypeInv, TypeOK, Unbroken
  <2> QED
    BY <2>1 DEF Crash
<1>2. pc = "launched" => WriteLaunched \/ UNCHANGED <<disk, mem, cand, pc>>
  BY <1>1, LaunchedStep
<1>3. /\ Governed(mem.nodes, dirty)
      /\ pc # "launched" => Governed(disk.nodes, dirty)
  BY DEF GovernedInv
<1> DEFINE Goal == /\ Governed(mem'.nodes, dirty)
                   /\ pc' # "launched" => Governed(disk'.nodes, dirty)
<1>4. ASSUME Governed(mem'.nodes, dirty) PROVE Goal
  <2>1. CASE pc = "launched"
    BY <1>2, <1>3, <1>4, <2>1 DEF WriteLaunched
  <2>2. CASE pc # "launched"
    BY <1>3, <1>4, <2>2, Provenance
  <2> QED
    BY <2>1, <2>2
<1>5. Goal
  <2> HIDE DEF Goal
  <2>1. CASE ReconcileNode \/ ResolveParents \/ RewindNode \/ SpawnNode
    BY <1>4, <2>1, GovernedReconcile
  <2>2. CASE \/ LaunchExecutor \/ ExecutorNotFound \/ StartSync
             \/ \E ok \in BOOLEAN : SyncReturns(ok)
    BY <1>4, <2>2, GovernedDispatch
  <2>3. CASE \E answer \in {"y", "n"} : Confirm(answer)
    BY <1>4, <2>3, GovernedConfirm
  <2>4. CASE \/ Finalize("complete", "indexComplete") \/ Finalize("failed", "indexFailed")
             \/ Route \/ ReopenWorkflow \/ WriteLaunched \/ Persist \/ WriteConfirmed \/ Silent
    <3>1. mem'.nodes = mem.nodes
      BY <2>4, FinalizeEffect, RouteEffect, ReopenEffect, WriteEffect DEF Silent
    <3> QED
      BY <1>3, <1>4, <3>1
  <2>5. CASE Reread
    <3>1. mem' = disk /\ pc' \in {"idle", "reconcile"}
      BY <2>5 DEF Reread
    <3>2. pc # "launched" \/ disk' = mem
      BY <1>2, <3>1 DEF WriteLaunched
    <3>3. disk' = disk
      BY <2>5 DEF Reread
    <3> QED
      BY <1>3, <1>4, <3>1, <3>2, <3>3
  <2>6. CASE \E i \in DOMAIN disk.nodes : ResetNode(i)
    BY <2>6, ResetNodeEffect DEF Unbroken, UpstreamInv
  <2> QED
    BY <2>1, <2>2, <2>3, <2>4, <2>5, <2>6, StepCases
<1>6. CASE dirty' \subseteq dirty
  BY <1>5, <1>6, GovernedFewer DEF GovernedInv
<1>7. CASE /\ UNCHANGED <<disk, mem, pc>>
           /\ \E p \in procs : p.state = "live" /\ dirty' \subseteq dirty \cup {p.node}
  <2>1. PICK p \in procs : p.state = "live" /\ dirty' \subseteq dirty \cup {p.node}
    BY <1>7
  <2>2. \/ /\ \E i \in DOMAIN mem.nodes : Owns(mem.nodes[i], p)
           /\ pc # "launched" => \E i \in DOMAIN disk.nodes : Owns(disk.nodes[i], p)
        \/ p.node.base \notin Spared
    BY <2>1 DEF OwnedInv
  <2>3. Once(mem.nodes) /\ Once(disk.nodes)
    BY DEF EraInv, UpstreamInv, Era
  <2>4. CASE p.node.base \notin Spared
    <3>1. /\ \A i \in DOMAIN mem.nodes :
                mem.nodes[i].strategy = "GOVERNANCE" => mem.nodes[i].id # p.node
          /\ \A i \in DOMAIN disk.nodes :
                disk.nodes[i].strategy = "GOVERNANCE" => disk.nodes[i].id # p.node
      BY <2>4 DEF SparedInv, SparedFact
    <3>2. Governed(mem.nodes, dirty')
      BY <1>3, <2>1, <3>1 DEF Governed, GovernedEntry
    <3>3. pc # "launched" => Governed(disk.nodes, dirty')
      BY <1>3, <2>1, <3>1 DEF Governed, GovernedEntry
    <3> QED
      BY <1>7, <3>2, <3>3 DEF GovernedInv
  <2> SUFFICES ASSUME p.node.base \in Spared PROVE GovernedInv'
    BY <2>4
  <2>5. Governed(mem.nodes, dirty')
    BY <1>3, <2>1, <2>2, <2>3, GovernedMore
  <2>6. pc # "launched" => Governed(disk.nodes, dirty')
    BY <1>3, <2>1, <2>2, <2>3, GovernedMore
  <2> QED
    BY <1>7, <2>5, <2>6 DEF GovernedInv
<1> QED
  BY <1>6, <1>7, DirtyStep

LEMMA GovernedInit == ASSUME Init PROVE GovernedInv
<1> DEFINE ns == <<PlannerEntry>>
<1>1. disk.nodes = ns /\ mem.nodes = ns
  BY DEF Init
<1>2. PlannerEntry.status = "pending"
  BY DEF PlannerEntry, EntryOf
<1>3. DOMAIN ns = {1} /\ ns[1] = PlannerEntry
  OBVIOUS
<1> HIDE DEF PlannerEntry, ns
<1>4. \A bad : Governed(ns, bad)
  BY <1>2, <1>3 DEF Governed, GovernedEntry
<1> QED
  BY <1>1, <1>4 DEF GovernedInv

(* Rewinds that reach no governed node do no harm to the audit: no named   *)
(* node runs on a governed dependency with audit findings before they are  *)
(* refactored, for an executor that reports findings late reports them on  *)
(* a node that still runs.                                                 *)
THEOREM FindingsRefactored ==
    ASSUME Undisturbed, GovernedSpared, NamesOnce, PlannerOwn, OnePlanner
    PROVE  Spec => []GovernedGate
<1>1. Init => /\ EraInv /\ NamedSpawns /\ PlannerSpared /\ GrowsInv /\ SparedInv
              /\ MetaInv /\ PlannerInv /\ PlanningInv /\ SelectInv /\ UpstreamInv
              /\ OwnedInv /\ ParentInv /\ GovernedInv
  BY MetaInit, PlannerInit, PlanningInit, SelectInit, EraInit, SparedInit, GrowsInit,
     UpstreamInit, ParentInit, GovernedInit DEF Init, OwnedInv
<1>2. Planner \notin RewindTo /\ Unbroken
  BY DEF Undisturbed, Unbroken
<1>3. /\ TypeInv /\ TypeInv' /\ EraInv /\ NamedSpawns /\ PlannerSpared
      /\ GrowsInv /\ SparedInv /\ MetaInv /\ PlannerInv /\ PlanningInv /\ SelectInv
      /\ UpstreamInv /\ OwnedInv /\ ParentInv /\ GovernedInv /\ [Next]_vars
      => /\ EraInv' /\ NamedSpawns' /\ PlannerSpared' /\ GrowsInv' /\ SparedInv'
         /\ MetaInv' /\ PlannerInv' /\ PlanningInv' /\ SelectInv' /\ UpstreamInv'
         /\ OwnedInv' /\ ParentInv' /\ GovernedInv'
  BY <1>2, EraStep, FilesStep, MetaStep, PlannerStep, PlanningStep, SelectStep,
     SparedStep, GrowsNext, UpstreamStep, OwnedStep, ParentStep, GovernedStep
<1>4. TypeInv /\ EraInv /\ UpstreamInv /\ GovernedInv => GovernedGate
  <2> SUFFICES ASSUME TypeInv, EraInv, UpstreamInv, GovernedInv,
                      NEW i \in DOMAIN mem.nodes, NEW j \in DOMAIN mem.nodes,
                      mem.nodes[i].status \in {"running", "completed"},
                      ~IsMeta(mem.nodes[i].id),
                      mem.nodes[j].id \in mem.nodes[i].depends_on \cap dirty,
                      mem.nodes[j].strategy = "GOVERNANCE"
               PROVE  MetaId("refactor", mem.nodes[j].id, mem.nodes[j].attempt_count)
                         \in CompletedIds(mem.nodes)
    BY DEF GovernedGate
  <2>1. mem.nodes[i].id.meta = <<>>
    <3>1. mem.nodes[i].id \in Id
      BY Memory DEF Entry
    <3> QED
      BY <3>1, NamedIds
  <2>2. mem.nodes[j].id \in CompletedIds(mem.nodes)
    BY <2>1 DEF UpstreamInv, Stands, StandsOn
  <2>3. PICK k \in DOMAIN mem.nodes :
           mem.nodes[k].id = mem.nodes[j].id /\ mem.nodes[k].status = "completed"
    BY <2>2 DEF CompletedIds
  <2>4. k = j
    BY <2>3 DEF EraInv, UpstreamInv, Era, Once
  <2> QED
    BY <2>3, <2>4 DEF GovernedInv, Governed, GovernedEntry
<1> QED
  BY <1>1, <1>3, <1>4, TypeInvariant, PTL DEF Spec
=============================================================================
