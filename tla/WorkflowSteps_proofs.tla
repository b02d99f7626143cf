------------------------- MODULE WorkflowSteps_proofs -------------------------
(***************************************************************************)
(* What each action of WorkflowEngine does to the two copies of the        *)
(* manifest, entry by entry; and what needs no more than that: what is     *)
(* verified is never final.                                                *)
(***************************************************************************)
EXTENDS WorkflowEngine_proofs

(* e took entry i's place in a, was audited, and perhaps got a child that  *)
(* no entry had the id of.                                                 *)
SettledAt(a, b, i, e) ==
    /\ DOMAIN a \subseteq DOMAIN b
    /\ b[i] = Audited(e)
    /\ \A j \in DOMAIN a : j # i => b[j] = a[j]
    /\ \A j, k \in DOMAIN b \ DOMAIN a : j = k
    /\ \A j \in DOMAIN b \ DOMAIN a : \E kind \in ChildKinds(Audited(e)) :
          /\ b[j] = MetaEntry(kind, Audited(e))
          /\ b[j].id \notin Ids(a)
    /\ \A kind \in ChildKinds(Audited(e)) :
          MetaId(kind, e.id, e.attempt_count) \in Ids(b)

LEMMA SettleAdds ==
    ASSUME NEW ns \in Seq(Entry), NEW i \in DOMAIN ns, NEW e \in Entry,
           e.id = ns[i].id
    PROVE  SettledAt(ns, Settle(ns, i, e), i, e) /\ Settle(ns, i, e) \in Seq(Entry)
<1> DEFINE f == Audited(e)
           changed == [ns EXCEPT ![i] = f]
           missing == {k \in ChildKinds(f) :
                          MetaId(k, f.id, f.attempt_count) \notin Ids(changed)}
           kind == CHOOSE k \in missing : TRUE
           child == MetaEntry(kind, f)
           r == Settle(ns, i, e)
<1>1. f \in Entry /\ f.id = e.id /\ f.attempt_count = e.attempt_count
  BY AuditedType DEF Entry
<1>2. /\ changed \in Seq(Entry) /\ Len(changed) = Len(ns) /\ Len(ns) \in Nat
      /\ DOMAIN changed = 1 .. Len(ns) /\ DOMAIN ns = 1 .. Len(ns)
      /\ \A j \in DOMAIN ns : changed[j] = IF j = i THEN f ELSE ns[j]
  BY <1>1, ExceptSeq, LenProperties
<1>3. Ids(changed) = Ids(ns)
  BY <1>1, <1>2 DEF Ids
<1>4. r = IF missing = {} THEN changed ELSE Append(changed, child)
  BY DEF Settle, EnsureMetaChild
<1>5. /\ r \in Seq(Entry) /\ DOMAIN ns \subseteq DOMAIN r
      /\ \A j \in DOMAIN ns : r[j] = IF j = i THEN f ELSE ns[j]
      /\ \A k \in ChildKinds(f) : MetaId(k, e.id, e.attempt_count) \in Ids(r)
  BY SettleShape
<1>6. /\ \A j, k \in DOMAIN r \ DOMAIN ns : j = k
      /\ \A j \in DOMAIN r \ DOMAIN ns : \E k \in ChildKinds(f) :
            r[j] = MetaEntry(k, f) /\ r[j].id \notin Ids(ns)
  <2>1. CASE missing = {}
    BY <1>2, <1>4, <2>1
  <2>2. CASE missing # {}
    <3>1. kind \in ChildKinds(f) /\ kind \in MetaKinds
          /\ MetaId(kind, f.id, f.attempt_count) \notin Ids(changed)
      BY <2>2 DEF ChildKinds
    <3>2. child \in Entry /\ child.id = MetaId(kind, f.id, f.attempt_count)
      BY <1>1, <3>1, MetaEntryType DEF MetaEntry
    <3>3. r = Append(changed, child)
      BY <1>4, <2>2
    <3>4. child = MetaEntry(kind, f)
      OBVIOUS
    <3> HIDE DEF changed, child, kind, f, r
    <3>5. /\ DOMAIN r = 1 .. Len(ns) + 1 /\ r[Len(ns) + 1] = child
      BY <1>2, <3>2, <3>3, AppendProperties, LenProperties
    <3>6. \A j \in DOMAIN r \ DOMAIN ns : j = Len(ns) + 1
      BY <1>2, <3>5
    <3> QED
      BY <1>3, <3>1, <3>2, <3>4, <3>5, <3>6
  <2> QED
    BY <2>1, <2>2
<1> HIDE DEF r
<1> QED
  BY <1>5, <1>6 DEF SettledAt, r

(* What no step changes in an entry. *)
Same(e, f) ==
    /\ f.id = e.id /\ f.depends_on = e.depends_on /\ f.exits = e.exits
    /\ f.mode = e.mode /\ f.strategy = e.strategy /\ f.parent = e.parent

(* f is e in another status, after n more attempts. *)
Later(e, f, status, n) ==
    /\ Same(e, f) /\ f.def = e.def
    /\ f.status = status /\ f.attempt_count = e.attempt_count + n

LEMMA AuditedLater ==
    ASSUME NEW e \in Entry
    PROVE  /\ Audited(e) \in Entry /\ Same(e, Audited(e)) /\ Audited(e).def = e.def
           /\ Audited(e).attempt_count = e.attempt_count /\ Audited(e).pid = e.pid
           /\ \/ Audited(e) = e
              \/ /\ e.status = "completed" /\ StrategyOf(e) = "GOVERNANCE"
                 /\ e.id \in dirty /\ Audited(e).status = "needs_refactor"
  BY DEF Audited, Entry, NodeStatuses, Same

LEMMA SettledLater ==
    ASSUME NEW e \in Entry
    PROVE  /\ Settled(e) \in Entry /\ Same(e, Settled(e)) /\ Settled(e).def = e.def
           /\ Settled(e).attempt_count = e.attempt_count
           /\ Settled(e).status \in {"completed", "failed"}
           /\ Settled(e).status = "failed" => e.status = "running" /\ e.pid # NoPid
           /\ e.status = "running" => Settled(e).pid = NoPid
  BY DEF Settled, Entry, NodeStatuses, NoPid, Same

-----------------------------------------------------------------------------
(* The actions, one by one.                                                *)

LEMMA Memory ==
    ASSUME TypeInv
    PROVE  /\ mem \in Manifest /\ disk \in Manifest
           /\ mem.nodes \in Seq(Entry) /\ disk.nodes \in Seq(Entry)
           /\ mem.phase \in Phases /\ disk.phase \in Phases
           /\ DOMAIN mem.nodes = 1 .. Len(mem.nodes) /\ Len(mem.nodes) \in Nat
           /\ DOMAIN disk.nodes = 1 .. Len(disk.nodes) /\ Len(disk.nodes) \in Nat
           /\ \A i \in DOMAIN mem.nodes : mem.nodes[i] \in Entry
           /\ \A i \in DOMAIN disk.nodes : disk.nodes[i] \in Entry
  BY ElementOfSeq, LenProperties DEF TypeInv, TypeOK, Manifest

LEMMA ReconcileNodeEffect ==
    ASSUME TypeInv, ReconcileNode
    PROVE  /\ pc = "reconcile" /\ pc' = "reconcile" /\ cand = {}
           /\ mem'.phase = mem.phase
           /\ UNCHANGED <<disk, index, plan, arts, dirty, spawns, rewinds, procs,
                          cand, crashes, resets>>
           /\ \E i \in DOMAIN mem.nodes :
                 /\ i >= cursor /\ cursor' = i + 1
                 /\ Settles(mem.nodes[i])
                 /\ Settled(mem.nodes[i]) \in Entry
                 /\ Same(mem.nodes[i], Settled(mem.nodes[i]))
                 /\ SettledAt(mem.nodes, mem'.nodes, i, Settled(mem.nodes[i]))
<1> DEFINE i == FirstOf(ToSettle)
           e == Settled(mem.nodes[i])
<1>1. i \in ToSettle /\ i \in DOMAIN mem.nodes
  <2>1. ToSettle \in SUBSET DOMAIN mem.nodes /\ ToSettle # {}
    BY DEF ReconcileNode, ToSettle
  <2> QED
    BY <2>1, Memory, FirstInDomain
<1>2. mem' = [mem EXCEPT !.nodes = Settle(mem.nodes, i, e)] /\ cursor' = i + 1
  BY DEF ReconcileNode
<1>3. i >= cursor /\ Settles(mem.nodes[i])
  BY <1>1 DEF ToSettle
<1> HIDE DEF i
<1>4. e \in Entry /\ Same(mem.nodes[i], e) /\ e.id = mem.nodes[i].id
  BY <1>1, Memory, SettledLater DEF Same
<1>5. SettledAt(mem.nodes, Settle(mem.nodes, i, e), i, e)
  BY <1>1, <1>4, Memory, SettleAdds
<1>6. mem'.nodes = Settle(mem.nodes, i, e) /\ mem'.phase = mem.phase
  BY <1>2, Memory DEF Manifest
<1> QED
  BY <1>1, <1>2, <1>3, <1>4, <1>5, <1>6 DEF ReconcileNode, files, bounds, TypeInv, PcInv

LEMMA ResolveParentsEffect ==
    ASSUME TypeInv, ResolveParents
    PROVE  /\ pc = "reconcile" /\ pc' = "rewind" /\ cand = {} /\ cursor' = 1
           /\ mem'.phase = mem.phase /\ mem'.nodes = Resolved(mem.nodes)
           /\ UNCHANGED <<disk, index, plan, arts, dirty, spawns, rewinds, procs,
                          cand, crashes, resets>>
           /\ DOMAIN mem'.nodes = DOMAIN mem.nodes
           /\ \A i \in DOMAIN mem.nodes :
                 \/ mem'.nodes[i] = mem.nodes[i]
                 \/ /\ mem.nodes[i].status = "needs_refactor"
                    /\ Refactored(mem.nodes, mem.nodes[i])
                    /\ Later(mem.nodes[i], mem'.nodes[i], "completed", 0)
<1>1. mem' = [mem EXCEPT !.nodes = Resolved(mem.nodes)]
  BY DEF ResolveParents
<1>2. mem'.nodes = Resolved(mem.nodes) /\ mem'.phase = mem.phase
  BY <1>1, Memory DEF Manifest
<1>3. DOMAIN Resolved(mem.nodes) = DOMAIN mem.nodes
      /\ \A i \in DOMAIN mem.nodes :
            Resolved(mem.nodes)[i] = IF Refactored(mem.nodes, mem.nodes[i])
                                       THEN [mem.nodes[i] EXCEPT !.status = "completed"]
                                       ELSE mem.nodes[i]
  BY DEF Resolved
<1>4. \A i \in DOMAIN mem.nodes : Refactored(mem.nodes, mem.nodes[i])
                                     => mem.nodes[i].status = "needs_refactor"
  BY DEF Refactored
<1>5. \A e \in Entry : Later(e, [e EXCEPT !.status = "completed"], "completed", 0)
  BY DEF Entry, Later, Same
<1>6. \A i \in DOMAIN mem.nodes :
         \/ mem'.nodes[i] = mem.nodes[i]
         \/ /\ mem.nodes[i].status = "needs_refactor"
            /\ Refactored(mem.nodes, mem.nodes[i])
            /\ Later(mem.nodes[i], mem'.nodes[i], "completed", 0)
  BY <1>2, <1>3, <1>4, <1>5, Memory
<1> QED
  BY <1>2, <1>3, <1>6 DEF ResolveParents, files, bounds, TypeInv, PcInv

(* A named id is the target or depends on it; a meta node is never moved. *)
LEMMA RewindNodeEffect ==
    ASSUME TypeInv, RewindNode
    PROVE  /\ pc = "rewind" /\ pc' = "rewind" /\ cand = {}
           /\ mem'.phase = mem.phase
           /\ UNCHANGED <<disk, index, plan, spawns, procs, cand, crashes, resets>>
           /\ \E k \in DOMAIN mem.nodes :
              \E r \in rewinds :
                 /\ mem.nodes[k].status = "completed"
                 /\ KindOf(mem.nodes[k].id) = "diagnose"
                 /\ r[1] = mem.nodes[k].id
                 /\ rewinds' = rewinds \ {r}
                 /\ DOMAIN mem'.nodes = DOMAIN mem.nodes
                 /\ \A i \in DOMAIN mem.nodes :
                       \/ mem'.nodes[i] = mem.nodes[i]
                       \/ /\ mem.nodes[i].id = r[2] \/ ~IsMeta(mem.nodes[i].id)
                          /\ \E status \in {"pending", "stale"} :
                                Later(mem.nodes[i], mem'.nodes[i], status, 0)
<1> DEFINE k == FirstOf(ToRewind)
<1>1. k \in ToRewind /\ k \in DOMAIN mem.nodes
  <2>1. ToRewind \in SUBSET DOMAIN mem.nodes /\ ToRewind # {}
    BY DEF RewindNode, ToRewind
  <2> QED
    BY <2>1, Memory, FirstInDomain
<1>2. mem.nodes[k].status = "completed" /\ KindOf(mem.nodes[k].id) = "diagnose"
  BY <1>1 DEF ToRewind
<1>3. PICK r \in RewindsOf(mem.nodes[k]) :
         /\ mem' = [mem EXCEPT !.nodes = Rewound(mem.nodes, r[2])]
         /\ rewinds' = rewinds \ {r}
  BY DEF RewindNode
<1> HIDE DEF k
<1>4. r \in rewinds /\ r[1] = mem.nodes[k].id
  BY DEF RewindsOf
<1>5. mem'.nodes = Rewound(mem.nodes, r[2]) /\ mem'.phase = mem.phase
  BY <1>3, Memory DEF Manifest
<1>6. \A id \in StaleIds(mem.nodes, r[2]) : ~IsMeta(id)
  BY DEF StaleIds
<1>7. /\ DOMAIN mem'.nodes = DOMAIN mem.nodes
      /\ \A i \in DOMAIN mem.nodes :
            mem'.nodes[i] =
              IF mem.nodes[i].id = r[2]
                THEN [mem.nodes[i] EXCEPT !.status = "pending", !.pid = NoPid]
              ELSE IF mem.nodes[i].id \in StaleIds(mem.nodes, r[2])
                THEN [mem.nodes[i] EXCEPT !.status = "stale", !.pid = NoPid]
              ELSE mem.nodes[i]
  BY <1>5 DEF Rewound
<1>8. \A i \in DOMAIN mem.nodes :
         \/ mem'.nodes[i] = mem.nodes[i]
         \/ /\ mem.nodes[i].id = r[2] \/ ~IsMeta(mem.nodes[i].id)
            /\ \E status \in {"pending", "stale"} :
                  Later(mem.nodes[i], mem'.nodes[i], status, 0)
  <2>1. \A e \in Entry : \A status \in {"pending", "stale"} :
           Later(e, [e EXCEPT !.status = status, !.pid = NoPid], status, 0)
    BY DEF Entry, Later, Same
  <2> QED
    BY <1>6, <1>7, <2>1, Memory
<1>9. /\ pc = "rewind" /\ pc' = "rewind" /\ cand = {}
      /\ UNCHANGED <<disk, index, plan, spawns, procs, cand, crashes, resets>>
  BY DEF RewindNode, bounds, TypeInv, PcInv
<1> QED
  BY <1>1, <1>2, <1>3, <1>4, <1>5, <1>7, <1>8, <1>9

LEMMA SpawnNodeEffect ==
    ASSUME TypeInv, SpawnNode
    PROVE  /\ pc = "spawn" /\ pc' = "spawn" /\ cand = {}
           /\ mem'.phase = mem.phase
           /\ UNCHANGED <<disk, index, plan, arts, dirty, rewinds, procs,
                          cand, crashes, resets>>
           /\ \E i \in ToSpawn :
                 /\ i \in DOMAIN mem.nodes /\ cursor' = i + 1
                 /\ \A k \in ToSpawn : i <= k
                 /\ spawns' = spawns \ {mem.nodes[i].id}
                 /\ mem'.nodes = mem.nodes \o SpawnedEntries(mem.nodes, mem.nodes[i])
<1> DEFINE i == FirstOf(ToSpawn)
<1>1. /\ i \in ToSpawn /\ i \in DOMAIN mem.nodes
      /\ \A k \in ToSpawn : i <= k
  <2>1. ToSpawn \in SUBSET DOMAIN mem.nodes /\ ToSpawn # {}
    BY DEF SpawnNode, ToSpawn
  <2>2. ToSpawn \in SUBSET Nat
    BY <2>1, Memory
  <2> QED
    BY <2>1, <2>2, Memory, FirstInDomain, FirstOfType
<1>2. /\ mem' = [mem EXCEPT !.nodes =
                    mem.nodes \o SpawnedEntries(mem.nodes, mem.nodes[i])]
      /\ cursor' = i + 1
      /\ spawns' = spawns \ {mem.nodes[i].id}
  BY DEF SpawnNode
<1> HIDE DEF i
<1>3. /\ mem'.nodes = mem.nodes \o SpawnedEntries(mem.nodes, mem.nodes[i])
      /\ mem'.phase = mem.phase
  BY <1>2, Memory DEF Manifest
<1>4. /\ pc = "spawn" /\ pc' = "spawn" /\ cand = {}
      /\ UNCHANGED <<disk, index, plan, arts, dirty, rewinds, procs,
                     cand, crashes, resets>>
  BY DEF SpawnNode, bounds, TypeInv, PcInv
<1> QED
  BY <1>1, <1>2, <1>3, <1>4

(* Only the disk is read: what memory held is gone, no entry is selected. *)
Reread == /\ mem' = disk /\ disk' = disk /\ pc' \in {"idle", "reconcile"}
          /\ cand' = {}
          /\ UNCHANGED <<plan, arts, dirty, spawns, rewinds, resets>>

LEMMA RereadEffect ==
    ASSUME TypeInv,
           \/ StartCycle \/ RouteAwaiting \/ DispatchAborts \/ Crash
           \/ \E at, status : SyncIndex(at, status)
    PROVE  Reread
  BY DEF StartCycle, RouteAwaiting, DispatchAborts, Crash, SyncIndex, Return,
         files, bounds, Reread

LEMMA RouteEffect ==
    ASSUME TypeInv, Route
    PROVE  /\ pc = "spawn" /\ cand = {} /\ ToSpawn = {}
           /\ mem.phase # "awaiting_confirm"
           /\ UNCHANGED <<files, procs, mem, cursor, crashes, resets>>
           /\ \/ /\ pc' = "complete" /\ cand' = {}
                 /\ mem.nodes # <<>> /\ AllCompleted(mem.nodes)
              \/ pc' = "dispatch" /\ cand' = Selected(mem.nodes)
              \/ pc' = "failed" /\ cand' = {} /\ Exhausted(mem.nodes) # {}
              \/ pc' = "blocked" /\ cand' = {}
           /\ pc' # "complete" => mem.nodes = <<>> \/ ~AllCompleted(mem.nodes)
<1> DEFINE S == Selected(mem.nodes)
           done == mem.nodes # <<>> /\ AllCompleted(mem.nodes)
           lost == Running(mem.nodes) = {} /\ Exhausted(mem.nodes) # {}
<1>1. /\ cand' = IF done THEN {} ELSE S
      /\ pc' = CASE done             -> "complete"
                 [] ~done /\ S # {} -> "dispatch"
                 [] ~done /\ S = {} -> IF lost THEN "failed" ELSE "blocked"
      /\ UNCHANGED <<files, procs, mem, cursor, crashes, resets>>
      /\ pc = "spawn" /\ cand = {} /\ ToSpawn = {} /\ mem.phase # "awaiting_confirm"
  BY DEF Route, Routing, bounds, TypeInv, PcInv
<1> HIDE DEF S, done, lost
<1>2. CASE done
  BY <1>1, <1>2 DEF done
<1>3. CASE ~done /\ S # {}
  <2>1. pc' = "dispatch" /\ cand' = S
    BY <1>1, <1>3
  <2> QED
    BY <1>1, <1>3, <2>1 DEF done, S
<1>4. CASE ~done /\ S = {}
  <2>1. pc' = (IF lost THEN "failed" ELSE "blocked") /\ cand' = {}
    BY <1>1, <1>4
  <2>2. CASE lost
    BY <1>1, <1>4, <2>1, <2>2 DEF done, lost
  <2>3. CASE ~lost
    BY <1>1, <1>4, <2>1, <2>3 DEF done
  <2> QED
    BY <2>2, <2>3
<1> QED
  BY <1>2, <1>3, <1>4

(* Entry i is e now, and nothing else changed. *)
Becomes(a, b, i, e) ==
    /\ DOMAIN b = DOMAIN a
    /\ b[i] = e
    /\ \A j \in DOMAIN a : j # i => b[j] = a[j]

LEMMA LaunchExecutorEffect ==
    ASSUME TypeInv, LaunchExecutor
    PROVE  /\ pc = "dispatch" /\ pc' = "launched" /\ mem'.phase = mem.phase
           /\ Candidate \in cand /\ Candidate \in DOMAIN mem.nodes
           /\ mem.nodes[Candidate].mode = "none"
           /\ UNCHANGED <<disk, index, plan, arts, dirty, spawns, rewinds,
                          cursor, cand, crashes, resets>>
           /\ Launches(mem.nodes[Candidate].id) + 1 \in Nat \ {0}
           /\ procs' = Reaped(procs) \cup
                  {[node |-> mem.nodes[Candidate].id,
                    run |-> Launches(mem.nodes[Candidate].id) + 1,
                    state |-> "live", child |-> TRUE]}
           /\ \E e \in Entry :
                 /\ Later(mem.nodes[Candidate], e, "running", 1)
                 /\ e.pid = Launches(mem.nodes[Candidate].id) + 1
                 /\ Becomes(mem.nodes, mem'.nodes, Candidate, e)
<1> DEFINE c == Candidate
           e == mem.nodes[c]
           run == Launches(e.id) + 1
           n == e.attempt_count + 1
           e2 == [Started(e) EXCEPT !.pid = run]
           ns == [mem.nodes EXCEPT ![c] = e2]
<1>1. /\ cand # {} /\ pc = "dispatch" /\ pc' = "launched" /\ e.mode = "none"
      /\ UNCHANGED <<disk, index, plan, arts, dirty, spawns, rewinds,
                     cursor, cand, crashes, resets>>
      /\ procs' = Reaped(procs) \cup
            {[node |-> e.id, run |-> run, state |-> "live", child |-> TRUE]}
  BY DEF LaunchExecutor, Dispatching, files, bounds
<1>2. c \in cand /\ c \in DOMAIN mem.nodes /\ e \in Entry
  BY <1>1, CandidateType
<1>3. run \in Nat \ {0}
  <2>1. Launches(e.id) \in Nat
    BY LaunchesType
  <2> QED
    BY <2>1
<1>4. mem' = [mem EXCEPT !.nodes = ns]
  BY <1>1, <1>2, Memory DEF LaunchExecutor, Manifest
<1>5. mem'.nodes = ns /\ mem'.phase = mem.phase
  <2> HIDE DEF ns
  <2> QED
    BY <1>4, Memory DEF Manifest
<1>6. e2 = [e EXCEPT !.status = "running", !.attempt_count = n, !.pid = run]
  <2> HIDE DEF run, n
  <2>1. Started(e) = [e EXCEPT !.status = "running", !.attempt_count = n]
    BY DEF Started, n
  <2> QED
    BY <1>2, <2>1 DEF Entry
<1>7. Becomes(mem.nodes, ns, c, e2)
  BY <1>2, Memory DEF Becomes
<1>8. e2 \in Entry /\ Later(e, e2, "running", 1) /\ e2.pid = run
  <2>1. n \in Nat /\ n = e.attempt_count + 1 /\ "running" \in NodeStatuses
    BY <1>2 DEF Entry, NodeStatuses
  <2> HIDE DEF n, run, e2, e
  <2>5. /\ e2 \in Entry /\ Same(e, e2) /\ e2.def = e.def
        /\ e2.status = "running" /\ e2.attempt_count = n /\ e2.pid = run
    BY <1>2, <1>3, <1>6, <2>1 DEF Entry, NodeStatuses, Same
  <2> QED
    BY <2>1, <2>5 DEF Later
<1> HIDE DEF e2, ns
<1> QED
  BY <1>1, <1>2, <1>3, <1>5, <1>7, <1>8

LEMMA ExecutorNotFoundEffect ==
    ASSUME TypeInv, ExecutorNotFound
    PROVE  /\ pc = "dispatch" /\ pc' = "launched" /\ mem'.phase = mem.phase
           /\ Candidate \in cand /\ Candidate \in DOMAIN mem.nodes
           /\ mem.nodes[Candidate].mode = "none"
           /\ procs' = Reaped(procs)
           /\ UNCHANGED <<disk, index, plan, arts, dirty, spawns, rewinds,
                          cursor, cand, crashes, resets>>
           /\ \E e \in Entry :
                 /\ Later(mem.nodes[Candidate], e, "failed", 1) /\ e.pid = NoPid
                 /\ SettledAt(mem.nodes, mem'.nodes, Candidate, e)
<1> DEFINE c == Candidate
           e == mem.nodes[c]
           n == e.attempt_count + 1
           e2 == [Started(e) EXCEPT !.status = "failed", !.pid = NoPid]
           ns == Settle(mem.nodes, c, e2)
<1>1. /\ cand # {} /\ pc = "dispatch" /\ pc' = "launched" /\ e.mode = "none"
      /\ UNCHANGED <<disk, index, plan, arts, dirty, spawns, rewinds,
                     cursor, cand, crashes, resets>>
      /\ procs' = Reaped(procs) /\ mem' = [mem EXCEPT !.nodes = ns]
  BY DEF ExecutorNotFound, Dispatching, files, bounds
<1>2. c \in cand /\ c \in DOMAIN mem.nodes /\ e \in Entry
  BY <1>1, CandidateType
<1>3. e2 = [e EXCEPT !.status = "failed", !.attempt_count = n, !.pid = NoPid]
  <2> HIDE DEF n
  <2>1. Started(e) = [e EXCEPT !.status = "running", !.attempt_count = n]
    BY DEF Started, n
  <2> QED
    BY <1>2, <2>1 DEF Entry
<1>4. /\ e2 \in Entry /\ e2.id = e.id
      /\ Later(e, e2, "failed", 1) /\ e2.pid = NoPid
  <2>1. /\ n \in Nat /\ n = e.attempt_count + 1 /\ NoPid \in Nat
        /\ "failed" \in NodeStatuses
    BY <1>2 DEF Entry, NoPid, NodeStatuses
  <2> HIDE DEF n, e2, e
  <2>5. /\ e2 \in Entry /\ Same(e, e2) /\ e2.def = e.def
        /\ e2.status = "failed" /\ e2.attempt_count = n /\ e2.pid = NoPid
    BY <1>2, <1>3, <2>1 DEF Entry, NodeStatuses, Same
  <2> QED
    BY <2>1, <2>5 DEF Later, Same
<1>5. SettledAt(mem.nodes, ns, c, e2)
  <2> HIDE DEF e2
  <2> QED
    BY <1>2, <1>4, Memory, SettleAdds
<1>6. mem'.nodes = ns /\ mem'.phase = mem.phase
  <2> HIDE DEF ns
  <2> QED
    BY <1>1, Memory DEF Manifest
<1> HIDE DEF e2, ns
<1> QED
  BY <1>1, <1>2, <1>4, <1>5, <1>6

LEMMA StartSyncEffect ==
    ASSUME TypeInv, StartSync
    PROVE  /\ pc = "dispatch" /\ pc' = "sync"
           /\ mem'.phase = mem.phase /\ disk' = mem'
           /\ Candidate \in cand /\ Candidate \in DOMAIN mem.nodes
           /\ mem.nodes[Candidate].mode \in {"planning", "discovery"}
           /\ cursor' = Candidate /\ cand' = cand \ {Candidate}
           /\ procs' \in {procs, Reaped(procs)}
           /\ UNCHANGED <<index, plan, arts, dirty, spawns, rewinds, crashes, resets>>
           /\ \E e \in Entry :
                 /\ Later(mem.nodes[Candidate], e, "running", 1)
                 /\ e.pid = mem.nodes[Candidate].pid
                 /\ Becomes(mem.nodes, mem'.nodes, Candidate, e)
<1> DEFINE c == Candidate
           e == mem.nodes[c]
           ns == [mem.nodes EXCEPT ![c] = Started(e)]
<1>1. /\ cand # {} /\ pc = "dispatch" /\ pc' = "sync"
      /\ e.mode \in {"planning", "discovery"}
      /\ cursor' = c /\ cand' = cand \ {c} /\ disk' = mem'
      /\ procs' \in {procs, Reaped(procs)}
      /\ UNCHANGED <<index, plan, arts, dirty, spawns, rewinds, crashes, resets>>
  BY DEF StartSync, Dispatching, bounds
<1>2. c \in cand /\ c \in DOMAIN mem.nodes /\ e \in Entry
  BY <1>1, CandidateType
<1>3. mem' = [mem EXCEPT !.nodes = ns]
  BY <1>1, <1>2, Memory DEF StartSync, Manifest
<1>4. mem'.nodes = ns /\ mem'.phase = mem.phase
  <2> HIDE DEF ns
  <2> QED
    BY <1>3, Memory DEF Manifest
<1>5. Becomes(mem.nodes, ns, c, Started(e))
  BY <1>2, Memory DEF Becomes
<1>6. /\ Started(e) \in Entry /\ Later(e, Started(e), "running", 1)
      /\ Started(e).pid = e.pid
  <2> DEFINE n == e.attempt_count + 1
  <2>1. n \in Nat /\ n = e.attempt_count + 1 /\ "running" \in NodeStatuses
    BY <1>2 DEF Entry, NodeStatuses
  <2>2. Started(e) = [e EXCEPT !.status = "running", !.attempt_count = n]
    BY DEF Started
  <2> HIDE DEF n, e
  <2>3. Started(e) = [e EXCEPT !.status = "running", !.attempt_count = n, !.pid = e.pid]
    BY <1>2, <2>2 DEF Entry
  <2>4. e.pid \in Nat
    BY <1>2 DEF Entry
  <2>5. /\ Started(e) \in Entry /\ Same(e, Started(e)) /\ Started(e).def = e.def
        /\ Started(e).status = "running" /\ Started(e).attempt_count = n /\ Started(e).pid = e.pid
    BY <1>2, <2>1, <2>3, <2>4 DEF Entry, NodeStatuses, Same
  <2> QED
    BY <2>1, <2>5 DEF Later
<1> HIDE DEF ns
<1> QED
  BY <1>1, <1>2, <1>4, <1>5, <1>6
LEMMA SyncReturnsEffect ==
    ASSUME TypeInv, NEW ok \in BOOLEAN, SyncReturns(ok)
    PROVE  /\ pc = "sync" /\ cursor \in DOMAIN mem.nodes \ cand
           /\ UNCHANGED <<index, plan, arts, dirty, spawns, rewinds, procs,
                          crashes, resets>>
           /\ \E e \in Entry, status \in {"completed", "failed"} :
                 /\ Later(mem.nodes[cursor], e, status, 0)
                 /\ e.pid = mem.nodes[cursor].pid
                 /\ SettledAt(mem.nodes, mem'.nodes, cursor, e)
                 /\ \/ /\ pc' = "dispatch" /\ cand' = cand /\ disk' = disk
                       /\ mem'.phase = mem.phase
                    \/ /\ pc' = "dispatch" /\ cand' = cand /\ disk' = disk
                       /\ mem'.phase = "awaiting_confirm"
                       /\ e.mode = "planning" /\ status = "completed"
                    \/ /\ pc' = "indexFailed" /\ cand' = {} /\ disk' = mem'
                       /\ mem'.phase = "failed"
                       /\ e.attempt_count >= MAX_ATTEMPTS /\ status = "failed"
<1> DEFINE e == mem.nodes[cursor]
           success == ok /\ (e.mode = "planning" => plan # NoPlan)
           status == IF success THEN "completed" ELSE "failed"
           e2 == [e EXCEPT !.status = status]
           ns == Settle(mem.nodes, cursor, e2)
           phase == IF success /\ e.mode = "planning"
                      THEN "awaiting_confirm" ELSE mem.phase
           settled == [mem EXCEPT !.nodes = ns, !.phase = phase]
           exhausted == ~success /\ e.attempt_count >= MAX_ATTEMPTS
           failed == [settled EXCEPT !.phase = "failed"]
<1>1. /\ pc = "sync" /\ cursor \in DOMAIN mem.nodes \ cand
      /\ UNCHANGED <<index, plan, arts, dirty, spawns, rewinds, procs, crashes, resets>>
  BY DEF SyncReturns, bounds, TypeInv, PcInv
<1>2. /\ mem' = IF exhausted THEN failed ELSE settled
      /\ disk' = IF exhausted THEN failed ELSE disk
      /\ pc' = IF exhausted THEN "indexFailed" ELSE "dispatch"
      /\ cand' = IF exhausted THEN {} ELSE cand
  BY DEF SyncReturns
<1>3. e \in Entry /\ status \in {"completed", "failed"}
  BY <1>1, Memory
<1>4. /\ SettledAt(mem.nodes, ns, cursor, e2)
      /\ e2 \in Entry /\ Later(e, e2, status, 0) /\ e2.pid = e.pid
      /\ e2.mode = e.mode /\ e2.attempt_count = e.attempt_count
  <2>1. e2 \in Entry /\ Later(e, e2, status, 0) /\ e2.pid = e.pid
        /\ e2.mode = e.mode /\ e2.attempt_count = e.attempt_count
    <3> HIDE DEF status
    <3> QED
      BY <1>3 DEF Entry, NodeStatuses, Later, Same
  <2> HIDE DEF e2
  <2> QED
    BY <1>1, <2>1, Memory, SettleAdds DEF Later, Same
<1>5. /\ settled.nodes = ns /\ settled.phase = phase
      /\ failed.nodes = ns /\ failed.phase = "failed"
  <2> HIDE DEF ns, phase
  <2> QED
    BY Memory DEF Manifest
<1>6. success => status = "completed"
  OBVIOUS
<1>7. ~success => status = "failed"
  OBVIOUS
<1>8. success /\ e.mode = "planning" => phase = "awaiting_confirm"
  OBVIOUS
<1>9. ~(success /\ e.mode = "planning") => phase = mem.phase
  OBVIOUS
<1>10. exhausted => ~success /\ e.attempt_count >= MAX_ATTEMPTS
  OBVIOUS
<1> HIDE DEF ns, phase, status, exhausted, settled, failed, success, e2
<1>11. CASE exhausted
  BY <1>1, <1>2, <1>3, <1>4, <1>5, <1>7, <1>10, <1>11
<1>12. CASE ~exhausted /\ success /\ e.mode = "planning"
  BY <1>1, <1>2, <1>3, <1>4, <1>5, <1>6, <1>8, <1>12
<1>13. CASE ~exhausted /\ ~(success /\ e.mode = "planning")
  BY <1>1, <1>2, <1>3, <1>4, <1>5, <1>9, <1>13
<1> QED
  BY <1>11, <1>12, <1>13

LEMMA FinalizeEffect ==
    ASSUME TypeInv, NEW phase \in {"complete", "failed"}, NEW next,
           Finalize(phase, next)
    PROVE  /\ pc = phase /\ pc' = next /\ disk' = mem'
           /\ mem'.phase = phase /\ mem'.nodes = mem.nodes
           /\ cand = {} /\ cand' = {}
           /\ UNCHANGED <<index, plan, arts, dirty, spawns, rewinds, procs,
                          crashes, resets>>
  BY Memory DEF Finalize, WriteManifest, bounds, Manifest, TypeInv, PcInv

LEMMA ReopenEffect ==
    ASSUME TypeInv, ReopenWorkflow
    PROVE  /\ pc = "reset" /\ pc' = "indexActive" /\ disk' = mem'
           /\ mem'.phase = "running" /\ mem'.nodes = mem.nodes
           /\ cand = {} /\ cand' = {}
           /\ UNCHANGED <<index, plan, arts, dirty, spawns, rewinds, procs,
                          crashes, resets>>
  BY Memory DEF ReopenWorkflow, WriteManifest, bounds, Manifest, TypeInv, PcInv

(* The manifest in memory is written as it is. *)
LEMMA WriteEffect ==
    ASSUME TypeInv, WriteLaunched \/ Persist \/ WriteConfirmed
    PROVE  /\ disk' = mem /\ mem' = mem /\ pc' \in {"idle", "dispatch"}
           /\ UNCHANGED <<index, plan, arts, dirty, spawns, rewinds, crashes, resets>>
  BY DEF WriteLaunched, Persist, WriteConfirmed, WriteManifest, Return, bounds

LEMMA PlanType ==
    ASSUME TypeInv, plan # NoPlan
    PROVE  /\ plan.nodes \in Plans /\ plan.nodes \in Seq(NodeDef)
           /\ \A k \in DOMAIN plan.nodes : plan.nodes[k] \in NodeDef
<1>1. plan.nodes \in Plans /\ plan.nodes \in Seq(NodeDef)
  BY InputsAssumption DEF TypeInv, TypeOK
<1> QED
  BY <1>1, ElementOfSeq, LenProperties

LEMMA ConfirmEffect ==
    ASSUME TypeInv, NEW answer, Confirm(answer)
    PROVE  /\ pc = "idle" /\ pc' = "confirm" /\ disk.phase = "awaiting_confirm"
           /\ cand = {} /\ plan # NoPlan /\ plan' = NoPlan
           /\ UNCHANGED <<disk, index, arts, dirty, spawns, rewinds, procs,
                          cand, crashes, resets>>
           /\ \/ /\ mem'.phase = "running"
                 /\ mem'.nodes = disk.nodes \o [k \in DOMAIN plan.nodes |->
                                       EntryOf(plan.nodes[k], {}, {})]
              \/ /\ mem'.phase = "planning"
                 /\ DOMAIN mem'.nodes = DOMAIN disk.nodes
                 /\ \A i \in DOMAIN disk.nodes :
                       /\ Same(disk.nodes[i], mem'.nodes[i])
                       /\ mem'.nodes[i].status =
                            IF disk.nodes[i].id = NamedId(Planner)
                              THEN "pending" ELSE disk.nodes[i].status
                       /\ mem'.nodes[i].attempt_count = disk.nodes[i].attempt_count
                       /\ mem'.nodes[i].pid = disk.nodes[i].pid
<1>1. /\ pc = "idle" /\ pc' = "confirm" /\ disk.phase = "awaiting_confirm"
      /\ cand = {} /\ plan # NoPlan /\ plan' = NoPlan
      /\ UNCHANGED <<disk, index, arts, dirty, spawns, rewinds, procs,
                     cand, crashes, resets>>
      /\ mem' = Accepted(disk) \/ mem' = Rejected(disk)
  BY DEF Confirm, bounds, TypeInv, PcInv
<1>2. CASE mem' = Accepted(disk)
  BY <1>1, <1>2 DEF Accepted
<1>3. CASE mem' = Rejected(disk)
  <2> DEFINE names == {NamedId(x) : x \in {plan.nodes[k].name : k \in DOMAIN plan.nodes}}
             def(i) == disk.nodes[i].def /\ disk.nodes[i].id \notin names
  <2>1. /\ mem'.phase = "planning"
        /\ DOMAIN mem'.nodes = DOMAIN disk.nodes
        /\ \A i \in DOMAIN disk.nodes :
              mem'.nodes[i] = [disk.nodes[i] EXCEPT !.def = def(i),
                 !.status = IF disk.nodes[i].id = NamedId(Planner)
                              THEN "pending" ELSE disk.nodes[i].status]
    BY <1>3 DEF Rejected
  <2> HIDE DEF def
  <2>2. \A i \in DOMAIN disk.nodes :
           /\ Same(disk.nodes[i], mem'.nodes[i])
           /\ mem'.nodes[i].status = IF disk.nodes[i].id = NamedId(Planner)
                                       THEN "pending" ELSE disk.nodes[i].status
           /\ mem'.nodes[i].attempt_count = disk.nodes[i].attempt_count
           /\ mem'.nodes[i].pid = disk.nodes[i].pid
    BY <2>1, Memory DEF Entry, Same
  <2> QED
    BY <1>1, <2>1, <2>2
<1> QED
  BY <1>1, <1>2, <1>3

LEMMA ResetNodeEffect ==
    ASSUME TypeInv, NEW i, ResetNode(i)
    PROVE  /\ pc = "idle" /\ i \in DOMAIN disk.nodes
           /\ disk' = mem' /\ mem'.phase = disk.phase
           /\ pc' = IF disk.phase = "failed" THEN "reset" ELSE "idle"
           /\ cand = {} /\ cand' = {} /\ resets < MaxResets /\ resets' = resets + 1
           /\ UNCHANGED <<index, plan, arts, dirty, spawns, rewinds, procs, crashes>>
           /\ \E e \in Entry :
                 /\ Later(disk.nodes[i], e, "pending", 0)
                 /\ Becomes(disk.nodes, mem'.nodes, i, e)
<1> DEFINE e == disk.nodes[i]
           pid == IF Repl THEN e.pid ELSE NoPid
           e2 == [e EXCEPT !.status = "pending", !.pid = pid]
           ns == [disk.nodes EXCEPT ![i] = e2]
<1>1. /\ pc = "idle" /\ i \in DOMAIN disk.nodes
      /\ pc' = IF disk.phase = "failed" THEN "reset" ELSE "idle"
      /\ cand = {} /\ cand' = {} /\ resets < MaxResets /\ resets' = resets + 1
      /\ UNCHANGED <<index, plan, arts, dirty, spawns, rewinds, procs, crashes>>
      /\ disk' = mem'
  BY DEF ResetNode, TypeInv, PcInv
<1>2. mem' = [disk EXCEPT !.nodes = ns]
  BY <1>1, Memory DEF ResetNode, Manifest
<1>3. mem'.nodes = ns /\ mem'.phase = disk.phase
  <2> HIDE DEF ns
  <2> QED
    BY <1>2, Memory DEF Manifest
<1>4. e2 \in Entry /\ Later(e, e2, "pending", 0)
  <2> DEFINE n == e.attempt_count
  <2>1. e \in Entry /\ pid \in Nat /\ "pending" \in NodeStatuses
        /\ n \in Nat /\ n = e.attempt_count + 0
    BY <1>1, Memory DEF Entry, NoPid, NodeStatuses
  <2>2. e2 = [e EXCEPT !.status = "pending", !.attempt_count = n, !.pid = pid]
    <3> HIDE DEF pid
    <3> QED
      BY <2>1 DEF Entry
  <2> HIDE DEF pid, n, e2, e
  <2>5. /\ e2 \in Entry /\ Same(e, e2) /\ e2.def = e.def
        /\ e2.status = "pending" /\ e2.attempt_count = n /\ e2.pid = pid
    BY <2>1, <2>2 DEF Entry, NodeStatuses, Same
  <2> QED
    BY <2>1, <2>5 DEF Later
<1>5. Becomes(disk.nodes, ns, i, e2)
  <2> HIDE DEF pid
  <2> QED
    BY <1>1, Memory DEF Becomes
<1> HIDE DEF e2, ns
<1> QED
  BY <1>1, <1>3, <1>4, <1>5

(* Executors and the foreground run write their files, the user leaves the *)
(* REPL, the engine finds no rewind left: no manifest changes.             *)
Silent == UNCHANGED <<disk, mem, cand, resets>> /\ (UNCHANGED <<pc, cursor>> \/ RewindsDone)

(* The actions, with those put together that treat the manifest alike. *)
LEMMA StepCases ==
    ASSUME TypeInv, [Next]_vars
    PROVE  \/ ReconcileNode \/ ResolveParents \/ RewindNode \/ SpawnNode \/ Route
           \/ LaunchExecutor \/ ExecutorNotFound \/ StartSync
           \/ \E ok \in BOOLEAN : SyncReturns(ok)
           \/ Finalize("complete", "indexComplete") \/ Finalize("failed", "indexFailed")
           \/ \E answer \in {"y", "n"} : Confirm(answer)
           \/ \E i \in DOMAIN disk.nodes : ResetNode(i)
           \/ ReopenWorkflow
           \/ WriteLaunched \/ Persist \/ WriteConfirmed
           \/ Reread
           \/ Silent
<1>1. PlannerWrites \/ SyncSpawns \/ Executors \/ QuitRepl \/ RewindsDone \/ UNCHANGED vars
         => Silent
  BY DEF PlannerWrites, SyncSpawns, Executors, ExecutorExits, QuitRepl, RewindsDone,
         vars, files, bounds, Silent
<1>2. /\ StartCycle \/ RouteAwaiting \/ DispatchAborts \/ Crash => Reread
      /\ \A at, status : SyncIndex(at, status) => Reread
  BY RereadEffect
<1>3. CASE Reconcile \/ Dispatch \/ Finish
  BY <1>1, <1>2, <1>3 DEF Reconcile, Dispatch, Finish
<1>4. CASE \/ RouteAwaiting \/ Route \/ WriteConfirmed \/ ReopenWorkflow
           \/ SyncIndex("indexActive", "active")
  BY <1>2, <1>4
<1>5. CASE User
  BY <1>5 DEF User
<1>6. CASE \/ StartCycle \/ PlannerWrites \/ SyncSpawns \/ Executors \/ Crash \/ QuitRepl
           \/ UNCHANGED vars
  BY <1>1, <1>2, <1>6
<1> QED
  BY <1>3, <1>4, <1>5, <1>6 DEF Next, EngineStep
-----------------------------------------------------------------------------
(* Where an entry comes from: what no step changes in it was so when it    *)
(* was added.                                                              *)

PlanDefs == UNION {{p[k] : k \in DOMAIN p} : p \in Plans}
SpawnDefs == UNION {{SpawnOf[n][k] : k \in DOMAIN SpawnOf[n]} : n \in NodeName}
Definitions == PlanDefs \cup SpawnDefs

(* Whose spawn.json may define d. *)
Spawners(d) == {n \in NodeName : \E k \in DOMAIN SpawnOf[n] : SpawnOf[n][k] = d}

DefinedBy(e, d) ==
    /\ e.id = NamedId(d.name) /\ e.mode = d.mode /\ e.strategy = d.strategy
    /\ \A x \in e.depends_on : x.base \in d.depends_on \cup Spawners(d)

Made(e) ==
    \/ \E kind \in MetaKinds, f \in Entry :
          e = MetaEntry(kind, f) /\ \E j \in DOMAIN mem.nodes : Same(mem.nodes[j], f)
    \/ New(e) /\ \E d \in Definitions : DefinedBy(e, d)

LEMMA SpawnedDefined ==
    ASSUME NEW ns, NEW e \in Entry, NEW k \in DOMAIN SpawnedEntries(ns, e)
    PROVE  /\ New(SpawnedEntries(ns, e)[k])
           /\ \E d \in SpawnDefs : DefinedBy(SpawnedEntries(ns, e)[k], d)
<1> DEFINE defs == SpawnOf[e.id.base]
           fresh == {m \in DOMAIN defs : NamedId(defs[m].name) \notin Ids(ns)}
           n == Cardinality(fresh)
           d == defs[Nth(fresh, k)]
<1>1. defs \in Seq(NodeDef) /\ e.id.base \in NodeName
  BY InputsAssumption DEF Entry, Id
<1>2. Len(defs) \in Nat /\ DOMAIN defs = 1 .. Len(defs)
  BY <1>1, LenProperties
<1>3. /\ SpawnedEntries(ns, e) =
            [m \in 1 .. n |-> EntryOf(defs[Nth(fresh, m)], {e.id}, {e.id})]
  BY DEF SpawnedEntries
<1>4. k \in 1 .. n /\ fresh \in SUBSET (1 .. Len(defs))
  BY <1>2, <1>3
<1>5. Nth(fresh, k) \in DOMAIN defs
  BY <1>2, <1>4, NthType
<1>6. d \in SpawnDefs
  <2>1. \E n1 \in NodeName : \E k1 \in DOMAIN SpawnOf[n1] : d = SpawnOf[n1][k1]
    BY <1>1, <1>5
  <2> HIDE DEF d
  <2> QED
    BY <2>1 DEF SpawnDefs
<1>7. SpawnedEntries(ns, e)[k] = EntryOf(d, {e.id}, {e.id})
  BY <1>3, <1>4
<1>8. e.id.base \in Spawners(d)
  BY <1>1, <1>5 DEF Spawners
<1> HIDE DEF d
<1>9. DefinedBy(EntryOf(d, {e.id}, {e.id}), d)
  BY <1>8 DEF DefinedBy, EntryOf, NamedId
<1> QED
  BY <1>6, <1>7, <1>9, SpawnedShape

LEMMA PlannedDefined ==
    ASSUME TypeInv, plan # NoPlan, NEW k \in DOMAIN plan.nodes
    PROVE  /\ New(EntryOf(plan.nodes[k], {}, {}))
           /\ \E d \in PlanDefs : DefinedBy(EntryOf(plan.nodes[k], {}, {}), d)
<1>1. plan.nodes[k] \in PlanDefs
  BY PlanType DEF PlanDefs
<1> DEFINE d == plan.nodes[k]
<1> HIDE DEF d
<1>2. New(EntryOf(d, {}, {})) /\ DefinedBy(EntryOf(d, {}, {}), d)
  BY DEF New, EntryOf, NamedId, DefinedBy
<1> QED
  BY <1>1, <1>2 DEF d

LEMMA SettledMade ==
    ASSUME NEW a \in Seq(Entry), a = mem.nodes, NEW b, NEW i \in DOMAIN a,
           NEW e \in Entry, Same(a[i], e), SettledAt(a, b, i, e)
    PROVE  \A j \in DOMAIN b : (j \in DOMAIN a /\ Same(a[j], b[j])) \/ Made(b[j])
<1>1. Same(a[i], Audited(e)) /\ Audited(e) \in Entry
  BY AuditedLater DEF Same
<1>2. \A j \in DOMAIN b \ DOMAIN a : Made(b[j])
  BY <1>1 DEF SettledAt, Made, ChildKinds
<1>3. \A j \in DOMAIN a : Same(a[j], b[j])
  BY <1>1 DEF SettledAt, Same
<1> QED
  BY <1>2, <1>3

LEMMA Provenance ==
    ASSUME TypeInv, [Next]_vars
    PROVE  /\ disk' \in {disk, mem, mem'}
           /\ \A j \in DOMAIN mem'.nodes :
                 \/ j \in DOMAIN mem.nodes /\ Same(mem.nodes[j], mem'.nodes[j])
                 \/ j \in DOMAIN disk.nodes /\ Same(disk.nodes[j], mem'.nodes[j])
                 \/ Made(mem'.nodes[j])
<1> DEFINE d == disk.nodes
           a == mem.nodes
           b == mem'.nodes
           From(old) == \A j \in DOMAIN b :
                           (j \in DOMAIN old /\ Same(old[j], b[j])) \/ Made(b[j])
           Goal == /\ disk' \in {disk, mem, mem'}
                   /\ \A j \in DOMAIN b :
                         \/ j \in DOMAIN a /\ Same(a[j], b[j])
                         \/ j \in DOMAIN d /\ Same(d[j], b[j])
                         \/ Made(b[j])
<1> SUFFICES Goal
  OBVIOUS
<1>1. /\ a \in Seq(Entry) /\ d \in Seq(Entry)
      /\ \A i \in DOMAIN a : a[i] \in Entry
      /\ \A e : Same(e, e)
      /\ a = mem.nodes
  BY Memory DEF Same
<1>2. ASSUME From(a) \/ From(d), disk' \in {disk, mem, mem'} PROVE Goal
  BY <1>2
<1>3. ASSUME NEW old \in {a, d}, DOMAIN b = DOMAIN old,
             \A j \in DOMAIN old : b[j] = old[j] \/ Same(old[j], b[j])
      PROVE  From(a) \/ From(d)
  BY <1>1, <1>3
<1>30. ASSUME mem'.nodes = a \/ mem'.nodes = d PROVE From(a) \/ From(d)
  BY <1>1, <1>30
<1> HIDE DEF a, b, d, From, Goal
<1>4. CASE ReconcileNode
  <2>1. /\ disk' = disk
        /\ \E i \in DOMAIN a : /\ Settled(a[i]) \in Entry /\ Same(a[i], Settled(a[i]))
                               /\ SettledAt(a, b, i, Settled(a[i]))
    BY <1>4, ReconcileNodeEffect DEF a, b
  <2>2. From(a)
    BY <1>1, <2>1, SettledMade DEF From
  <2> QED
    BY <1>2, <2>1, <2>2
<1>5. CASE ResolveParents
  <2>1. /\ disk' = disk /\ DOMAIN b = DOMAIN a
        /\ \A i \in DOMAIN a : b[i] = a[i] \/ Later(a[i], b[i], "completed", 0)
    BY <1>5, ResolveParentsEffect DEF a, b
  <2> QED
    BY <1>2, <1>3, <2>1 DEF Later
<1>6. CASE RewindNode
  <2>1. /\ disk' = disk /\ DOMAIN b = DOMAIN a
        /\ \A i \in DOMAIN a : \/ b[i] = a[i]
                               \/ \E status \in {"pending", "stale"} :
                                     Later(a[i], b[i], status, 0)
    BY <1>6, RewindNodeEffect DEF a, b
  <2> QED
    BY <1>2, <1>3, <2>1 DEF Later
<1>7. CASE SpawnNode
  <2>1. disk' = disk /\ \E i \in DOMAIN a : b = a \o SpawnedEntries(a, a[i])
    BY <1>7, SpawnNodeEffect DEF a, b
  <2>2. PICK i \in DOMAIN a : b = a \o SpawnedEntries(a, a[i])
    BY <2>1
  <2> DEFINE more == SpawnedEntries(a, a[i])
  <2>3. more \in Seq(Entry) /\ \A k \in DOMAIN more : Made(more[k])
    BY <1>1, SpawnedShape, SpawnedDefined DEF Made, Definitions
  <2> HIDE DEF more
  <2>4. b = a \o more
    BY <2>2 DEF more
  <2>5. /\ \A j \in DOMAIN a : (a \o more)[j] = a[j]
        /\ \A j \in DOMAIN (a \o more) \ DOMAIN a :
              \E k \in DOMAIN more : (a \o more)[j] = more[k]
    BY <1>1, <2>3, ConcatShape
  <2>6. From(a)
    BY <1>1, <2>3, <2>4, <2>5 DEF From
  <2> QED
    BY <1>2, <2>1, <2>6
<1>8. CASE Route
  BY <1>2, <1>30, <1>8, RouteEffect DEF files, a
<1>9. CASE LaunchExecutor \/ StartSync
  <2>1. PICK c \in DOMAIN a, e \in Entry :
           Later(a[c], e, "running", 1) /\ Becomes(a, b, c, e)
    BY <1>9, LaunchExecutorEffect, StartSyncEffect DEF a, b
  <2>2. DOMAIN b = DOMAIN a /\ \A j \in DOMAIN a : b[j] = a[j] \/ Same(a[j], b[j])
    BY <2>1 DEF Later, Becomes
  <2>3. disk' \in {disk, mem'}
    BY <1>9, LaunchExecutorEffect, StartSyncEffect
  <2> QED
    BY <1>2, <1>3, <2>2, <2>3
<1>10. CASE ExecutorNotFound \/ \E ok \in BOOLEAN : SyncReturns(ok)
  <2>1. PICK c \in DOMAIN a, e \in Entry, status \in {"completed", "failed"}, n \in {0, 1} :
           Later(a[c], e, status, n) /\ SettledAt(a, b, c, e)
    BY <1>10, ExecutorNotFoundEffect, SyncReturnsEffect DEF a, b
  <2>2. From(a)
    BY <1>1, <2>1, SettledMade DEF From, Later
  <2>3. disk' \in {disk, mem'}
    BY <1>10, ExecutorNotFoundEffect, SyncReturnsEffect
  <2> QED
    BY <1>2, <2>2, <2>3
<1>11. CASE \/ Finalize("complete", "indexComplete") \/ Finalize("failed", "indexFailed")
            \/ ReopenWorkflow
  <2>1. mem'.nodes = a /\ disk' = mem'
    BY <1>11, FinalizeEffect, ReopenEffect DEF a
  <2> QED
    BY <1>2, <1>30, <2>1
<1>12. ASSUME NEW answer, Confirm(answer) PROVE Goal
  <2>1. disk' = disk /\ plan # NoPlan
    BY <1>12, ConfirmEffect
  <2>2. CASE b = d \o [k \in DOMAIN plan.nodes |-> EntryOf(plan.nodes[k], {}, {})]
    <3> DEFINE more == [k \in DOMAIN plan.nodes |-> EntryOf(plan.nodes[k], {}, {})]
    <3>1. more \in Seq(Entry)
      BY <2>1, PlanType, PlannedShape
    <3>2. \A k \in DOMAIN more : Made(more[k])
      BY <2>1, PlannedDefined DEF Made, Definitions
    <3> HIDE DEF more
    <3>3. b = d \o more
      BY <2>2 DEF more
    <3>4. /\ \A j \in DOMAIN d : (d \o more)[j] = d[j]
          /\ \A j \in DOMAIN (d \o more) \ DOMAIN d :
                \E k \in DOMAIN more : (d \o more)[j] = more[k]
      BY <1>1, <3>1, ConcatShape
    <3>5. From(d)
      BY <1>1, <3>2, <3>3, <3>4 DEF From
    <3> QED
      BY <1>2, <2>1, <3>5
  <2>3. CASE DOMAIN b = DOMAIN d /\ \A i \in DOMAIN d : Same(d[i], b[i])
    BY <1>2, <1>3, <2>1, <2>3
  <2> QED
    BY <1>12, <2>2, <2>3, ConfirmEffect DEF b, d
<1>13. ASSUME NEW i, ResetNode(i) PROVE Goal
  <2>1. PICK e \in Entry : Later(d[i], e, "pending", 0) /\ Becomes(d, b, i, e)
    BY <1>13, ResetNodeEffect DEF b, d
  <2>2. DOMAIN b = DOMAIN d /\ \A j \in DOMAIN d : b[j] = d[j] \/ Same(d[j], b[j])
    BY <2>1 DEF Later, Becomes
  <2>3. disk' = mem'
    BY <1>13, ResetNodeEffect
  <2> QED
    BY <1>2, <1>3, <2>2, <2>3
<1>14. CASE WriteLaunched \/ Persist \/ WriteConfirmed \/ Reread
  <2>1. mem' \in {mem, disk} /\ disk' \in {mem, disk}
    BY <1>14, WriteEffect DEF Reread
  <2>2. mem'.nodes = a \/ mem'.nodes = d
    BY <2>1 DEF a, d
  <2> QED
    BY <1>2, <1>30, <2>1, <2>2
<1>15. CASE Silent
  BY <1>2, <1>30, <1>15 DEF Silent, a
<1> QED
  BY <1>4, <1>5, <1>6, <1>7, <1>8, <1>9, <1>10, <1>11, <1>12, <1>13, <1>14, <1>15, StepCases

(* A meta node runs in the background, with the strategy of its kind.      *)
MetaFact(e) ==
    /\ e.id \in Id
    /\ e.id.meta # <<>> => e.mode = "none" /\ e.strategy = MetaStrategy(KindOf(e.id))

MetaInv ==
    /\ \A j \in DOMAIN disk.nodes : MetaFact(disk.nodes[j])
    /\ \A j \in DOMAIN mem.nodes : MetaFact(mem.nodes[j])

LEMMA MetaInit == ASSUME Init PROVE MetaInv
<1>1. PlannerEntry \in Entry /\ PlannerEntry.id.meta = <<>>
  <2>1. PlannerEntry.id.meta = <<>>
    BY DEF PlannerEntry, EntryOf, NamedId
  <2> QED
    BY <2>1, PlannerEntryType
<1>2. MetaFact(PlannerEntry)
  BY <1>1 DEF MetaFact, Entry
<1>3. disk.nodes = <<PlannerEntry>> /\ mem = disk
  BY DEF Init
<1> HIDE DEF PlannerEntry
<1> QED
  BY <1>2, <1>3 DEF MetaInv

LEMMA MadeMeta == ASSUME NEW e \in Entry, Made(e) PROVE MetaFact(e)
<1>1. CASE New(e)
  BY <1>1 DEF New, MetaFact, Entry
<1>2. CASE \E kind \in MetaKinds, f \in Entry : e = MetaEntry(kind, f)
  <2>1. PICK kind \in MetaKinds, f \in Entry : e = MetaEntry(kind, f)
    BY <1>2
  <2>2. e.id = MetaId(kind, f.id, f.attempt_count) /\ e.mode = "none"
        /\ e.strategy = MetaStrategy(kind)
    BY <2>1 DEF MetaEntry
  <2>3. KindOf(e.id) = kind
    BY <2>2, MetaIdType DEF Entry
  <2> QED
    BY <2>2, <2>3 DEF MetaFact, Entry
<1> QED
  BY <1>1, <1>2 DEF Made

LEMMA MetaStep ==
    ASSUME TypeInv, TypeInv', MetaInv, [Next]_vars PROVE MetaInv'
<1> DEFINE b == mem'.nodes
<1>1. \A j \in DOMAIN b : b[j] \in Entry
  BY Memory, ElementOfSeq, LenProperties DEF TypeInv, TypeOK, Manifest
<1>2. \A e, f : MetaFact(e) /\ Same(e, f) => MetaFact(f)
  BY DEF MetaFact, Same
<1>3. \A j \in DOMAIN b : MetaFact(b[j])
  BY <1>1, <1>2, Provenance, MadeMeta DEF MetaInv
<1> QED
  BY <1>3, Provenance DEF MetaInv
-----------------------------------------------------------------------------
(* Entries that keep their place keep their ids.                           *)
LEMMA IdsKept ==
    ASSUME NEW a, NEW b, DOMAIN a \subseteq DOMAIN b,
           \A i \in DOMAIN a : b[i].id = a[i].id
    PROVE  Ids(a) \subseteq Ids(b)
  BY DEF Ids

LEMMA SettledAtIds ==
    ASSUME NEW a \in Seq(Entry), NEW b, NEW i \in DOMAIN a, NEW e \in Entry,
           e.id = a[i].id, SettledAt(a, b, i, e)
    PROVE  Ids(a) \subseteq Ids(b)
<1>1. Audited(e).id = e.id
  BY AuditedType DEF Entry
<1>2. \A j \in DOMAIN a : b[j].id = a[j].id
  BY <1>1 DEF SettledAt
<1> QED
  BY <1>2, IdsKept DEF SettledAt

(* More entries after those of a. *)
LEMMA ConcatIds ==
    ASSUME NEW a \in Seq(Entry), NEW more \in Seq(Entry)
    PROVE  Ids(a) \subseteq Ids(a \o more)
<1> DEFINE b == a \o more
<1>1. DOMAIN a \subseteq DOMAIN b /\ \A i \in DOMAIN a : b[i] = a[i]
  BY ConcatShape
<1> HIDE DEF b
<1>2. Ids(a) \subseteq Ids(b)
  BY <1>1, IdsKept
<1> QED
  BY <1>2 DEF b

(* What SpawnNode and wf confirm append is new. *)
LEMMA SpawnedNew ==
    ASSUME TypeInv, NEW i \in DOMAIN mem.nodes,
           mem'.nodes = mem.nodes \o SpawnedEntries(mem.nodes, mem.nodes[i])
    PROVE  /\ DOMAIN mem.nodes \subseteq DOMAIN mem'.nodes
           /\ \A j \in DOMAIN mem.nodes : mem'.nodes[j] = mem.nodes[j]
           /\ \A j \in DOMAIN mem'.nodes \ DOMAIN mem.nodes : New(mem'.nodes[j])
           /\ Ids(mem.nodes) \subseteq Ids(mem'.nodes)
<1> DEFINE more == SpawnedEntries(mem.nodes, mem.nodes[i])
<1>1. more \in Seq(Entry) /\ \A k \in DOMAIN more : New(more[k])
  BY Memory, SpawnedShape
<1> HIDE DEF more
<1>2. mem'.nodes = mem.nodes \o more
  BY DEF more
<1>3. mem.nodes \in Seq(Entry)
  BY Memory
<1> DEFINE b == mem.nodes \o more
<1>4. /\ DOMAIN mem.nodes \subseteq DOMAIN b
      /\ \A j \in DOMAIN mem.nodes : b[j] = mem.nodes[j]
      /\ \A j \in DOMAIN b \ DOMAIN mem.nodes : \E k \in DOMAIN more : b[j] = more[k]
      /\ Ids(mem.nodes) \subseteq Ids(b)
  BY <1>1, <1>3, ConcatShape, ConcatIds
<1> QED
  BY <1>1, <1>2, <1>4

LEMMA PlannedNew ==
    ASSUME TypeInv, plan # NoPlan,
           mem'.nodes = disk.nodes \o [k \in DOMAIN plan.nodes |->
                                         EntryOf(plan.nodes[k], {}, {})]
    PROVE  /\ DOMAIN disk.nodes \subseteq DOMAIN mem'.nodes
           /\ \A j \in DOMAIN disk.nodes : mem'.nodes[j] = disk.nodes[j]
           /\ \A j \in DOMAIN mem'.nodes \ DOMAIN disk.nodes : New(mem'.nodes[j])
           /\ Ids(disk.nodes) \subseteq Ids(mem'.nodes)
<1> DEFINE more == [k \in DOMAIN plan.nodes |-> EntryOf(plan.nodes[k], {}, {})]
<1>1. more \in Seq(Entry) /\ \A k \in DOMAIN more : New(more[k])
  BY PlanType, PlannedShape
<1> HIDE DEF more
<1>2. mem'.nodes = disk.nodes \o more
  BY DEF more
<1>3. disk.nodes \in Seq(Entry)
  BY Memory
<1> DEFINE b == disk.nodes \o more
<1>4. /\ DOMAIN disk.nodes \subseteq DOMAIN b
      /\ \A i \in DOMAIN disk.nodes : b[i] = disk.nodes[i]
      /\ \A i \in DOMAIN b \ DOMAIN disk.nodes : \E k \in DOMAIN more : b[i] = more[k]
      /\ Ids(disk.nodes) \subseteq Ids(b)
  BY <1>1, <1>3, ConcatShape, ConcatIds
<1> QED
  BY <1>1, <1>2, <1>4

-----------------------------------------------------------------------------
(* What is verified is never final.                                        *)

Verifiable == {"FULL_STACK_VALIDATION", "TDD_REFACTOR"}

VerifiedEntry(e, ns) ==
    /\ e.status = "completed" /\ e.strategy \in Verifiable
          => MetaId("verify", e.id, e.attempt_count) \in Ids(ns)
    /\ e.status = "needs_refactor" => e.strategy = "GOVERNANCE"

Verified(ns) == \A i \in DOMAIN ns : VerifiedEntry(ns[i], ns)

VerifiedInv ==
    /\ Verified(disk.nodes) /\ Verified(mem.nodes)
    /\ pc = "complete" => AllCompleted(mem.nodes)

LEMMA VerifiedKept ==
    ASSUME NEW a, NEW b, Verified(a), Ids(a) \subseteq Ids(b),
           \A j \in DOMAIN b : \/ j \in DOMAIN a /\ b[j] = a[j]
                               \/ VerifiedEntry(b[j], b)
    PROVE  Verified(b)
  BY DEF Verified, VerifiedEntry

LEMMA VerifiedSettled ==
    ASSUME NEW a \in Seq(Entry), NEW b, NEW i \in DOMAIN a, NEW e \in Entry,
           e.id = a[i].id, e.status # "needs_refactor",
           SettledAt(a, b, i, e), Verified(a)
    PROVE  Verified(b)
<1> DEFINE f == Audited(e)
<1>1. /\ f.id = e.id /\ f.attempt_count = e.attempt_count /\ f \in Entry
      /\ \/ f = e
         \/ f.status = "needs_refactor" /\ StrategyOf(e) = "GOVERNANCE"
            /\ f.strategy = e.strategy
  BY AuditedType DEF Entry
<1>2. Ids(a) \subseteq Ids(b)
  BY SettledAtIds
<1>3. \A kind \in ChildKinds(f) : MetaId(kind, e.id, e.attempt_count) \in Ids(b)
  BY DEF SettledAt
<1>4. VerifiedEntry(f, b)
  <2>1. ASSUME f.status = "completed", f.strategy \in Verifiable
        PROVE  MetaId("verify", f.id, f.attempt_count) \in Ids(b)
    <3>1. StrategyOf(f) \in Verifiable
      BY <2>1 DEF StrategyOf, Verifiable
    <3>2. "verify" \in ChildKinds(f)
      BY <2>1, <3>1 DEF ChildKinds, MetaKinds, Verifiable
    <3> QED
      BY <1>1, <1>3, <3>2
  <2>2. ASSUME f.status = "needs_refactor" PROVE f.strategy = "GOVERNANCE"
    BY <1>1, <2>2 DEF StrategyOf
  <2> QED
    BY <2>1, <2>2 DEF VerifiedEntry
<1> HIDE DEF f
<1>5. \A j \in DOMAIN b \ DOMAIN a : b[j].status = "pending"
  BY DEF SettledAt, MetaEntry
<1>6. \A j \in DOMAIN b \ DOMAIN a : VerifiedEntry(b[j], b)
  BY <1>5 DEF VerifiedEntry
<1>7. b[i] = f /\ \A j \in DOMAIN a : j # i => b[j] = a[j]
  BY DEF SettledAt, f
<1> QED
  BY <1>2, <1>4, <1>6, <1>7, VerifiedKept

(* An entry that is neither completed nor to be refactored. *)
LEMMA VerifiedOther ==
    ASSUME NEW e, NEW ns, e.status \notin {"completed", "needs_refactor"}
    PROVE  VerifiedEntry(e, ns)
  BY DEF VerifiedEntry

LEMMA VerifiedBecomes ==
    ASSUME NEW a, NEW b, NEW i \in DOMAIN a, NEW e, Becomes(a, b, i, e),
           e.id = a[i].id, e.status \notin {"completed", "needs_refactor"}, Verified(a)
    PROVE  Verified(b)
<1>1. Ids(a) \subseteq Ids(b)
  BY IdsKept DEF Becomes
<1> QED
  BY <1>1, VerifiedOther, VerifiedKept DEF Becomes

LEMMA VerifiedStep ==
    ASSUME TypeInv, TypeInv', VerifiedInv, [Next]_vars PROVE VerifiedInv'
<1> DEFINE d == disk.nodes
           a == mem.nodes
           b == mem'.nodes
<1>1. /\ Verified(d) /\ Verified(a) /\ a \in Seq(Entry) /\ d \in Seq(Entry)
      /\ \A i \in DOMAIN a : a[i] \in Entry
      /\ \A i \in DOMAIN d : d[i] \in Entry
  BY Memory DEF VerifiedInv
<1>2. ASSUME Verified(b), disk'.nodes \in {d, a, b}, pc' # "complete" PROVE VerifiedInv'
  BY <1>1, <1>2 DEF VerifiedInv
<1>3. ASSUME NEW old \in {a, d}, DOMAIN old \subseteq DOMAIN b, Ids(old) \subseteq Ids(b),
             \A j \in DOMAIN b : \/ j \in DOMAIN old /\ b[j] = old[j]
                                 \/ VerifiedEntry(b[j], b)
      PROVE  Verified(b)
  <2> HIDE DEF a, b, d
  <2> QED
    BY <1>1, <1>3, VerifiedKept
<1> HIDE DEF a, b, d
<1>4. CASE ReconcileNode
  <2>1. PICK i \in DOMAIN a : /\ Settled(a[i]) \in Entry /\ Same(a[i], Settled(a[i]))
                              /\ SettledAt(a, b, i, Settled(a[i]))
    BY <1>4, ReconcileNodeEffect DEF a, b
  <2>2. Settled(a[i]).status # "needs_refactor" /\ Settled(a[i]).id = a[i].id
    BY <1>1, <2>1, SettledLater DEF Same
  <2>3. Verified(b)
    BY <1>1, <2>1, <2>2, VerifiedSettled
  <2> QED
    BY <1>2, <1>4, <2>3, ReconcileNodeEffect DEF d
<1>5. CASE ResolveParents
  <2>1. /\ disk' = disk /\ pc' = "rewind" /\ DOMAIN b = DOMAIN a
        /\ \A i \in DOMAIN a : \/ b[i] = a[i]
                               \/ /\ a[i].status = "needs_refactor"
                                  /\ Later(a[i], b[i], "completed", 0)
    BY <1>5, ResolveParentsEffect DEF a, b
  <2>2. \A i \in DOMAIN a : b[i].id = a[i].id
    BY <2>1 DEF Later, Same
  <2>3. \A i \in DOMAIN a : b[i] = a[i] \/ VerifiedEntry(b[i], b)
    BY <1>1, <2>1 DEF Verified, VerifiedEntry, Verifiable, Later, Same
  <2>4. Ids(a) \subseteq Ids(b)
    BY <2>1, <2>2, IdsKept
  <2> QED
    BY <1>2, <1>3, <2>1, <2>3, <2>4 DEF d
<1>6. CASE RewindNode
  <2>1. /\ disk' = disk /\ pc' = "rewind" /\ DOMAIN b = DOMAIN a
        /\ \A i \in DOMAIN a : \/ b[i] = a[i]
                               \/ \E status \in {"pending", "stale"} :
                                     Later(a[i], b[i], status, 0)
    BY <1>6, RewindNodeEffect DEF a, b
  <2>2. \A i \in DOMAIN a : b[i].id = a[i].id
    BY <2>1 DEF Later, Same
  <2>3. \A i \in DOMAIN a : b[i] = a[i] \/ VerifiedEntry(b[i], b)
    BY <2>1, VerifiedOther DEF Later
  <2>4. Ids(a) \subseteq Ids(b)
    BY <2>1, <2>2, IdsKept
  <2> QED
    BY <1>2, <1>3, <2>1, <2>3, <2>4 DEF d
<1>7. CASE SpawnNode
  <2>1. /\ DOMAIN a \subseteq DOMAIN b /\ Ids(a) \subseteq Ids(b)
        /\ \A j \in DOMAIN a : b[j] = a[j]
        /\ \A j \in DOMAIN b \ DOMAIN a : b[j].status = "pending"
    BY <1>7, SpawnNodeEffect, SpawnedNew DEF New, a, b
  <2> QED
    BY <1>2, <1>3, <1>7, <2>1, SpawnNodeEffect, VerifiedOther DEF d
<1>8. CASE Route
  <2>1. mem' = mem /\ disk' = disk /\ (pc' = "complete" => AllCompleted(mem.nodes))
    BY <1>8, RouteEffect DEF files
  <2> QED
    BY <2>1 DEF VerifiedInv
<1>9. CASE LaunchExecutor \/ StartSync
  <2>1. PICK c \in DOMAIN a, e \in Entry :
           Later(a[c], e, "running", 1) /\ Becomes(a, b, c, e)
    BY <1>9, LaunchExecutorEffect, StartSyncEffect DEF a, b
  <2>2. Verified(b)
    BY <1>1, <2>1, VerifiedBecomes DEF Later, Same
  <2>3. disk' \in {disk, mem'} /\ pc' # "complete"
    BY <1>9, LaunchExecutorEffect, StartSyncEffect
  <2> QED
    BY <1>2, <2>2, <2>3 DEF b, d
<1>10. CASE ExecutorNotFound \/ \E ok \in BOOLEAN : SyncReturns(ok)
  <2>1. PICK c \in DOMAIN a, e \in Entry, status \in {"completed", "failed"}, n \in {0, 1} :
           Later(a[c], e, status, n) /\ SettledAt(a, b, c, e)
    BY <1>10, ExecutorNotFoundEffect, SyncReturnsEffect DEF a, b
  <2>2. Verified(b)
    BY <1>1, <2>1, VerifiedSettled DEF Later, Same
  <2>3. disk' \in {disk, mem'} /\ pc' # "complete"
    BY <1>10, ExecutorNotFoundEffect, SyncReturnsEffect
  <2> QED
    BY <1>2, <2>2, <2>3 DEF b, d
<1>11. CASE \/ Finalize("complete", "indexComplete") \/ Finalize("failed", "indexFailed")
            \/ ReopenWorkflow
  <2>1. b = a /\ disk' = mem' /\ pc' # "complete"
    BY <1>11, FinalizeEffect, ReopenEffect DEF a, b
  <2> QED
    BY <1>1, <1>2, <2>1 DEF b
<1>12. ASSUME NEW answer, Confirm(answer) PROVE VerifiedInv'
  <2>1. disk' = disk /\ pc' = "confirm" /\ plan # NoPlan
    BY <1>12, ConfirmEffect
  <2>2. CASE b = d \o [k \in DOMAIN plan.nodes |-> EntryOf(plan.nodes[k], {}, {})]
    <3>1. /\ DOMAIN d \subseteq DOMAIN b /\ Ids(d) \subseteq Ids(b)
          /\ \A j \in DOMAIN d : b[j] = d[j]
          /\ \A j \in DOMAIN b \ DOMAIN d : b[j].status = "pending"
      BY <2>1, <2>2, PlannedNew DEF New, b, d
    <3> QED
      BY <1>2, <1>3, <2>1, <3>1, VerifiedOther DEF d
  <2>3. CASE /\ DOMAIN b = DOMAIN d
             /\ \A i \in DOMAIN d :
                   /\ Same(d[i], b[i]) /\ b[i].attempt_count = d[i].attempt_count
                   /\ b[i].status = IF d[i].id = NamedId(Planner)
                                      THEN "pending" ELSE d[i].status
    <3>1. Ids(d) \subseteq Ids(b)
      BY <2>3, IdsKept DEF Same
    <3>2. \A i \in DOMAIN d : VerifiedEntry(b[i], b)
      BY <1>1, <2>3, <3>1 DEF Verified, VerifiedEntry, Same
    <3> QED
      BY <1>2, <1>3, <2>1, <2>3, <3>1, <3>2 DEF d
  <2> QED
    BY <1>12, <2>2, <2>3, ConfirmEffect DEF b, d
<1>13. ASSUME NEW i, ResetNode(i) PROVE VerifiedInv'
  <2>1. PICK e \in Entry : Later(d[i], e, "pending", 0) /\ Becomes(d, b, i, e)
    BY <1>13, ResetNodeEffect DEF b, d
  <2>2. i \in DOMAIN d /\ disk' = mem' /\ pc' # "complete"
    BY <1>13, ResetNodeEffect DEF d
  <2>3. Verified(b)
    BY <1>1, <2>1, <2>2, VerifiedBecomes DEF Later, Same
  <2> QED
    BY <1>2, <2>2, <2>3 DEF b
<1>14. CASE WriteLaunched \/ Persist \/ WriteConfirmed \/ Reread
  <2>1. mem' \in {mem, disk} /\ disk' \in {mem, disk} /\ pc' # "complete"
    BY <1>14, WriteEffect DEF Reread
  <2> QED
    BY <1>1, <1>2, <2>1 DEF a, b, d
<1>15. CASE Silent
  BY <1>15 DEF Silent, RewindsDone, VerifiedInv
<1> QED
  BY <1>4, <1>5, <1>6, <1>7, <1>8, <1>9, <1>10, <1>11, <1>12, <1>13, <1>14, <1>15, StepCases

(* What is verified has a verification nested one level deeper, without    *)
(* end, which no manifest can hold.                                        *)
LEMMA VerifiedEndless ==
    ASSUME NEW ns \in Seq(Entry), AllCompleted(ns), Verified(ns),
           \A i \in DOMAIN ns : MetaFact(ns[i])
    PROVE  \A i \in DOMAIN ns : ns[i].strategy \notin Verifiable
<1> DEFINE S == {i \in DOMAIN ns : ns[i].strategy \in Verifiable}
           L == {Len(ns[i].id.meta) : i \in S}
           depth == [i \in S |-> Len(ns[i].id.meta)]
<1> SUFFICES ASSUME S # {} PROVE FALSE
  OBVIOUS
<1>1. \A i \in DOMAIN ns : /\ ns[i] \in Entry /\ ns[i].status = "completed"
                           /\ ns[i].id \in Id /\ ns[i].attempt_count \in Nat
                           /\ Len(ns[i].id.meta) \in Nat
  <2>1. \A i \in DOMAIN ns : ns[i] \in Entry
    BY ElementOfSeq, LenProperties
  <2>2. \A id \in Id : Len(id.meta) \in Nat
    BY LenProperties DEF Id
  <2> QED
    BY <2>1, <2>2 DEF AllCompleted, Entry
<1>2. \A n \in L : n + 1 \in L
  <2> SUFFICES ASSUME NEW i \in S PROVE Len(ns[i].id.meta) + 1 \in L
    OBVIOUS
  <2> DEFINE v == MetaId("verify", ns[i].id, ns[i].attempt_count)
  <2>1. v \in Ids(ns)
    BY <1>1 DEF Verified, VerifiedEntry
  <2>2. PICK j \in DOMAIN ns : ns[j].id = v
    BY <2>1 DEF Ids
  <2>3. /\ v.meta = Append(ns[i].id.meta, <<"verify", ns[i].attempt_count>>)
        /\ KindOf(v) = "verify"
    BY <1>1, MetaIdType DEF MetaKinds
  <2>4. Len(v.meta) = Len(ns[i].id.meta) + 1 /\ v.meta # <<>>
    <3>1. /\ ns[i].id.meta \in Seq(MetaKinds \X Nat)
          /\ <<"verify", ns[i].attempt_count>> \in MetaKinds \X Nat
      BY <1>1 DEF Id, MetaKinds
    <3> QED
      BY <2>3, <3>1, AppendProperties, LenProperties
  <2> HIDE DEF v
  <2>5. ns[j].strategy = "FULL_STACK_VALIDATION"
    BY <2>2, <2>3, <2>4 DEF MetaFact, MetaStrategy
  <2>6. j \in S /\ Len(ns[j].id.meta) = Len(ns[i].id.meta) + 1
    BY <2>2, <2>4, <2>5 DEF Verifiable
  <2> QED
    BY <2>6
<1>3. IsFiniteSet(L) /\ L \in SUBSET Nat /\ L # {}
  <2>1. IsFiniteSet(S)
    BY EntriesFinite
  <2>2. depth \in Surjection(S, L)
    BY DEF Surjection
  <2> QED
    BY <1>1, <2>1, <2>2, FS_Surjection
<1> HIDE DEF L
<1>4. PICK m \in L : m \in Nat
  BY <1>3
<1>5. \A n \in Nat : n >= m => n \in L
  <2> DEFINE gap == {n \in Nat : n >= m /\ n \notin L}
  <2> SUFFICES ASSUME gap # {} PROVE FALSE
    OBVIOUS
  <2>1. PICK n \in gap : \A k \in gap : n <= k
    <3>1. gap \in SUBSET Nat
      OBVIOUS
    <3> QED
      BY <3>1, MinExists
  <2>2. n \in Nat /\ n > m /\ n \notin L
    BY <1>4, <2>1
  <2>3. n - 1 \in Nat /\ n - 1 \notin gap /\ n - 1 >= m
    BY <1>4, <2>1, <2>2
  <2>4. n - 1 \in L
    BY <2>3
  <2>5. (n - 1) + 1 \in L
    BY <1>2, <2>4
  <2> QED
    BY <2>2, <2>5
<1> DEFINE c == Cardinality(L)
<1>6. c \in Nat
  BY <1>3, FS_CardinalityType
<1>7. (m .. m + c) \in SUBSET L
  BY <1>4, <1>5, <1>6
<1>8. Cardinality(m .. m + c) <= c
  BY <1>3, <1>7, FS_Subset
<1>9. Cardinality(m .. m + c) = c + 1
  <2>1. m \in Int /\ m + c \in Int /\ ~(m > m + c) /\ (m + c) - m + 1 = c + 1
    BY <1>4, <1>6
  <2> QED
    BY <2>1, FS_Interval
<1> QED
  BY <1>6, <1>8, <1>9

VerifiedNeverFinal ==
    pc = "complete" => \A i \in DOMAIN mem.nodes :
        mem.nodes[i].strategy \notin {"FULL_STACK_VALIDATION", "TDD_REFACTOR"}

(* A workflow with a node that is verified when it completes does not      *)
(* reach finalize_complete, in any plan and for any bound: each            *)
(* verification is verified in turn.  So the disagreement DoneIsComplete   *)
(* shows on one node is there for every plan with such a node.             *)
THEOREM VerificationEndless == Spec => []VerifiedNeverFinal
<1>1. Init => VerifiedInv /\ MetaInv
  <2> SUFFICES ASSUME Init PROVE VerifiedInv
    BY MetaInit
  <2>1. PlannerEntry.status = "pending"
    BY DEF PlannerEntry, EntryOf
  <2>2. disk.nodes = <<PlannerEntry>> /\ mem = disk /\ pc = "idle"
    BY DEF Init
  <2> HIDE DEF PlannerEntry
  <2> QED
    BY <2>1, <2>2 DEF VerifiedInv, Verified, VerifiedEntry
<1>2. TypeInv /\ TypeInv' /\ VerifiedInv /\ MetaInv /\ [Next]_vars
         => VerifiedInv' /\ MetaInv'
  BY VerifiedStep, MetaStep
<1>3. TypeInv /\ VerifiedInv /\ MetaInv => VerifiedNeverFinal
  BY Memory, VerifiedEndless DEF VerifiedInv, MetaInv, VerifiedNeverFinal, Verifiable
<1> QED
  BY <1>1, <1>2, <1>3, TypeInvariant, PTL DEF Spec
-----------------------------------------------------------------------------
(* What is selected stays as it was selected until it is started.          *)

LEMMA WaitingStep ==
    ASSUME TypeInv, [Next]_vars
    PROVE  Route \/ \A i \in Waiting' : i \in Waiting /\ mem'.nodes[i] = mem.nodes[i]
<1> DEFINE a == mem.nodes
           b == mem'.nodes
           Goal == Route \/ \A i \in Waiting' : i \in Waiting /\ b[i] = a[i]
<1> SUFFICES Goal
  OBVIOUS
<1>1. ASSUME cand' = {} PROVE Goal
  BY <1>1 DEF Waiting
<1>2. ASSUME Waiting' \subseteq Waiting, \A i \in Waiting' : b[i] = a[i] PROVE Goal
  BY <1>2
<1>3. /\ Waiting \subseteq cand /\ cand \subseteq DOMAIN a
      /\ pc \in {"dispatch", "sync"} => Waiting = cand
  BY DEF Waiting, TypeInv, TypeOK
<1> HIDE DEF a, b, Goal
<1>4. CASE \/ ReconcileNode \/ ResolveParents \/ RewindNode \/ SpawnNode \/ ReopenWorkflow
           \/ Finalize("complete", "indexComplete") \/ Finalize("failed", "indexFailed")
           \/ (\E answer \in {"y", "n"} : Confirm(answer))
           \/ (\E i \in DOMAIN disk.nodes : ResetNode(i))
           \/ Reread
  BY <1>1, <1>4, ReconcileNodeEffect, ResolveParentsEffect, RewindNodeEffect,
     SpawnNodeEffect, ReopenEffect, FinalizeEffect, ConfirmEffect, ResetNodeEffect
     DEF Reread
<1>5. CASE LaunchExecutor \/ ExecutorNotFound
  <2>1. /\ pc = "dispatch" /\ pc' = "launched" /\ cand' = cand
        /\ \A j \in DOMAIN a : j # Candidate => b[j] = a[j]
    BY <1>5, LaunchExecutorEffect, ExecutorNotFoundEffect DEF a, b, Becomes, SettledAt
  <2>2. Waiting' = cand \ {Candidate}
    BY <2>1 DEF Waiting, Candidate
  <2> QED
    BY <1>2, <1>3, <2>1, <2>2
<1>6. CASE StartSync
  <2>1. /\ pc = "dispatch" /\ pc' = "sync" /\ cand' = cand \ {Candidate}
        /\ \A j \in DOMAIN a : j # Candidate => b[j] = a[j]
    BY <1>6, StartSyncEffect DEF a, b, Becomes
  <2>2. Waiting' = cand \ {Candidate}
    BY <2>1 DEF Waiting
  <2> QED
    BY <1>2, <1>3, <2>1, <2>2
<1>7. ASSUME NEW ok \in BOOLEAN, SyncReturns(ok) PROVE Goal
  <2>1. /\ pc = "sync" /\ pc' # "launched" /\ cand' \subseteq cand /\ cursor \notin cand
        /\ \A j \in DOMAIN a : j # cursor => b[j] = a[j]
    BY <1>7, SyncReturnsEffect DEF a, b, SettledAt
  <2>2. Waiting' \subseteq cand
    BY <2>1 DEF Waiting
  <2> QED
    BY <1>2, <1>3, <2>1, <2>2
<1>8. CASE WriteLaunched \/ Persist \/ WriteConfirmed
  <2>1. b = a
    BY <1>8, WriteEffect DEF a, b
  <2>2. CASE WriteLaunched
    <3>1. Waiting' = Waiting
      BY <2>2 DEF WriteLaunched, Waiting
    <3> QED
      BY <1>2, <2>1, <3>1
  <2>3. CASE Persist \/ WriteConfirmed
    BY <1>1, <2>3 DEF Persist, WriteConfirmed, Return
  <2> QED
    BY <1>8, <2>2, <2>3
<1>9. CASE Silent
  <2>1. b = a
    BY <1>9 DEF Silent, a, b
  <2>2. Waiting' \subseteq Waiting
    BY <1>9 DEF Silent, Waiting, Candidate, RewindsDone, TypeInv, PcInv
  <2> QED
    BY <1>2, <2>1, <2>2
<1>10. CASE Route
  BY <1>10 DEF Goal
<1> QED
  BY <1>4, <1>5, <1>6, <1>7, <1>8, <1>9, <1>10, StepCases

(* The planner is the only node of its name: no plan and no spawn.json     *)
(* defines another.                                                        *)
PlannerOwn == \A d \in Definitions : d.name # Planner

PlannerFact(e) ==
    e.id = NamedId(Planner) => e.mode = "planning" /\ e.depends_on = {}

PlannerInv ==
    /\ \A j \in DOMAIN disk.nodes : PlannerFact(disk.nodes[j])
    /\ \A j \in DOMAIN mem.nodes : PlannerFact(mem.nodes[j])

LEMMA PlannerInit == ASSUME Init PROVE PlannerInv
<1>1. PlannerFact(PlannerEntry)
  BY DEF PlannerEntry, EntryOf, PlannerFact
<1>2. disk.nodes = <<PlannerEntry>> /\ mem = disk
  BY DEF Init
<1> HIDE DEF PlannerEntry
<1> QED
  BY <1>1, <1>2 DEF PlannerInv

LEMMA PlannerStep ==
    ASSUME PlannerOwn, TypeInv, PlannerInv, [Next]_vars PROVE PlannerInv'
<1> DEFINE b == mem'.nodes
<1>1. \A e, f : PlannerFact(e) /\ Same(e, f) => PlannerFact(f)
  BY DEF PlannerFact, Same
<1>2. ASSUME NEW e, Made(e) PROVE PlannerFact(e)
  <2>1. CASE \E d \in Definitions : DefinedBy(e, d)
    BY <2>1 DEF PlannerOwn, DefinedBy, NamedId, PlannerFact
  <2>2. CASE \E kind \in MetaKinds, f \in Entry : e = MetaEntry(kind, f)
    <3>1. PICK kind \in MetaKinds, f \in Entry : e = MetaEntry(kind, f)
      BY <2>2
    <3>2. e.id = MetaId(kind, f.id, f.attempt_count)
      BY <3>1 DEF MetaEntry
    <3>3. KindOf(e.id) \in MetaKinds
      BY <3>2, MetaIdType DEF Entry
    <3>4. e.id # NamedId(Planner)
      BY <3>3 DEF KindOf, NamedId, MetaKinds
    <3> QED
      BY <3>4 DEF PlannerFact
  <2> QED
    BY <1>2, <2>1, <2>2 DEF Made
<1>3. \A j \in DOMAIN b : PlannerFact(b[j])
  BY <1>1, <1>2, Provenance DEF PlannerInv
<1> QED
  BY <1>3, Provenance DEF PlannerInv

(* The planner is the only node in mode "planning": no plan and no         *)
(* spawn.json defines another, which could ask for a confirmation while    *)
(* the planner is not completed.                                           *)
OnePlanner == \A d \in Definitions : d.mode # "planning"

(* A node in mode "planning" is the planner, which is not governed. *)
PlanningFact(e) ==
    e.mode = "planning" => e.id = NamedId(Planner) /\ e.strategy = "NONE"

PlanningInv ==
    /\ \A j \in DOMAIN disk.nodes : PlanningFact(disk.nodes[j])
    /\ \A j \in DOMAIN mem.nodes : PlanningFact(mem.nodes[j])

LEMMA PlanningInit == ASSUME Init PROVE PlanningInv
<1>1. PlanningFact(PlannerEntry)
  BY DEF PlannerEntry, EntryOf, PlanningFact
<1>2. disk.nodes = <<PlannerEntry>> /\ mem = disk
  BY DEF Init
<1> HIDE DEF PlannerEntry
<1> QED
  BY <1>1, <1>2 DEF PlanningInv

LEMMA PlanningStep ==
    ASSUME OnePlanner, TypeInv, PlanningInv, [Next]_vars PROVE PlanningInv'
<1> DEFINE b == mem'.nodes
<1>1. \A e, f : PlanningFact(e) /\ Same(e, f) => PlanningFact(f)
  BY DEF PlanningFact, Same
<1>2. ASSUME NEW e, Made(e) PROVE PlanningFact(e)
  <2>1. CASE \E d \in Definitions : DefinedBy(e, d)
    BY <2>1 DEF OnePlanner, DefinedBy, PlanningFact
  <2>2. CASE \E kind \in MetaKinds, f \in Entry : e = MetaEntry(kind, f)
    BY <2>2 DEF MetaEntry, PlanningFact
  <2> QED
    BY <1>2, <2>1, <2>2 DEF Made
<1>3. \A j \in DOMAIN b : PlanningFact(b[j])
  BY <1>1, <1>2, Provenance DEF PlanningInv
<1> QED
  BY <1>3, Provenance DEF PlanningInv
=============================================================================
