------------------------ MODULE WorkflowEngine_proofs ------------------------
EXTENDS WorkflowEngine, FiniteSetTheorems, WellFoundedInduction,
        SequenceTheorems, TLAPS

(* A non-empty set of naturals has a least element. *)
LEMMA MinExists ==
    ASSUME NEW S \in SUBSET Nat, S # {}
    PROVE  \E m \in S : \A k \in S : m <= k
<1>1. PICK m \in S : \A y \in S : ~(<<y, m>> \in OpToRel(<, Nat))
  BY NatLessThanWellFounded, WFMin
<1>2. \A y \in S : ~(y < m)
  BY <1>1 DEF OpToRel
<1> QED
  BY <1>2

LEMMA FirstOfType ==
    ASSUME NEW S \in SUBSET Nat, S # {}
    PROVE  FirstOf(S) \in S /\ \A k \in S : FirstOf(S) <= k
  BY MinExists DEF FirstOf

(* Nth(S, 1), ..., Nth(S, Cardinality(S)) are elements of S, and different. *)
LEMMA NthType ==
    ASSUME NEW n \in Nat, NEW S \in SUBSET (1 .. n), NEW m \in 1 .. Cardinality(S)
    PROVE  Nth(S, m) \in S /\ Cardinality({j \in S : j <= Nth(S, m)}) = m
<1> DEFINE below(i) == {j \in S : j <= i}
           f == [i \in S |-> Cardinality(below(i))]
<1>0. \A j \in S : j \in Nat
  OBVIOUS
<1>1. IsFiniteSet(S) /\ Cardinality(S) \in Nat
  <2>1. IsFiniteSet(1 .. n)
    BY FS_Interval
  <2> QED
    BY <2>1, FS_Subset, FS_CardinalityType
<1>2. \A i \in S : /\ IsFiniteSet(below(i)) /\ below(i) \in SUBSET S
                   /\ Cardinality(below(i)) \in 1 .. Cardinality(S)
  <2> SUFFICES ASSUME NEW i \in S
               PROVE  /\ IsFiniteSet(below(i)) /\ below(i) \in SUBSET S
                      /\ Cardinality(below(i)) \in 1 .. Cardinality(S)
    OBVIOUS
  <2>1. below(i) \in SUBSET S /\ i \in below(i)
    OBVIOUS
  <2>2. IsFiniteSet(below(i)) /\ Cardinality(below(i)) <= Cardinality(S)
    BY <1>1, <2>1, FS_Subset
  <2>3. Cardinality(below(i)) \in Nat /\ Cardinality(below(i)) # 0
    BY <2>1, <2>2, FS_CardinalityType, FS_EmptySet
  <2> QED
    BY <1>1, <2>1, <2>2, <2>3
<1>3. ASSUME NEW i \in S, NEW k \in S, i < k
      PROVE  Cardinality(below(i)) # Cardinality(below(k))
  <2>0. i \in Nat /\ k \in Nat
    BY <1>0
  <2>1. k \in below(k) /\ k \notin below(i)
    BY <1>3, <2>0
  <2>2. \A j \in S : j <= i => j <= k
    BY <1>0, <1>3, <2>0
  <2>3. below(i) \in SUBSET below(k)
    BY <2>2
  <2> QED
    BY <1>2, <2>1, <2>3, FS_Subset
<1>4. f \in Injection(S, 1 .. Cardinality(S))
  <2>1. f \in [S -> 1 .. Cardinality(S)]
    BY <1>2
  <2>2. \A i, k \in S : f[i] = f[k] => i = k
    BY <1>3
  <2> QED
    BY <2>1, <2>2 DEF Injection, IsInjective
<1>5. f \in Surjection(S, 1 .. Cardinality(S))
  <2>1. IsFiniteSet(1 .. Cardinality(S)) /\ Cardinality(1 .. Cardinality(S)) = Cardinality(S)
    BY <1>1, FS_Interval
  <2> QED
    BY <1>4, <2>1, FS_Injection
<1>6. \E i \in S : Cardinality(below(i)) = m
  BY <1>5 DEF Surjection
<1> QED
  BY <1>6 DEF Nth

LEMMA FirstInDomain ==
    ASSUME NEW S, NEW ns \in Seq(S), NEW T \in SUBSET DOMAIN ns, T # {}
    PROVE  FirstOf(T) \in T /\ FirstOf(T) \in DOMAIN ns
  BY FirstOfType, LenProperties

LEMMA FunctionIsSeq ==
    ASSUME NEW S, NEW n \in Nat, NEW f \in [1 .. n -> S]
    PROVE  f \in Seq(S) /\ Len(f) = n
<1>1. f \in Seq(S)
  BY SeqDef
<1> QED
  BY <1>1, LenProperties

-----------------------------------------------------------------------------
(* Entries: what the operators on them return and leave as it was.         *)

LEMMA MetaIdType ==
    ASSUME NEW id \in Id, NEW kind \in MetaKinds, NEW n \in Nat
    PROVE  /\ MetaId(kind, id, n) \in Id
           /\ MetaId(kind, id, n).meta = Append(id.meta, <<kind, n>>)
           /\ KindOf(MetaId(kind, id, n)) = kind
<1>1. <<kind, n>> \in MetaKinds \X Nat /\ id.meta \in Seq(MetaKinds \X Nat)
  BY DEF Id
<1>2. MetaId(kind, id, n).meta = Append(id.meta, <<kind, n>>)
  BY DEF MetaId, Id
<1>3. /\ Append(id.meta, <<kind, n>>) \in Seq(MetaKinds \X Nat)
      /\ Append(id.meta, <<kind, n>>) # <<>>
      /\ Append(id.meta, <<kind, n>>)[Len(Append(id.meta, <<kind, n>>))] = <<kind, n>>
  BY <1>1, AppendProperties
<1>4. MetaId(kind, id, n) \in Id
  BY <1>3 DEF MetaId, Id
<1>5. KindOf(MetaId(kind, id, n)) = <<kind, n>>[1]
  BY <1>2, <1>3 DEF KindOf
<1> QED
  BY <1>2, <1>4, <1>5

LEMMA EntryOfType ==
    ASSUME NEW d \in NodeDef, NEW deps \in SUBSET Id, NEW parent \in SUBSET Id
    PROVE  EntryOf(d, deps, parent) \in Entry
<1>1. \A x \in NodeName : NamedId(x) \in Id
  BY EmptySeq DEF NamedId, Id
<1> QED
  BY <1>1 DEF EntryOf, Entry, NodeDef, NodeStatuses, NoPid

LEMMA PlannerEntryType == PlannerEntry \in Entry
  BY NodeNameAssumption, EntryOfType DEF PlannerEntry, NodeDef, Modes, Strategies

LEMMA MetaEntryType ==
    ASSUME NEW e \in Entry, NEW kind \in MetaKinds
    PROVE  MetaEntry(kind, e) \in Entry
<1>1. MetaId(kind, e.id, e.attempt_count) \in Id
  BY MetaIdType DEF Entry
<1>2. MetaStrategy(kind) \in Strategies
  BY DEF MetaStrategy, Strategies, MetaKinds
<1> QED
  BY <1>1, <1>2 DEF MetaEntry, Entry, NodeStatuses, NoPid, Modes

LEMMA AuditedType ==
    ASSUME NEW e \in Entry
    PROVE  /\ Audited(e) \in Entry
           /\ \/ Audited(e) = e
              \/ /\ e.status = "completed" /\ StrategyOf(e) = "GOVERNANCE"
                 /\ Audited(e) = [e EXCEPT !.status = "needs_refactor"]
  BY DEF Audited, Entry, NodeStatuses

LEMMA SettledType ==
    ASSUME NEW e \in Entry
    PROVE  /\ Settled(e) \in Entry
           /\ Settled(e).status \in {"completed", "failed"}
           /\ Settled(e).id = e.id /\ Settled(e).strategy = e.strategy
           /\ Settled(e).attempt_count = e.attempt_count
  BY DEF Settled, Entry, NodeStatuses, NoPid

LEMMA StartedType ==
    ASSUME NEW e \in Entry
    PROVE  /\ Started(e) \in Entry
           /\ Started(e).status = "running"
           /\ Started(e).id = e.id /\ Started(e).strategy = e.strategy
           /\ Started(e).attempt_count = e.attempt_count + 1
<1> DEFINE n == e.attempt_count + 1
<1>1. n \in Nat
  BY DEF Entry
<1>2. Started(e) = [e EXCEPT !.status = "running", !.attempt_count = n]
  BY DEF Started
<1> HIDE DEF n
<1>3. /\ [e EXCEPT !.status = "running", !.attempt_count = n] \in Entry
      /\ [e EXCEPT !.status = "running", !.attempt_count = n].attempt_count = n
  BY <1>1 DEF Entry, NodeStatuses
<1> QED
  BY <1>2, <1>3 DEF Entry, n

-----------------------------------------------------------------------------
(* Manifests.                                                              *)

(* A settled entry keeps its place; at most a pending meta child is added. *)
LEMMA SettleShape ==
    ASSUME NEW ns \in Seq(Entry), NEW i \in DOMAIN ns, NEW e \in Entry
    PROVE  /\ Settle(ns, i, e) \in Seq(Entry)
           /\ DOMAIN ns \subseteq DOMAIN Settle(ns, i, e)
           /\ \A j \in DOMAIN ns :
                  Settle(ns, i, e)[j] = IF j = i THEN Audited(e) ELSE ns[j]
           /\ \A j \in DOMAIN Settle(ns, i, e) \ DOMAIN ns :
                  \E kind \in MetaKinds :
                      Settle(ns, i, e)[j] = MetaEntry(kind, Audited(e))
           /\ \A kind \in ChildKinds(Audited(e)) :
                  MetaId(kind, e.id, e.attempt_count) \in Ids(Settle(ns, i, e))
<1> DEFINE f == Audited(e)
           changed == [ns EXCEPT ![i] = f]
           missing == {k \in ChildKinds(f) :
                          MetaId(k, f.id, f.attempt_count) \notin Ids(changed)}
           child == MetaEntry(CHOOSE k \in missing : TRUE, f)
<1>1. f \in Entry /\ f.id = e.id /\ f.attempt_count = e.attempt_count
  BY AuditedType DEF Entry
<1>2. /\ changed \in Seq(Entry) /\ Len(changed) = Len(ns)
      /\ DOMAIN changed = 1 .. Len(ns) /\ DOMAIN ns = 1 .. Len(ns)
      /\ \A j \in DOMAIN ns : changed[j] = IF j = i THEN f ELSE ns[j]
  BY <1>1, ExceptSeq, LenProperties
<1>3. Settle(ns, i, e) = IF missing = {} THEN changed ELSE Append(changed, child)
  BY DEF Settle, EnsureMetaChild
<1>4. CASE missing = {}
  <2>1. Settle(ns, i, e) = changed
    BY <1>3, <1>4
  <2>2. \A kind \in ChildKinds(f) : MetaId(kind, e.id, e.attempt_count) \in Ids(changed)
    BY <1>1, <1>4
  <2> QED
    BY <1>2, <2>1, <2>2
<1>5. CASE missing # {}
  <2> DEFINE kind == CHOOSE k \in missing : TRUE
  <2>1. kind \in ChildKinds(f) /\ kind \in MetaKinds
    BY <1>5 DEF ChildKinds
  <2>2. child \in Entry /\ child.id = MetaId(kind, e.id, e.attempt_count)
    BY <1>1, <2>1, MetaEntryType DEF MetaEntry
  <2>3. Settle(ns, i, e) = Append(changed, child)
    BY <1>3, <1>5
  <2> HIDE DEF changed, child, f, missing, kind
  <2> DEFINE r == Append(changed, child)
  <2>4. /\ r \in Seq(Entry) /\ Len(r) = Len(ns) + 1 /\ DOMAIN r = 1 .. Len(ns) + 1
        /\ \A j \in 1 .. Len(ns) : r[j] = changed[j]
        /\ r[Len(ns) + 1] = child
    BY <1>2, <2>2, AppendProperties, LenProperties
  <2> HIDE DEF r
  <2>5. /\ DOMAIN ns \subseteq DOMAIN r
        /\ \A j \in DOMAIN ns : r[j] = IF j = i THEN f ELSE ns[j]
        /\ \A j \in DOMAIN r \ DOMAIN ns : r[j] = child
    BY <1>2, <2>4, LenProperties
  <2>6. child.id \in Ids(r)
    BY <2>4, LenProperties DEF Ids
  <2>7. \A k \in ChildKinds(f) : k = kind
    BY <2>1 DEF ChildKinds, MetaKinds
  <2>8. child = MetaEntry(kind, f)
    BY DEF child, kind
  <2> QED
    BY <2>1, <2>2, <2>3, <2>4, <2>5, <2>6, <2>7, <2>8 DEF r, f
<1> QED
  BY <1>4, <1>5

LEMMA ResolvedShape ==
    ASSUME NEW ns \in Seq(Entry)
    PROVE  /\ Resolved(ns) \in Seq(Entry) /\ Len(Resolved(ns)) = Len(ns)
           /\ \A i \in 1 .. Len(ns) :
                  \/ Resolved(ns)[i] = ns[i]
                  \/ /\ ns[i].status = "needs_refactor"
                     /\ Resolved(ns)[i] = [ns[i] EXCEPT !.status = "completed"]
<1>1. Len(ns) \in Nat /\ DOMAIN ns = 1 .. Len(ns) /\ \A i \in 1 .. Len(ns) : ns[i] \in Entry
  BY LenProperties
<1>2. \A e \in Entry : [e EXCEPT !.status = "completed"] \in Entry
  BY DEF Entry, NodeStatuses
<1>3. /\ Resolved(ns) \in [1 .. Len(ns) -> Entry]
      /\ \A i \in 1 .. Len(ns) :
            Resolved(ns)[i] = IF Refactored(ns, ns[i])
                                THEN [ns[i] EXCEPT !.status = "completed"] ELSE ns[i]
  BY <1>1, <1>2 DEF Resolved
<1> QED
  BY <1>1, <1>3, FunctionIsSeq DEF Refactored

LEMMA RewoundShape ==
    ASSUME NEW ns \in Seq(Entry), NEW target
    PROVE  /\ Rewound(ns, target) \in Seq(Entry) /\ Len(Rewound(ns, target)) = Len(ns)
           /\ \A i \in 1 .. Len(ns) :
                  \/ Rewound(ns, target)[i] = ns[i]
                  \/ \E status \in {"pending", "stale"} :
                        Rewound(ns, target)[i] =
                            [ns[i] EXCEPT !.status = status, !.pid = NoPid]
<1> DEFINE r(i) == IF ns[i].id = target
                     THEN [ns[i] EXCEPT !.status = "pending", !.pid = NoPid]
                   ELSE IF ns[i].id \in StaleIds(ns, target)
                     THEN [ns[i] EXCEPT !.status = "stale", !.pid = NoPid]
                   ELSE ns[i]
<1>1. Len(ns) \in Nat /\ DOMAIN ns = 1 .. Len(ns) /\ \A i \in 1 .. Len(ns) : ns[i] \in Entry
  BY LenProperties
<1>2. \A e \in Entry : \A status \in {"pending", "stale"} :
         [e EXCEPT !.status = status, !.pid = NoPid] \in Entry
  BY DEF Entry, NodeStatuses, NoPid
<1>3. Rewound(ns, target) = [i \in 1 .. Len(ns) |-> r(i)]
  BY <1>1 DEF Rewound
<1>4. \A i \in 1 .. Len(ns) :
         /\ r(i) \in Entry
         /\ \/ r(i) = ns[i]
            \/ \E status \in {"pending", "stale"} :
                  r(i) = [ns[i] EXCEPT !.status = status, !.pid = NoPid]
  BY <1>1, <1>2
<1>5. /\ Rewound(ns, target) \in [1 .. Len(ns) -> Entry]
      /\ \A i \in 1 .. Len(ns) : Rewound(ns, target)[i] = r(i)
  BY <1>3, <1>4
<1> HIDE DEF r
<1> QED
  BY <1>1, <1>4, <1>5, FunctionIsSeq

(* New entries are pending and were never attempted. *)
New(e) == e.status = "pending" /\ e.attempt_count = 0 /\ e.id.meta = <<>>

LEMMA SpawnedShape ==
    ASSUME NEW ns, NEW e \in Entry
    PROVE  /\ SpawnedEntries(ns, e) \in Seq(Entry)
           /\ \A k \in DOMAIN SpawnedEntries(ns, e) : New(SpawnedEntries(ns, e)[k])
<1> DEFINE defs == SpawnOf[e.id.base]
           fresh == {k \in DOMAIN defs : NamedId(defs[k].name) \notin Ids(ns)}
           n == Cardinality(fresh)
<1>1. defs \in Seq(NodeDef) /\ {e.id} \in SUBSET Id
  BY InputsAssumption DEF Entry, Id
<1>2. Len(defs) \in Nat /\ DOMAIN defs = 1 .. Len(defs)
      /\ \A k \in DOMAIN defs : defs[k] \in NodeDef
  BY <1>1, LenProperties
<1>3. fresh \in SUBSET (1 .. Len(defs)) /\ n \in Nat
  <2>1. IsFiniteSet(1 .. Len(defs)) /\ fresh \in SUBSET (1 .. Len(defs))
    BY <1>2, FS_Interval
  <2> QED
    BY <2>1, FS_Subset, FS_CardinalityType
<1>4. \A m \in 1 .. n : Nth(fresh, m) \in DOMAIN defs
  BY <1>2, <1>3, NthType
<1>5. \A m \in 1 .. n : /\ EntryOf(defs[Nth(fresh, m)], {e.id}, {e.id}) \in Entry
                        /\ New(EntryOf(defs[Nth(fresh, m)], {e.id}, {e.id}))
  <2>1. \A m \in 1 .. n : defs[Nth(fresh, m)] \in NodeDef
    BY <1>2, <1>4
  <2>2. \A d \in NodeDef : New(EntryOf(d, {e.id}, {e.id}))
    BY DEF New, EntryOf, NamedId
  <2> QED
    BY <1>1, <2>1, <2>2, EntryOfType
<1>6. SpawnedEntries(ns, e) =
         [m \in 1 .. n |-> EntryOf(defs[Nth(fresh, m)], {e.id}, {e.id})]
  BY DEF SpawnedEntries
<1> HIDE DEF defs, fresh, n
<1>7. /\ SpawnedEntries(ns, e) \in [1 .. n -> Entry]
      /\ \A m \in 1 .. n : New(SpawnedEntries(ns, e)[m])
  BY <1>5, <1>6
<1> QED
  BY <1>3, <1>7, FunctionIsSeq

LEMMA PlannedShape ==
    ASSUME NEW defs \in Seq(NodeDef)
    PROVE  /\ [k \in DOMAIN defs |-> EntryOf(defs[k], {}, {})] \in Seq(Entry)
           /\ \A k \in DOMAIN [j \in DOMAIN defs |-> EntryOf(defs[j], {}, {})] :
                  New([j \in DOMAIN defs |-> EntryOf(defs[j], {}, {})][k])
<1>1. Len(defs) \in Nat /\ DOMAIN defs = 1 .. Len(defs)
      /\ \A k \in 1 .. Len(defs) : defs[k] \in NodeDef
  BY LenProperties
<1>2. \A k \in 1 .. Len(defs) : EntryOf(defs[k], {}, {}) \in Entry
  BY <1>1, EntryOfType
<1>3. \A k \in 1 .. Len(defs) : New(EntryOf(defs[k], {}, {}))
  BY DEF New, EntryOf, NamedId
<1> QED
  BY <1>1, <1>2, <1>3, FunctionIsSeq

(* Appending a sequence of entries keeps the others. *)
LEMMA ConcatShape ==
    ASSUME NEW ns \in Seq(Entry), NEW more \in Seq(Entry)
    PROVE  /\ ns \o more \in Seq(Entry)
           /\ DOMAIN ns \subseteq DOMAIN (ns \o more)
           /\ \A i \in DOMAIN ns : (ns \o more)[i] = ns[i]
           /\ \A i \in DOMAIN (ns \o more) \ DOMAIN ns :
                  \E k \in DOMAIN more : (ns \o more)[i] = more[k]
  BY ConcatProperties, LenProperties

LEMMA RejectedShape ==
    ASSUME NEW m \in Manifest
    PROVE  /\ Rejected(m) \in Manifest /\ Len(Rejected(m).nodes) = Len(m.nodes)
           /\ \A i \in 1 .. Len(m.nodes) : \E def \in BOOLEAN :
                  \E status \in {"pending", m.nodes[i].status} :
                     Rejected(m).nodes[i] =
                        [m.nodes[i] EXCEPT !.def = def, !.status = status]
<1> DEFINE names == {NamedId(x) : x \in {plan.nodes[k].name : k \in DOMAIN plan.nodes}}
           def(i) == m.nodes[i].def /\ m.nodes[i].id \notin names
           status(i) == IF m.nodes[i].id = NamedId(Planner) THEN "pending"
                        ELSE m.nodes[i].status
           r(i) == [m.nodes[i] EXCEPT !.def = def(i), !.status = status(i)]
<1>1. /\ m.nodes \in Seq(Entry) /\ Len(m.nodes) \in Nat
      /\ DOMAIN m.nodes = 1 .. Len(m.nodes)
      /\ \A i \in 1 .. Len(m.nodes) : m.nodes[i] \in Entry
  BY LenProperties DEF Manifest
<1>2. /\ Rejected(m).phase = "planning"
      /\ Rejected(m).nodes = [i \in 1 .. Len(m.nodes) |-> r(i)]
      /\ Rejected(m) = [phase |-> Rejected(m).phase, nodes |-> Rejected(m).nodes]
  BY <1>1 DEF Rejected
<1>3. \A i \in 1 .. Len(m.nodes) :
         def(i) \in BOOLEAN /\ status(i) \in {"pending", m.nodes[i].status}
  BY <1>1
<1> HIDE DEF def, status
<1>4. \A i \in 1 .. Len(m.nodes) : r(i) \in Entry
  BY <1>1, <1>3 DEF Entry, NodeStatuses
<1>5. /\ Rejected(m).nodes \in [1 .. Len(m.nodes) -> Entry]
      /\ \A i \in 1 .. Len(m.nodes) : Rejected(m).nodes[i] = r(i)
  BY <1>2, <1>4
<1>6. Rejected(m).nodes \in Seq(Entry) /\ Len(Rejected(m).nodes) = Len(m.nodes)
  BY <1>1, <1>5, FunctionIsSeq
<1>7. Rejected(m) \in Manifest
  BY <1>2, <1>6 DEF Manifest, Phases
<1> QED
  BY <1>3, <1>5, <1>6, <1>7

LEMMA AcceptedShape ==
    ASSUME NEW m \in Manifest, plan.nodes \in Seq(NodeDef)
    PROVE  /\ Accepted(m) \in Manifest
           /\ \E more \in Seq(Entry) :
                 /\ Accepted(m).nodes = m.nodes \o more
                 /\ \A k \in DOMAIN more : New(more[k])
<1> DEFINE more == [k \in DOMAIN plan.nodes |-> EntryOf(plan.nodes[k], {}, {})]
<1>1. more \in Seq(Entry) /\ \A k \in DOMAIN more : New(more[k])
  BY PlannedShape
<1> HIDE DEF more
<1>2. Accepted(m) = [phase |-> "running", nodes |-> m.nodes \o more]
  BY DEF Accepted, more
<1>3. m.nodes \o more \in Seq(Entry)
  BY <1>1, ConcatShape DEF Manifest
<1> QED
  BY <1>1, <1>2, <1>3 DEF Manifest, Phases

LEMMA WithNodes ==
    ASSUME NEW m \in Manifest, NEW ns \in Seq(Entry), NEW phase \in Phases
    PROVE  /\ [m EXCEPT !.nodes = ns] \in Manifest
           /\ [m EXCEPT !.nodes = ns].nodes = ns
           /\ [m EXCEPT !.phase = phase] \in Manifest
           /\ [m EXCEPT !.phase = phase].nodes = m.nodes
           /\ [m EXCEPT !.phase = phase].phase = phase
           /\ [m EXCEPT !.nodes = ns, !.phase = phase] \in Manifest
           /\ [m EXCEPT !.nodes = ns, !.phase = phase].nodes = ns
  BY DEF Manifest

(* Processes change state, none comes or goes. *)
LEMMA ProcsType ==
    ASSUME procs \subseteq Proc, IsFiniteSet(procs)
    PROVE  /\ Reaped(procs) \subseteq Proc /\ IsFiniteSet(Reaped(procs))
           /\ Orphaned(procs) \subseteq Proc /\ IsFiniteSet(Orphaned(procs))
<1> DEFINE reap(p) == IF p.state = "zombie" THEN [p EXCEPT !.state = "gone"] ELSE p
           orphan(p) == [p EXCEPT !.child = FALSE]
           f == [p \in procs |-> reap(p)]
           g == [p \in Reaped(procs) |-> orphan(p)]
<1>1. \A p \in Proc : reap(p) \in Proc /\ orphan(p) \in Proc
  BY DEF Proc
<1>2. Reaped(procs) = {reap(p) : p \in procs}
  BY DEF Reaped
<1>3. Orphaned(procs) = {orphan(p) : p \in Reaped(procs)}
  BY DEF Orphaned
<1> HIDE DEF reap, orphan
<1>4. f \in Surjection(procs, Reaped(procs))
  BY <1>2 DEF Surjection
<1>5. IsFiniteSet(Reaped(procs)) /\ Reaped(procs) \subseteq Proc
  BY <1>1, <1>2, <1>4, FS_Surjection
<1>6. g \in Surjection(Reaped(procs), Orphaned(procs))
  BY <1>3 DEF Surjection
<1> QED
  BY <1>1, <1>3, <1>5, <1>6, FS_Surjection

-----------------------------------------------------------------------------
(* Type correctness.                                                       *)

PcInv ==
    /\ pc \notin {"dispatch", "launched", "sync"} => cand = {}
    /\ pc = "launched" => cand # {}
    /\ pc = "sync" => cursor \in DOMAIN mem.nodes \ cand

TypeInv == TypeOK /\ IsFiniteSet(procs) /\ PcInv

LEMMA CandidateType ==
    ASSUME TypeInv, cand # {}
    PROVE  /\ Candidate \in cand /\ Candidate \in DOMAIN mem.nodes
           /\ mem.nodes[Candidate] \in Entry
<1>1. mem.nodes \in Seq(Entry) /\ cand \subseteq DOMAIN mem.nodes
  BY DEF TypeInv, TypeOK, Manifest
<1>2. DOMAIN mem.nodes \subseteq Nat
  BY <1>1, LenProperties
<1>3. Candidate \in cand
  BY <1>1, <1>2, FirstOfType DEF Candidate
<1> QED
  BY <1>1, <1>3, ElementOfSeq, LenProperties

LEMMA TypeInit == Init => TypeInv
<1> SUFFICES ASSUME Init PROVE TypeInv
  OBVIOUS
<1>1. disk \in Manifest
  <2>1. <<PlannerEntry>> \in Seq(Entry)
    BY PlannerEntryType
  <2> QED
    BY <2>1 DEF Init, Manifest, Phases
<1>2. procs \subseteq Proc /\ IsFiniteSet(procs)
  BY FS_EmptySet DEF Init
<1> QED
  BY <1>1, <1>2 DEF Init, TypeInv, TypeOK, PcInv, NoPlan

LEMMA TypeReconcile == TypeInv /\ Reconcile => TypeInv'
<1> SUFFICES ASSUME TypeInv, Reconcile PROVE TypeInv'
  OBVIOUS
<1> USE DEF TypeInv
<1>1. /\ mem.nodes \in Seq(Entry) /\ mem.phase \in Phases /\ mem \in Manifest
      /\ DOMAIN mem.nodes = 1 .. Len(mem.nodes) /\ Len(mem.nodes) \in Nat
      /\ \A i \in DOMAIN mem.nodes : mem.nodes[i] \in Entry
  BY LenProperties DEF TypeOK, Manifest
<1>2. CASE ReconcileNode
  <2> DEFINE i == FirstOf(ToSettle)
  <2>1. i \in DOMAIN mem.nodes
    <3>1. ToSettle \in SUBSET DOMAIN mem.nodes /\ ToSettle # {}
      BY <1>2 DEF ReconcileNode, ToSettle
    <3> QED
      BY <1>1, <3>1, FirstInDomain
  <2> DEFINE ns == Settle(mem.nodes, i, Settled(mem.nodes[i]))
  <2>2. ns \in Seq(Entry)
    BY <1>1, <2>1, SettledType, SettleShape
  <2>3. mem' = [mem EXCEPT !.nodes = ns] /\ cursor' = i + 1
    BY <1>2 DEF ReconcileNode
  <2> HIDE DEF ns, i
  <2>4. mem' \in Manifest
    BY <1>1, <2>2, <2>3, WithNodes
  <2>5. cand = {} /\ cand' = {}
    BY <1>2 DEF ReconcileNode, PcInv
  <2>6. cursor' \in Nat \ {0}
    BY <1>1, <2>1, <2>3
  <2> QED
    BY <1>2, <2>4, <2>5, <2>6 DEF ReconcileNode, TypeOK, PcInv, files, bounds
<1>3. CASE ResolveParents
  <2>1. mem' = [mem EXCEPT !.nodes = Resolved(mem.nodes)]
    BY <1>3 DEF ResolveParents
  <2>2. mem' \in Manifest
    BY <1>1, <2>1, ResolvedShape, WithNodes
  <2>3. cand = {} /\ cand' = {}
    BY <1>3 DEF ResolveParents, PcInv
  <2> QED
    BY <1>3, <2>2, <2>3 DEF ResolveParents, TypeOK, PcInv, files, bounds
<1>4. CASE RewindNode
  <2> DEFINE i == FirstOf(ToRewind)
  <2>1. i \in DOMAIN mem.nodes
    <3>1. ToRewind \in SUBSET DOMAIN mem.nodes /\ ToRewind # {}
      BY <1>4 DEF RewindNode, ToRewind
    <3> QED
      BY <1>1, <3>1, FirstInDomain
  <2>2. PICK r \in RewindsOf(mem.nodes[i]) :
           /\ mem' = [mem EXCEPT !.nodes = Rewound(mem.nodes, r[2])]
           /\ arts' = arts \ ({r[2]} \cup StaleIds(mem.nodes, r[2]))
           /\ dirty' = dirty \ ({r[2]} \cup StaleIds(mem.nodes, r[2]))
           /\ rewinds' = rewinds \ {r}
           /\ cursor' = i + 1
    BY <1>4 DEF RewindNode
  <2>3. mem' \in Manifest
    BY <1>1, <2>2, RewoundShape, WithNodes
  <2>4. cand = {} /\ cand' = {}
    BY <1>4 DEF RewindNode, PcInv
  <2>5. cursor' \in Nat \ {0}
    BY <1>1, <2>1, <2>2
  <2>6. arts' \subseteq Id /\ dirty' \subseteq Id /\ rewinds' \subseteq Id \X Id
    BY <2>2 DEF TypeOK
  <2> QED
    BY <1>4, <2>3, <2>4, <2>5, <2>6 DEF RewindNode, TypeOK, PcInv, bounds
<1>5. CASE RewindsDone
  BY <1>5 DEF RewindsDone, TypeOK, PcInv, files, bounds
<1>6. CASE SpawnNode
  <2> DEFINE i == FirstOf(ToSpawn)
             more == SpawnedEntries(mem.nodes, mem.nodes[i])
  <2>1. i \in DOMAIN mem.nodes
    <3>1. ToSpawn \in SUBSET DOMAIN mem.nodes /\ ToSpawn # {}
      BY <1>6 DEF SpawnNode, ToSpawn
    <3> QED
      BY <1>1, <3>1, FirstInDomain
  <2>2. mem' = [mem EXCEPT !.nodes = mem.nodes \o more] /\ cursor' = i + 1
        /\ spawns' = spawns \ {mem.nodes[i].id}
    BY <1>6 DEF SpawnNode
  <2>3. more \in Seq(Entry)
    BY <1>1, <2>1, SpawnedShape
  <2> HIDE DEF more, i
  <2>4. mem' \in Manifest
    BY <1>1, <2>2, <2>3, ConcatShape, WithNodes
  <2>5. cand = {} /\ cand' = {}
    BY <1>6 DEF SpawnNode, PcInv
  <2>6. cursor' \in Nat \ {0} /\ spawns' \subseteq Id
    BY <1>1, <2>1, <2>2 DEF TypeOK
  <2> QED
    BY <1>6, <2>4, <2>5, <2>6 DEF SpawnNode, TypeOK, PcInv, bounds
<1> QED
  BY <1>2, <1>3, <1>4, <1>5, <1>6 DEF Reconcile

LEMMA LaunchesType == ASSUME TypeInv, NEW id PROVE Launches(id) \in Nat
<1> DEFINE mine == {p \in procs : p.node = id}
<1>1. mine \in SUBSET procs /\ IsFiniteSet(procs)
  BY DEF TypeInv
<1>2. IsFiniteSet(mine) /\ Cardinality(mine) \in Nat
  BY <1>1, FS_Subset, FS_CardinalityType
<1> QED
  BY <1>2 DEF Launches

(* What an executor leaves in procs. *)
LEMMA ProcsAdd ==
    ASSUME NEW ps \in SUBSET Proc, IsFiniteSet(ps), NEW p \in Proc, NEW q
    PROVE  /\ ps \cup {p} \subseteq Proc /\ IsFiniteSet(ps \cup {p})
           /\ (ps \ {q}) \cup {p} \subseteq Proc /\ IsFiniteSet((ps \ {q}) \cup {p})
  BY FS_AddElement, FS_RemoveElement

LEMMA TypeDispatch == TypeInv /\ Dispatch => TypeInv'
<1> SUFFICES ASSUME TypeInv, Dispatch PROVE TypeInv'
  OBVIOUS
<1>1. /\ mem.nodes \in Seq(Entry) /\ mem.phase \in Phases /\ mem \in Manifest
      /\ DOMAIN mem.nodes = 1 .. Len(mem.nodes) /\ Len(mem.nodes) \in Nat
      /\ \A i \in DOMAIN mem.nodes : mem.nodes[i] \in Entry
  BY LenProperties DEF TypeInv, TypeOK, Manifest
<1>2. /\ Reaped(procs) \subseteq Proc /\ IsFiniteSet(Reaped(procs))
      /\ Orphaned(procs) \subseteq Proc /\ IsFiniteSet(Orphaned(procs))
  BY ProcsType DEF TypeInv, TypeOK
<1> DEFINE c == Candidate
           e == mem.nodes[c]
<1>3. cand # {} => c \in cand /\ c \in DOMAIN mem.nodes /\ e \in Entry
  BY CandidateType
<1>4. CASE DispatchAborts
  BY <1>2, <1>4 DEF DispatchAborts, Return, files, bounds, TypeInv, TypeOK, PcInv
<1>5. CASE LaunchExecutor
  <2> DEFINE run == Launches(e.id) + 1
             p == [node |-> e.id, run |-> run, state |-> "live", child |-> TRUE]
             e2 == [Started(e) EXCEPT !.pid = run]
             ns == [mem.nodes EXCEPT ![c] = e2]
  <2>1. cand # {} /\ pc' = "launched"
        /\ UNCHANGED <<files, cursor, cand, bounds>>
    BY <1>5 DEF LaunchExecutor, Dispatching
  <2>2. procs' = Reaped(procs) \cup {p} /\ mem' = [mem EXCEPT !.nodes = ns]
    BY <1>1, <1>3, <1>5, <2>1 DEF LaunchExecutor, Manifest
  <2>3. run \in Nat
    BY LaunchesType
  <2>4. e2 \in Entry
    <3> HIDE DEF run
    <3> QED
      BY <1>3, <2>1, <2>3, StartedType DEF Entry
  <2>5. p \in Proc
    BY <1>3, <2>1, <2>3 DEF Entry, Proc
  <2>6. ns \in Seq(Entry) /\ DOMAIN ns = DOMAIN mem.nodes
    <3> HIDE DEF e2
    <3> QED
      BY <1>1, <1>3, <2>1, <2>4, ExceptSeq
  <2> HIDE DEF ns, p
  <2>7. mem' \in Manifest /\ mem'.nodes = ns
    BY <1>1, <2>2, <2>6, WithNodes
  <2>8. procs' \subseteq Proc /\ IsFiniteSet(procs')
    BY <1>2, <2>2, <2>5, ProcsAdd
  <2> QED
    BY <2>1, <2>6, <2>7, <2>8 DEF TypeInv, TypeOK, PcInv, files, bounds
<1>6. CASE ExecutorNotFound
  <2> DEFINE e2 == [Started(e) EXCEPT !.status = "failed", !.pid = NoPid]
             ns == Settle(mem.nodes, c, e2)
  <2>1. /\ cand # {} /\ pc' = "launched" /\ procs' = Reaped(procs)
        /\ mem' = [mem EXCEPT !.nodes = ns]
        /\ UNCHANGED <<files, cursor, cand, bounds>>
    BY <1>6 DEF ExecutorNotFound, Dispatching
  <2>2. e2 \in Entry
    BY <1>3, <2>1, StartedType DEF Entry, NodeStatuses, NoPid
  <2> HIDE DEF e2
  <2>3. ns \in Seq(Entry) /\ DOMAIN mem.nodes \subseteq DOMAIN ns
    BY <1>1, <1>3, <2>1, <2>2, SettleShape
  <2> HIDE DEF ns
  <2>4. mem' \in Manifest /\ mem'.nodes = ns
    BY <1>1, <2>1, <2>3, WithNodes
  <2> QED
    BY <1>2, <2>1, <2>3, <2>4 DEF TypeInv, TypeOK, PcInv, files, bounds
<1>7. CASE WriteLaunched
  BY <1>7 DEF WriteLaunched, TypeInv, TypeOK, PcInv, bounds
<1>8. CASE StartSync
  <2> DEFINE ns == [mem.nodes EXCEPT ![c] = Started(e)]
  <2>1. /\ cand # {} /\ pc' = "sync" /\ cursor' = c /\ cand' = cand \ {c}
        /\ procs' \in {procs, Reaped(procs)} /\ disk' = mem'
        /\ UNCHANGED <<index, plan, arts, dirty, spawns, rewinds, bounds>>
    BY <1>8 DEF StartSync, Dispatching
  <2>2. mem' = [mem EXCEPT !.nodes = ns]
    BY <1>1, <1>3, <1>8, <2>1 DEF StartSync, Manifest
  <2>3. ns \in Seq(Entry) /\ DOMAIN ns = DOMAIN mem.nodes
    BY <1>1, <1>3, <2>1, StartedType, ExceptSeq
  <2> HIDE DEF ns
  <2>4. mem' \in Manifest /\ mem'.nodes = ns
    BY <1>1, <2>2, <2>3, WithNodes
  <2>5. procs' \subseteq Proc /\ IsFiniteSet(procs')
    BY <1>2, <2>1 DEF TypeInv, TypeOK
  <2>6. c \in DOMAIN mem'.nodes /\ c \in Nat \ {0}
    BY <1>1, <1>3, <2>1, <2>3, <2>4
  <2> HIDE DEF c
  <2> QED
    BY <2>1, <2>3, <2>4, <2>5, <2>6 DEF TypeInv, TypeOK, PcInv, bounds
<1>9. ASSUME NEW ok \in BOOLEAN, SyncReturns(ok) PROVE TypeInv'
  <2> DEFINE f == mem.nodes[cursor]
             success == ok /\ (f.mode = "planning" => plan # NoPlan)
             f2 == [f EXCEPT !.status = IF success THEN "completed" ELSE "failed"]
             ns == Settle(mem.nodes, cursor, f2)
             phase == IF success /\ f.mode = "planning"
                        THEN "awaiting_confirm" ELSE mem.phase
             settled == [mem EXCEPT !.nodes = ns, !.phase = phase]
             failed == [settled EXCEPT !.phase = "failed"]
  <2>1. pc = "sync" /\ cursor \in DOMAIN mem.nodes
    BY <1>9 DEF SyncReturns, TypeInv, PcInv
  <2>2. f2 \in Entry
    BY <1>1, <2>1 DEF Entry, NodeStatuses
  <2> HIDE DEF f2
  <2>3. ns \in Seq(Entry) /\ DOMAIN mem.nodes \subseteq DOMAIN ns
    BY <1>1, <2>1, <2>2, SettleShape
  <2>4. phase \in Phases /\ "failed" \in Phases
    BY <1>1 DEF Phases
  <2>5. /\ mem' \in {settled, failed} /\ disk' \in {failed, disk}
        /\ \/ pc' = "indexFailed" /\ cand' = {}
           \/ pc' = "dispatch" /\ cand' = cand
        /\ cursor' = 1
        /\ UNCHANGED <<index, plan, arts, dirty, spawns, rewinds, procs, bounds>>
    BY <1>9 DEF SyncReturns, f2
  <2> HIDE DEF ns, phase
  <2>6. /\ settled \in Manifest /\ settled.nodes = ns
        /\ failed \in Manifest /\ failed.nodes = ns
    BY <1>1, <2>3, <2>4 DEF Manifest
  <2> HIDE DEF settled, failed
  <2> QED
    BY <2>3, <2>5, <2>6 DEF TypeInv, TypeOK, PcInv, bounds
<1> QED
  BY <1>4, <1>5, <1>6, <1>7, <1>8, <1>9 DEF Dispatch

(* The steps that end a cycle or a command, and those of the user. *)
LEMMA TypeCommands ==
    ASSUME TypeInv,
           \/ StartCycle \/ RouteAwaiting \/ Route \/ Finish
           \/ WriteConfirmed \/ ReopenWorkflow \/ SyncIndex("indexActive", "active")
           \/ User \/ Crash \/ QuitRepl
    PROVE  TypeInv'
<1>1. /\ Orphaned(procs) \subseteq Proc /\ IsFiniteSet(Orphaned(procs))
  BY ProcsType DEF TypeInv, TypeOK
<1>2. \A phase \in Phases : [mem EXCEPT !.phase = phase] \in Manifest
  BY DEF TypeInv, TypeOK, Manifest
<1>3. Exit => procs' \subseteq Proc /\ IsFiniteSet(procs')
  BY <1>1 DEF Exit, TypeInv, TypeOK
<1>4. CASE StartCycle
  BY <1>4 DEF StartCycle, TypeInv, TypeOK, PcInv, files, bounds
<1>5. CASE RouteAwaiting
  BY <1>3, <1>5 DEF RouteAwaiting, Return, TypeInv, TypeOK, PcInv, files, bounds
<1>6. CASE Route
  <2> DEFINE S == Selected(mem.nodes)
             done == mem.nodes # <<>> /\ AllCompleted(mem.nodes)
  <2>1. S \subseteq DOMAIN mem.nodes
    BY DEF Selected, Ready
  <2>2. /\ \/ pc' = "complete" /\ cand' = {}
           \/ pc' = "dispatch" /\ cand' = S
           \/ pc' \in {"failed", "blocked"} /\ cand' = {}
        /\ UNCHANGED <<files, procs, mem, cursor, bounds>>
    <3> HIDE DEF S, done
    <3>1. /\ cand' = IF done THEN {} ELSE S
          /\ pc' = CASE done             -> "complete"
                     [] ~done /\ S # {} -> "dispatch"
                     [] ~done /\ S = {} ->
                           IF Running(mem.nodes) = {} /\ Exhausted(mem.nodes) # {}
                             THEN "failed" ELSE "blocked"
          /\ UNCHANGED <<files, procs, mem, cursor, bounds>>
      BY <1>6 DEF Route, S, done
    <3>2. CASE done
      BY <3>1, <3>2
    <3>3. CASE ~done /\ S # {}
      BY <3>1, <3>3
    <3>4. CASE ~done /\ S = {}
      BY <3>1, <3>4
    <3> QED
      BY <3>2, <3>3, <3>4
  <2> HIDE DEF S
  <2> QED
    BY <2>1, <2>2 DEF TypeInv, TypeOK, PcInv, files, bounds
<1>7. CASE Persist
  <2>1. disk' = mem /\ mem' = mem /\ pc' = "idle" /\ cursor' = 1 /\ cand' = {}
        /\ UNCHANGED <<index, plan, arts, dirty, spawns, rewinds, bounds>>
    BY <1>7 DEF Persist, WriteManifest, Return
  <2>2. procs' \subseteq Proc /\ IsFiniteSet(procs')
    BY <1>3, <1>7 DEF Persist
  <2> QED
    BY <2>1, <2>2 DEF TypeInv, TypeOK, PcInv, bounds
<1>8. ASSUME NEW phase \in {"complete", "failed"},
             NEW next \in {"indexComplete", "indexFailed"}, Finalize(phase, next)
      PROVE  TypeInv'
  <2>1. phase \in Phases /\ pc \notin {"dispatch", "launched", "sync"}
    BY <1>8 DEF Phases, Finalize
  <2>2. mem' \in Manifest /\ disk' \in Manifest /\ mem'.nodes = mem.nodes
    BY <1>2, <1>8, <2>1 DEF Finalize, WriteManifest, TypeInv, TypeOK, Manifest
  <2> QED
    BY <1>8, <2>1, <2>2 DEF Finalize, WriteManifest, TypeInv, TypeOK, PcInv, bounds
<1>9. ASSUME NEW at, NEW status \in {"active", "complete", "failed"}, SyncIndex(at, status)
      PROVE  TypeInv'
  <2>1. procs' \subseteq Proc /\ IsFiniteSet(procs')
    BY <1>3, <1>9 DEF SyncIndex
  <2> QED
    BY <1>9, <2>1 DEF SyncIndex, Return, TypeInv, TypeOK, PcInv, bounds
<1>10. CASE WriteConfirmed
  <2>1. disk' = mem /\ mem' = mem /\ pc' = "idle" /\ cursor' = 1 /\ cand' = {}
        /\ UNCHANGED <<index, plan, arts, dirty, spawns, rewinds, bounds>>
    BY <1>10 DEF WriteConfirmed, WriteManifest, Return
  <2>2. procs' \subseteq Proc /\ IsFiniteSet(procs')
    BY <1>3, <1>10 DEF WriteConfirmed
  <2> QED
    BY <2>1, <2>2 DEF TypeInv, TypeOK, PcInv, bounds
<1>11. CASE ReopenWorkflow
  <2>1. "running" \in Phases /\ pc \notin {"dispatch", "launched", "sync"}
    BY <1>11 DEF Phases, ReopenWorkflow
  <2>2. mem' \in Manifest /\ disk' \in Manifest /\ mem'.nodes = mem.nodes
    BY <1>2, <1>11, <2>1 DEF ReopenWorkflow, WriteManifest, TypeInv, TypeOK, Manifest
  <2> QED
    BY <1>11, <2>1, <2>2 DEF ReopenWorkflow, WriteManifest, TypeInv, TypeOK, PcInv, bounds
<1>12. ASSUME NEW answer, Confirm(answer) PROVE TypeInv'
  <2>1. plan.nodes \in Seq(NodeDef) /\ disk \in Manifest
    BY <1>12, InputsAssumption DEF Confirm, TypeInv, TypeOK
  <2>2. Accepted(disk) \in Manifest /\ Rejected(disk) \in Manifest
    BY <2>1, AcceptedShape, RejectedShape
  <2>3. mem' \in Manifest /\ cand = {} /\ cand' = {}
    BY <1>12, <2>2 DEF Confirm, TypeInv, PcInv
  <2> QED
    BY <1>12, <2>3 DEF Confirm, TypeInv, TypeOK, PcInv, bounds
<1>13. ASSUME NEW i, ResetNode(i) PROVE TypeInv'
  <2> DEFINE e == disk.nodes[i]
             e2 == [e EXCEPT !.status = "pending", !.pid = IF Repl THEN e.pid ELSE NoPid]
             ns == [disk.nodes EXCEPT ![i] = e2]
  <2>1. /\ disk.nodes \in Seq(Entry) /\ disk.phase \in Phases /\ disk \in Manifest
        /\ i \in DOMAIN disk.nodes /\ e \in Entry
    BY <1>13, ElementOfSeq, LenProperties DEF ResetNode, TypeInv, TypeOK, Manifest
  <2>2. e2 \in Entry
    BY <2>1 DEF Entry, NodeStatuses, NoPid
  <2>3. /\ disk' = [disk EXCEPT !.nodes = ns] /\ mem' = disk'
        /\ pc = "idle" /\ pc' \in {"reset", "idle"} /\ resets' = resets + 1
        /\ UNCHANGED <<index, plan, arts, dirty, spawns, rewinds,
                       procs, cursor, cand, crashes>>
    BY <1>13, <2>1 DEF ResetNode, Manifest
  <2>4. ns \in Seq(Entry)
    BY <2>1, <2>2, ExceptSeq
  <2> HIDE DEF ns
  <2>5. mem' \in Manifest /\ disk' \in Manifest
    BY <2>1, <2>3, <2>4, WithNodes
  <2>6. resets' \in Nat /\ cand = {}
    BY <2>3 DEF TypeInv, TypeOK, PcInv
  <2> QED
    BY <2>3, <2>5, <2>6 DEF TypeInv, TypeOK, PcInv
<1>14. CASE Crash
  BY <1>1, <1>14 DEF Crash, Return, files, TypeInv, TypeOK, PcInv
<1>15. CASE QuitRepl
  BY <1>1, <1>15 DEF QuitRepl, files, bounds, TypeInv, TypeOK, PcInv
<1>16. Finish => TypeInv'
  BY <1>7, <1>8, <1>9 DEF Finish
<1>17. User => TypeInv'
  BY <1>12, <1>13 DEF User
<1> QED
  BY <1>4, <1>5, <1>6, <1>9, <1>10, <1>11, <1>14, <1>15, <1>16, <1>17

LEMMA TypeExternal ==
    ASSUME TypeInv, PlannerWrites \/ SyncSpawns \/ Executors PROVE TypeInv'
<1>1. \A x \in NodeName : NamedId(x) \in Id
  BY EmptySeq DEF NamedId, Id
<1>2. pc = "sync" => /\ mem.nodes[cursor] \in Entry
                     /\ mem.nodes[cursor].id \in Id
                     /\ mem.nodes[cursor].attempt_count \in Nat
  <2> SUFFICES ASSUME pc = "sync" PROVE mem.nodes[cursor] \in Entry
    BY DEF Entry
  <2>1. mem.nodes \in Seq(Entry) /\ cursor \in DOMAIN mem.nodes
    BY DEF TypeInv, TypeOK, PcInv, Manifest
  <2> QED
    BY <2>1, ElementOfSeq, LenProperties
<1>3. CASE PlannerWrites
  BY <1>2, <1>3 DEF PlannerWrites, TypeInv, TypeOK, PcInv, bounds
<1>4. CASE SyncSpawns
  BY <1>2, <1>4 DEF SyncSpawns, TypeInv, TypeOK, PcInv, bounds
<1>5. ASSUME NEW p \in procs, NEW wrote \in BOOLEAN, ExecutorExits(p, wrote)
      PROVE  TypeInv'
  <2> DEFINE q == [p EXCEPT !.state = IF p.child THEN "zombie" ELSE "gone"]
  <2>1. p \in Proc /\ p.node \in Id /\ q \in Proc
    BY DEF TypeInv, TypeOK, Proc
  <2>2. procs' = (procs \ {p}) \cup {q}
    BY <1>5 DEF ExecutorExits
  <2> HIDE DEF q
  <2>3. procs' \subseteq Proc /\ IsFiniteSet(procs')
    BY <2>1, <2>2, ProcsAdd DEF TypeInv, TypeOK
  <2>4. arts' \subseteq Id /\ dirty' \subseteq Id
    BY <1>5, <2>1 DEF ExecutorExits, TypeInv, TypeOK
  <2>5. rewinds' \subseteq Id \X Id
    <3>1. \A target \in RewindTo : <<p.node, NamedId(target)>> \in Id \X Id
      BY <1>1, <2>1, InputsAssumption
    <3> QED
      BY <1>5, <3>1 DEF ExecutorExits, TypeInv, TypeOK
  <2>6. spawns' \subseteq Id
    BY <1>5, <2>1 DEF ExecutorExits, TypeInv, TypeOK
  <2> QED
    BY <1>5, <2>3, <2>4, <2>5, <2>6 DEF ExecutorExits, TypeInv, TypeOK, PcInv, bounds
<1> QED
  BY <1>3, <1>4, <1>5 DEF Executors

LEMMA TypeStep == TypeInv /\ [Next]_vars => TypeInv'
<1>1. TypeInv /\ UNCHANGED vars => TypeInv'
  BY DEF vars, TypeInv, TypeOK, PcInv
<1> QED
  BY <1>1, TypeReconcile, TypeDispatch, TypeCommands, TypeExternal
     DEF Next, EngineStep

LEMMA TypeInvariant == Spec => []TypeInv
  BY TypeInit, TypeStep, PTL DEF Spec

(* What the engine, its executors and the user do keeps every variable,    *)
(* the two copies of the manifest among them, in its type.                 *)
THEOREM TypeCorrect == Spec => []TypeOK
<1>1. TypeInv => TypeOK
  BY DEF TypeInv
<1> QED
  BY <1>1, TypeInvariant, PTL

-----------------------------------------------------------------------------
(* What one step does to the manifest in memory and on disk.               *)

(* b is a with the entries in S attempted once more, perhaps running, and  *)
(* with entries added that nobody attempted.                               *)
Kept(a, b, S) ==
    /\ DOMAIN a \subseteq DOMAIN b
    /\ \A i \in DOMAIN a :
          /\ b[i].id = a[i].id
          /\ i \in S => b[i].attempt_count = a[i].attempt_count + 1
          /\ i \notin S => b[i].attempt_count = a[i].attempt_count
    /\ \A i \in DOMAIN b \ DOMAIN a : b[i].attempt_count = 0
    /\ Running(b) \subseteq Running(a) \cup S

(* The selected entries that were not dispatched yet. *)
Waiting == IF pc = "launched" THEN cand \ {Candidate} ELSE cand

LEMMA KeptSame == ASSUME NEW ns PROVE Kept(ns, ns, {})
  BY DEF Kept

(* Entries that keep id and attempts, with no other one made running. *)
LEMMA KeptEntries ==
    ASSUME NEW a, NEW b, DOMAIN a = DOMAIN b,
           \A i \in DOMAIN a : /\ b[i].id = a[i].id
                               /\ b[i].attempt_count = a[i].attempt_count
                               /\ b[i].status = "running" => a[i].status = "running"
    PROVE  Kept(a, b, {})
  BY DEF Kept, Running

LEMMA KeptConcat ==
    ASSUME NEW ns \in Seq(Entry), NEW more \in Seq(Entry),
           \A k \in DOMAIN more : New(more[k])
    PROVE  Kept(ns, ns \o more, {})
  BY ConcatShape DEF Kept, Running, New

LEMMA KeptSettle ==
    ASSUME NEW ns \in Seq(Entry), NEW i \in DOMAIN ns, NEW e \in Entry,
           NEW S \in SUBSET {i},
           e.id = ns[i].id, e.status # "running",
           S = {} => e.attempt_count = ns[i].attempt_count,
           S = {i} => e.attempt_count = ns[i].attempt_count + 1
    PROVE  Kept(ns, Settle(ns, i, e), S)
<1> DEFINE b == Settle(ns, i, e)
<1>1. /\ DOMAIN ns \subseteq DOMAIN b
      /\ \A j \in DOMAIN ns : b[j] = IF j = i THEN Audited(e) ELSE ns[j]
      /\ \A j \in DOMAIN b \ DOMAIN ns :
            \E kind \in MetaKinds : b[j] = MetaEntry(kind, Audited(e))
  BY SettleShape
<1> HIDE DEF b
<1>2. /\ Audited(e).id = e.id /\ Audited(e).attempt_count = e.attempt_count
      /\ Audited(e).status # "running"
  BY AuditedType DEF Entry
<1>3. \A j \in DOMAIN b \ DOMAIN ns : b[j].status = "pending" /\ b[j].attempt_count = 0
  BY <1>1 DEF MetaEntry
<1>4. S = {} \/ S = {i}
  OBVIOUS
<1>5. Running(b) \subseteq Running(ns)
  BY <1>1, <1>2, <1>3 DEF Running
<1>6. \A j \in DOMAIN ns :
         /\ b[j].id = ns[j].id
         /\ j \in S => b[j].attempt_count = ns[j].attempt_count + 1
         /\ j \notin S => b[j].attempt_count = ns[j].attempt_count
  BY <1>1, <1>2, <1>4
<1> QED
  BY <1>1, <1>3, <1>5, <1>6 DEF Kept, b

LEMMA KeptResolved ==
    ASSUME NEW ns \in Seq(Entry) PROVE Kept(ns, Resolved(ns), {})
<1>1. DOMAIN ns = 1 .. Len(ns) /\ \A i \in 1 .. Len(ns) : ns[i] \in Entry
  BY LenProperties
<1>2. DOMAIN Resolved(ns) = DOMAIN ns
  BY DEF Resolved
<1>3. \A i \in DOMAIN ns :
         /\ Resolved(ns)[i].id = ns[i].id
         /\ Resolved(ns)[i].attempt_count = ns[i].attempt_count
         /\ Resolved(ns)[i].status = "running" => ns[i].status = "running"
  <2> SUFFICES ASSUME NEW i \in 1 .. Len(ns)
               PROVE  /\ Resolved(ns)[i].id = ns[i].id
                      /\ Resolved(ns)[i].attempt_count = ns[i].attempt_count
                      /\ Resolved(ns)[i].status = "running" => ns[i].status = "running"
    BY <1>1
  <2> DEFINE e == ns[i]
             b == Resolved(ns)[i]
  <2>1. e \in Entry
    BY <1>1
  <2>2. b = e \/ b = [e EXCEPT !.status = "completed"]
    BY ResolvedShape
  <2> HIDE DEF e, b
  <2>3. b.id = e.id /\ b.attempt_count = e.attempt_count
        /\ (b.status = "running" => e.status = "running")
    BY <2>1, <2>2 DEF Entry
  <2> QED
    BY <2>3 DEF e, b
<1> QED
  BY <1>2, <1>3, KeptEntries

LEMMA KeptRewound ==
    ASSUME NEW ns \in Seq(Entry), NEW target PROVE Kept(ns, Rewound(ns, target), {})
<1>1. DOMAIN ns = 1 .. Len(ns) /\ \A i \in 1 .. Len(ns) : ns[i] \in Entry
  BY LenProperties
<1>2. DOMAIN Rewound(ns, target) = DOMAIN ns
  BY DEF Rewound
<1>3. \A i \in DOMAIN ns :
         /\ Rewound(ns, target)[i].id = ns[i].id
         /\ Rewound(ns, target)[i].attempt_count = ns[i].attempt_count
         /\ Rewound(ns, target)[i].status = "running" => ns[i].status = "running"
  <2> SUFFICES ASSUME NEW i \in 1 .. Len(ns)
               PROVE  /\ Rewound(ns, target)[i].id = ns[i].id
                      /\ Rewound(ns, target)[i].attempt_count = ns[i].attempt_count
                      /\ Rewound(ns, target)[i].status = "running" => ns[i].status = "running"
    BY <1>1
  <2> DEFINE e == ns[i]
             b == Rewound(ns, target)[i]
  <2>1. e \in Entry
    BY <1>1
  <2>2. b = e \/ \E status \in {"pending", "stale"} :
                    b = [e EXCEPT !.status = status, !.pid = NoPid]
    <3>1. \A j \in 1 .. Len(ns) :
             \/ Rewound(ns, target)[j] = ns[j]
             \/ \E status \in {"pending", "stale"} :
                   Rewound(ns, target)[j] =
                       [ns[j] EXCEPT !.status = status, !.pid = NoPid]
      BY RewoundShape
    <3> QED
      BY <3>1
  <2> HIDE DEF e, b
  <2>3. b.id = e.id /\ b.attempt_count = e.attempt_count
        /\ (b.status = "running" => e.status = "running")
    BY <2>1, <2>2 DEF Entry
  <2> QED
    BY <2>3 DEF e, b
<1> QED
  BY <1>2, <1>3, KeptEntries

LEMMA KeptRejected ==
    ASSUME NEW m \in Manifest PROVE Kept(m.nodes, Rejected(m).nodes, {})
<1>1. /\ DOMAIN m.nodes = 1 .. Len(m.nodes)
      /\ \A i \in 1 .. Len(m.nodes) : m.nodes[i] \in Entry
  BY LenProperties DEF Manifest
<1>2. DOMAIN Rejected(m).nodes = DOMAIN m.nodes
  BY DEF Rejected
<1>3. \A i \in DOMAIN m.nodes :
         /\ Rejected(m).nodes[i].id = m.nodes[i].id
         /\ Rejected(m).nodes[i].attempt_count = m.nodes[i].attempt_count
         /\ Rejected(m).nodes[i].status = "running" => m.nodes[i].status = "running"
  <2> SUFFICES ASSUME NEW i \in 1 .. Len(m.nodes)
               PROVE  /\ Rejected(m).nodes[i].id = m.nodes[i].id
                      /\ Rejected(m).nodes[i].attempt_count = m.nodes[i].attempt_count
                      /\ Rejected(m).nodes[i].status = "running" => m.nodes[i].status = "running"
    BY <1>1
  <2> DEFINE e == m.nodes[i]
             b == Rejected(m).nodes[i]
  <2>1. e \in Entry
    BY <1>1
  <2>2. \E def \in BOOLEAN : \E status \in {"pending", e.status} :
           b = [e EXCEPT !.def = def, !.status = status]
    BY RejectedShape
  <2> HIDE DEF e, b
  <2>3. b.id = e.id /\ b.attempt_count = e.attempt_count
        /\ (b.status = "running" => e.status = "running")
    BY <2>1, <2>2 DEF Entry
  <2> QED
    BY <2>3 DEF e, b
<1> QED
  BY <1>2, <1>3, KeptEntries

(* One entry starts. *)
LEMMA KeptStarted ==
    ASSUME NEW ns \in Seq(Entry), NEW i \in DOMAIN ns, NEW e \in Entry,
           e.id = ns[i].id, e.attempt_count = ns[i].attempt_count + 1
    PROVE  Kept(ns, [ns EXCEPT ![i] = e], {i})
  BY DEF Kept, Running

(* A cycle or a command starts from what is on disk. *)
FromDisk ==
    /\ Kept(disk.nodes, mem'.nodes, {}) /\ Waiting' = {}
    /\ disk' = disk \/ disk' = mem'

(* No entry starts. *)
Quiet ==
    /\ Kept(mem.nodes, mem'.nodes, {}) /\ Waiting' \subseteq Waiting
    /\ disk' = disk \/ disk' = mem'

(* A selected entry starts. *)
Starts ==
    \E c \in Waiting :
        /\ Kept(mem.nodes, mem'.nodes, {c}) /\ Waiting' \subseteq Waiting \ {c}
        /\ disk' = disk \/ disk' = mem'

(* Entries are selected. *)
Selects ==
    /\ mem' = mem /\ disk' = disk
    /\ Waiting = {} /\ Waiting' \subseteq Selected(mem.nodes)

LEMMA StepReconcile == ASSUME TypeInv, Reconcile PROVE Quiet
<1>1. /\ mem.nodes \in Seq(Entry) /\ mem \in Manifest
      /\ \A i \in DOMAIN mem.nodes : mem.nodes[i] \in Entry
  BY ElementOfSeq, LenProperties DEF TypeInv, TypeOK, Manifest
<1>2. disk' = disk /\ cand = {} /\ cand' = {} /\ pc' # "launched" /\ pc # "launched"
  BY DEF TypeInv, PcInv, Reconcile, ReconcileNode, ResolveParents, RewindNode,
         RewindsDone, SpawnNode, files
<1>3. Waiting = {} /\ Waiting' = {}
  BY <1>2 DEF Waiting
<1>4. ASSUME NEW ns \in Seq(Entry), mem' = [mem EXCEPT !.nodes = ns],
             Kept(mem.nodes, ns, {})
      PROVE  Quiet
  BY <1>1, <1>2, <1>3, <1>4 DEF Quiet, Manifest
<1>5. CASE ReconcileNode
  <2> DEFINE i == FirstOf(ToSettle)
             e == Settled(mem.nodes[i])
             ns == Settle(mem.nodes, i, e)
  <2>1. i \in DOMAIN mem.nodes
    <3>1. ToSettle \in SUBSET DOMAIN mem.nodes /\ ToSettle # {}
      BY <1>5 DEF ReconcileNode, ToSettle
    <3> QED
      BY <1>1, <3>1, FirstInDomain
  <2>2. mem' = [mem EXCEPT !.nodes = ns]
    BY <1>5 DEF ReconcileNode
  <2>3. /\ e \in Entry /\ e.id = mem.nodes[i].id /\ e.status # "running"
        /\ e.attempt_count = mem.nodes[i].attempt_count
    BY <1>1, <2>1, SettledType
  <2> HIDE DEF i, e
  <2>4. ns \in Seq(Entry)
    BY <1>1, <2>1, <2>3, SettleShape
  <2>5. Kept(mem.nodes, ns, {})
    BY <1>1, <2>1, <2>3, KeptSettle
  <2> QED
    BY <1>4, <2>2, <2>4, <2>5
<1>6. CASE ResolveParents
  BY <1>1, <1>4, <1>6, ResolvedShape, KeptResolved DEF ResolveParents
<1>7. CASE RewindNode
  <2>1. \E target : mem' = [mem EXCEPT !.nodes = Rewound(mem.nodes, target)]
    BY <1>7 DEF RewindNode
  <2> QED
    BY <1>1, <1>4, <2>1, RewoundShape, KeptRewound
<1>8. CASE RewindsDone
  BY <1>2, <1>3, <1>8, KeptSame DEF RewindsDone, Quiet
<1>9. CASE SpawnNode
  <2> DEFINE i == FirstOf(ToSpawn)
             more == SpawnedEntries(mem.nodes, mem.nodes[i])
  <2>1. i \in DOMAIN mem.nodes
    <3>1. ToSpawn \in SUBSET DOMAIN mem.nodes /\ ToSpawn # {}
      BY <1>9 DEF SpawnNode, ToSpawn
    <3> QED
      BY <1>1, <3>1, FirstInDomain
  <2>2. mem' = [mem EXCEPT !.nodes = mem.nodes \o more]
    BY <1>9 DEF SpawnNode
  <2>3. more \in Seq(Entry) /\ \A k \in DOMAIN more : New(more[k])
    BY <1>1, <2>1, SpawnedShape
  <2> HIDE DEF more
  <2> QED
    BY <1>1, <1>4, <2>2, <2>3, ConcatShape, KeptConcat
<1> QED
  BY <1>5, <1>6, <1>7, <1>8, <1>9 DEF Reconcile

LEMMA StepDispatch ==
    ASSUME TypeInv, Dispatch PROVE FromDisk \/ Quiet \/ Starts
<1>1. /\ mem.nodes \in Seq(Entry) /\ mem \in Manifest
      /\ \A i \in DOMAIN mem.nodes : mem.nodes[i] \in Entry
  BY ElementOfSeq, LenProperties DEF TypeInv, TypeOK, Manifest
<1> DEFINE c == Candidate
           e == mem.nodes[c]
<1>2. cand # {} => c \in cand /\ c \in DOMAIN mem.nodes /\ e \in Entry
  BY CandidateType
<1>3. cand' = cand => Candidate' = c
  BY DEF Candidate, FirstOf
<1>4. CASE DispatchAborts
  BY <1>4, KeptSame DEF DispatchAborts, Return, files, FromDisk, Waiting
<1>5. CASE LaunchExecutor
  <2> DEFINE e2 == [Started(e) EXCEPT !.pid = Launches(e.id) + 1]
             ns == [mem.nodes EXCEPT ![c] = e2]
  <2>1. /\ cand # {} /\ pc = "dispatch" /\ pc' = "launched" /\ cand' = cand
        /\ disk' = disk
    BY <1>5 DEF LaunchExecutor, Dispatching, files
  <2>2. mem' = [mem EXCEPT !.nodes = ns]
    BY <1>1, <1>2, <1>5, <2>1 DEF LaunchExecutor, Manifest
  <2>3. e2 \in Entry /\ e2.id = e.id /\ e2.attempt_count = e.attempt_count + 1
    <3> DEFINE run == Launches(e.id) + 1
    <3>1. run \in Nat
      BY LaunchesType
    <3> HIDE DEF run
    <3>2. Started(e) \in Entry /\ Started(e).id = e.id
          /\ Started(e).attempt_count = e.attempt_count + 1
      BY <1>2, <2>1, StartedType
    <3>3. e2 = [Started(e) EXCEPT !.pid = run]
      BY DEF run
    <3> QED
      BY <3>1, <3>2, <3>3 DEF Entry
  <2> HIDE DEF e2
  <2>4. Kept(mem.nodes, ns, {c}) /\ mem'.nodes = ns
    BY <1>1, <1>2, <2>1, <2>2, <2>3, KeptStarted DEF Manifest
  <2>5. c \in Waiting /\ Waiting' = Waiting \ {c}
    BY <1>2, <1>3, <2>1 DEF Waiting
  <2> QED
    BY <2>1, <2>4, <2>5 DEF Starts
<1>6. CASE ExecutorNotFound
  <2> DEFINE e2 == [Started(e) EXCEPT !.status = "failed", !.pid = NoPid]
             ns == Settle(mem.nodes, c, e2)
  <2>1. /\ cand # {} /\ pc = "dispatch" /\ pc' = "launched" /\ cand' = cand
        /\ disk' = disk /\ mem' = [mem EXCEPT !.nodes = ns]
    BY <1>6 DEF ExecutorNotFound, Dispatching, files
  <2>2. /\ e2 \in Entry /\ e2.id = e.id /\ e2.status # "running"
        /\ e2.attempt_count = e.attempt_count + 1
    <3>1. Started(e) \in Entry /\ Started(e).id = e.id
          /\ Started(e).attempt_count = e.attempt_count + 1
      BY <1>2, <2>1, StartedType
    <3> QED
      BY <3>1 DEF Entry, NodeStatuses, NoPid
  <2> HIDE DEF e2
  <2>3. Kept(mem.nodes, ns, {c}) /\ mem'.nodes = ns
    BY <1>1, <1>2, <2>1, <2>2, KeptSettle DEF Manifest
  <2>4. c \in Waiting /\ Waiting' = Waiting \ {c}
    BY <1>2, <1>3, <2>1 DEF Waiting
  <2> QED
    BY <2>1, <2>3, <2>4 DEF Starts
<1>7. CASE WriteLaunched
  BY <1>7, KeptSame DEF WriteLaunched, Quiet, Waiting
<1>8. CASE StartSync
  <2> DEFINE ns == [mem.nodes EXCEPT ![c] = Started(e)]
  <2>1. /\ cand # {} /\ pc = "dispatch" /\ pc' = "sync" /\ cand' = cand \ {c}
        /\ disk' = mem'
    BY <1>8 DEF StartSync, Dispatching
  <2>2. mem' = [mem EXCEPT !.nodes = ns]
    BY <1>1, <1>2, <1>8, <2>1 DEF StartSync, Manifest
  <2>3. Kept(mem.nodes, ns, {c}) /\ mem'.nodes = ns
    BY <1>1, <1>2, <2>1, <2>2, StartedType, KeptStarted DEF Manifest
  <2>4. c \in Waiting /\ Waiting' = Waiting \ {c}
    BY <1>2, <2>1 DEF Waiting
  <2> QED
    BY <2>1, <2>3, <2>4 DEF Starts
<1>9. ASSUME NEW ok \in BOOLEAN, SyncReturns(ok) PROVE Quiet
  <2> DEFINE f == mem.nodes[cursor]
             success == ok /\ (f.mode = "planning" => plan # NoPlan)
             f2 == [f EXCEPT !.status = IF success THEN "completed" ELSE "failed"]
             ns == Settle(mem.nodes, cursor, f2)
             phase == IF success /\ f.mode = "planning"
                        THEN "awaiting_confirm" ELSE mem.phase
             settled == [mem EXCEPT !.nodes = ns, !.phase = phase]
             failed == [settled EXCEPT !.phase = "failed"]
  <2>1. pc = "sync" /\ cursor \in DOMAIN mem.nodes
    BY <1>9 DEF SyncReturns, TypeInv, PcInv
  <2>2. /\ f2 \in Entry /\ f2.id = f.id /\ f2.status # "running"
        /\ f2.attempt_count = f.attempt_count
    BY <1>1, <2>1 DEF Entry, NodeStatuses
  <2>3. \/ mem' = failed /\ disk' = failed /\ pc' = "indexFailed" /\ cand' = {}
        \/ mem' = settled /\ disk' = disk /\ pc' = "dispatch" /\ cand' = cand
    BY <1>9 DEF SyncReturns
  <2> HIDE DEF f2
  <2>4. Kept(mem.nodes, ns, {})
    BY <1>1, <2>1, <2>2, KeptSettle
  <2> HIDE DEF ns, phase
  <2>5. settled.nodes = ns /\ failed.nodes = ns
    BY <1>1 DEF Manifest
  <2> HIDE DEF settled, failed
  <2>6. Waiting' \subseteq Waiting
    BY <2>1, <2>3 DEF Waiting
  <2> QED
    BY <2>3, <2>4, <2>5, <2>6 DEF Quiet
<1> QED
  BY <1>4, <1>5, <1>6, <1>7, <1>8, <1>9 DEF Dispatch

LEMMA StepCommands ==
    ASSUME TypeInv,
           \/ StartCycle \/ RouteAwaiting \/ Route \/ Finish
           \/ WriteConfirmed \/ ReopenWorkflow \/ SyncIndex("indexActive", "active")
           \/ User \/ Crash \/ QuitRepl
    PROVE  FromDisk \/ Quiet \/ Selects
<1>1. disk \in Manifest /\ mem \in Manifest
  BY DEF TypeInv, TypeOK
<1>2. ASSUME disk' = disk, mem' = disk, cand' = {} PROVE FromDisk
  BY <1>2, KeptSame DEF FromDisk, Waiting
<1>3. ASSUME mem'.nodes = mem.nodes, disk' = mem', cand' = {} PROVE Quiet
  BY <1>3, KeptSame DEF Quiet, Waiting
<1>4. CASE StartCycle \/ RouteAwaiting \/ Crash
  BY <1>2, <1>4 DEF StartCycle, RouteAwaiting, Crash, Return, files
<1>5. CASE Route
  <2>1. pc = "spawn" /\ pc' # "launched" /\ cand = {}
        /\ mem' = mem /\ disk' = disk
    BY <1>5 DEF Route, Routing, files, TypeInv, PcInv
  <2>2. cand' \subseteq Selected(mem.nodes)
    BY <1>5 DEF Route
  <2> QED
    BY <2>1, <2>2 DEF Selects, Waiting
<1>6. CASE Persist \/ WriteConfirmed
  BY <1>3, <1>6 DEF Persist, WriteConfirmed, WriteManifest, Return
<1>7. ASSUME NEW phase \in {"complete", "failed"}, NEW next, Finalize(phase, next)
      PROVE  Quiet
  <2>1. cand' = {}
    BY <1>7 DEF Finalize, TypeInv, PcInv
  <2>2. mem'.nodes = mem.nodes /\ disk' = mem'
    BY <1>1, <1>7 DEF Finalize, WriteManifest, Manifest
  <2> QED
    BY <1>3, <2>1, <2>2
<1>8. ASSUME NEW at, NEW status, SyncIndex(at, status) PROVE FromDisk
  BY <1>2, <1>8 DEF SyncIndex, Return
<1>9. CASE ReopenWorkflow
  <2>1. cand' = {}
    BY <1>9 DEF ReopenWorkflow, TypeInv, PcInv
  <2>2. mem'.nodes = mem.nodes /\ disk' = mem'
    BY <1>1, <1>9 DEF ReopenWorkflow, WriteManifest, Manifest
  <2> QED
    BY <1>3, <2>1, <2>2
<1>10. ASSUME NEW answer, Confirm(answer) PROVE FromDisk
  <2>1. plan.nodes \in Seq(NodeDef)
    BY <1>10, InputsAssumption DEF Confirm, TypeInv, TypeOK
  <2>2. Kept(disk.nodes, Rejected(disk).nodes, {})
    BY <1>1, KeptRejected
  <2>3. Kept(disk.nodes, Accepted(disk).nodes, {})
    BY <1>1, <2>1, AcceptedShape, KeptConcat DEF Manifest
  <2>4. disk' = disk /\ cand' = {} /\ mem' \in {Accepted(disk), Rejected(disk)}
    BY <1>10 DEF Confirm, TypeInv, PcInv
  <2> QED
    BY <2>2, <2>3, <2>4 DEF FromDisk, Waiting
<1>11. ASSUME NEW i, ResetNode(i) PROVE FromDisk
  <2> DEFINE e == disk.nodes[i]
             e2 == [e EXCEPT !.status = "pending", !.pid = IF Repl THEN e.pid ELSE NoPid]
             ns == [disk.nodes EXCEPT ![i] = e2]
  <2>1. i \in DOMAIN disk.nodes /\ e \in Entry
    BY <1>1, <1>11, ElementOfSeq, LenProperties DEF ResetNode, Manifest
  <2>2. mem' = [disk EXCEPT !.nodes = ns] /\ disk' = mem' /\ cand' = {}
    BY <1>1, <1>11, <2>1 DEF ResetNode, Manifest, TypeInv, PcInv
  <2>3. /\ e2.id = e.id /\ e2.attempt_count = e.attempt_count
        /\ e2.status = "pending"
    BY <2>1 DEF Entry
  <2> HIDE DEF e2
  <2>4. Kept(disk.nodes, ns, {})
    BY <2>3, KeptEntries
  <2> HIDE DEF ns
  <2>5. mem'.nodes = ns
    BY <1>1, <2>2 DEF Manifest
  <2> QED
    BY <2>2, <2>4, <2>5 DEF FromDisk, Waiting
<1>12. CASE QuitRepl
  BY <1>12, KeptSame DEF QuitRepl, files, Quiet, Waiting, Candidate, FirstOf
<1> QED
  BY <1>4, <1>5, <1>6, <1>7, <1>8, <1>9, <1>10, <1>11, <1>12 DEF Finish, User

LEMMA ManifestStep ==
    ASSUME TypeInv, [Next]_vars
    PROVE  FromDisk \/ Quiet \/ Starts \/ Selects
<1>1. ASSUME UNCHANGED <<disk, mem, cand, pc>> PROVE Quiet
  BY <1>1, KeptSame DEF Quiet, Waiting, Candidate, FirstOf
<1>2. PlannerWrites \/ SyncSpawns \/ Executors \/ UNCHANGED vars => Quiet
  BY <1>1 DEF PlannerWrites, SyncSpawns, Executors, ExecutorExits, vars
<1> QED
  BY <1>2, StepReconcile, StepDispatch, StepCommands DEF Next, EngineStep

-----------------------------------------------------------------------------
(* The attempts of a node.                                                 *)

AttemptInv ==
    /\ AttemptBound
    /\ \A i \in Waiting : mem.nodes[i].attempt_count < MAX_ATTEMPTS

LEMMA AttemptsType ==
    ASSUME NEW ns \in Seq(Entry)
    PROVE  \A i \in DOMAIN ns : ns[i].attempt_count \in Nat
<1>1. \A i \in DOMAIN ns : ns[i] \in Entry
  BY ElementOfSeq, LenProperties
<1> QED
  BY <1>1 DEF Entry

LEMMA KeptAttempts ==
    ASSUME NEW a \in Seq(Entry), NEW b \in Seq(Entry), NEW S,
           Kept(a, b, S),
           \A i \in DOMAIN a : a[i].attempt_count <= MAX_ATTEMPTS,
           \A i \in S : a[i].attempt_count < MAX_ATTEMPTS
    PROVE  \A i \in DOMAIN b : b[i].attempt_count <= MAX_ATTEMPTS
<1> SUFFICES ASSUME NEW i \in DOMAIN b PROVE b[i].attempt_count <= MAX_ATTEMPTS
  OBVIOUS
<1>1. CASE i \notin DOMAIN a
  BY <1>1, BoundsAssumption DEF Kept
<1>2. CASE i \in DOMAIN a
  <2>1. a[i].attempt_count \in Nat /\ MAX_ATTEMPTS \in Nat
    BY <1>2, AttemptsType, BoundsAssumption
  <2> QED
    BY <1>2, <2>1 DEF Kept
<1> QED
  BY <1>1, <1>2

LEMMA AttemptStep ==
    ASSUME TypeInv, TypeInv', AttemptInv, [Next]_vars PROVE AttemptInv'
<1>1. /\ mem.nodes \in Seq(Entry) /\ disk.nodes \in Seq(Entry)
      /\ mem'.nodes \in Seq(Entry)
  BY DEF TypeInv, TypeOK, Manifest
<1>2. /\ \A i \in DOMAIN mem.nodes : mem.nodes[i].attempt_count <= MAX_ATTEMPTS
      /\ \A i \in DOMAIN disk.nodes : disk.nodes[i].attempt_count <= MAX_ATTEMPTS
      /\ \A i \in Waiting : mem.nodes[i].attempt_count < MAX_ATTEMPTS
  BY DEF AttemptInv, AttemptBound
<1>3. Waiting \subseteq DOMAIN mem.nodes
  BY DEF Waiting, TypeInv, TypeOK
<1>4. ASSUME \A i \in DOMAIN mem'.nodes : mem'.nodes[i].attempt_count <= MAX_ATTEMPTS,
             disk' = disk \/ disk' = mem'
      PROVE  AttemptBound'
  BY <1>2, <1>4 DEF AttemptBound
<1>5. CASE FromDisk
  <2>1. \A i \in DOMAIN mem'.nodes : mem'.nodes[i].attempt_count <= MAX_ATTEMPTS
    BY <1>1, <1>2, <1>5, KeptAttempts DEF FromDisk
  <2> QED
    BY <1>4, <1>5, <2>1 DEF FromDisk, AttemptInv
<1>6. CASE Quiet
  <2>1. \A i \in DOMAIN mem'.nodes : mem'.nodes[i].attempt_count <= MAX_ATTEMPTS
    BY <1>1, <1>2, <1>6, KeptAttempts DEF Quiet
  <2>2. \A i \in Waiting' : mem'.nodes[i].attempt_count < MAX_ATTEMPTS
    BY <1>2, <1>3, <1>6 DEF Quiet, Kept
  <2> QED
    BY <1>4, <1>6, <2>1, <2>2 DEF Quiet, AttemptInv
<1>7. CASE Starts
  <2>1. PICK c \in Waiting :
           /\ Kept(mem.nodes, mem'.nodes, {c}) /\ Waiting' \subseteq Waiting \ {c}
           /\ disk' = disk \/ disk' = mem'
    BY <1>7 DEF Starts
  <2>2. \A i \in DOMAIN mem'.nodes : mem'.nodes[i].attempt_count <= MAX_ATTEMPTS
    BY <1>1, <1>2, <2>1, KeptAttempts
  <2>3. \A i \in Waiting' : mem'.nodes[i].attempt_count < MAX_ATTEMPTS
    BY <1>2, <1>3, <2>1 DEF Kept
  <2> QED
    BY <1>4, <2>1, <2>2, <2>3 DEF AttemptInv
<1>8. CASE Selects
  <2>1. \A i \in Selected(mem.nodes) : mem.nodes[i].attempt_count < MAX_ATTEMPTS
    BY DEF Selected, Ready
  <2> QED
    BY <1>2, <1>8, <2>1 DEF Selects, AttemptInv, AttemptBound
<1> QED
  BY <1>5, <1>6, <1>7, <1>8, ManifestStep

LEMMA AttemptInvariant == Spec => []AttemptInv
<1>1. Init => AttemptInv
  <2> SUFFICES ASSUME Init PROVE AttemptInv
    OBVIOUS
  <2>1. PlannerEntry.attempt_count = 0
    BY DEF PlannerEntry, EntryOf
  <2>2. disk.nodes = <<PlannerEntry>> /\ mem = disk /\ Waiting = {}
    BY DEF Init, Waiting
  <2> HIDE DEF PlannerEntry
  <2> QED
    BY <2>1, <2>2, BoundsAssumption DEF AttemptInv, AttemptBound
<1>2. TypeInv /\ TypeInv' /\ AttemptInv /\ [Next]_vars => AttemptInv'
  BY AttemptStep
<1> QED
  BY <1>1, <1>2, TypeInvariant, PTL DEF Spec

(* However a node comes to be pending again - a diagnosis, a rewind, a     *)
(* reset, a rejected plan, a crash - its attempts stay within the limit    *)
(* select_next_nodes checks: no step between the selection and the start   *)
(* of a node attempts it a second time.                                    *)
THEOREM AttemptsBounded == Spec => []AttemptBound
<1>1. AttemptInv => AttemptBound
  BY DEF AttemptInv
<1> QED
  BY <1>1, AttemptInvariant, PTL

-----------------------------------------------------------------------------
(* The running nodes.                                                      *)

RunningInv ==
    /\ Cardinality(Running(mem.nodes) \cup Waiting) <= MAX_CONCURRENT
    /\ Cardinality(Running(disk.nodes)) <= MAX_CONCURRENT

(* A finite set of naturals has a greatest element. *)
LEMMA MaxExists ==
    ASSUME NEW n \in Nat, NEW S \in SUBSET (1 .. n), S # {}
    PROVE  \E m \in S : \A k \in S : k <= m
<1> DEFINE T == {m \in Nat : \A k \in S : k <= m}
<1>1. n \in T /\ T \in SUBSET Nat
  OBVIOUS
<1>2. PICK m \in T : \A t \in T : m <= t
  BY <1>1, MinExists
<1>3. m \in S
  <2> SUFFICES ASSUME m \notin S PROVE FALSE
    OBVIOUS
  <2>1. \A k \in S : k < m
    BY <1>1, <1>2
  <2>2. m \in Nat /\ m - 1 \in Nat
    <3>0. \A k \in S : k \in Nat /\ k >= 1
      OBVIOUS
    <3>1. PICK k \in S : k \in Nat /\ k >= 1
      BY <3>0
    <3>2. k < m /\ m \in Nat
      BY <2>1
    <3> HIDE DEF T
    <3> QED
      BY <3>1, <3>2
  <2>3. m - 1 \in T
    BY <2>1, <2>2
  <2> QED
    BY <1>2, <2>3
<1> QED
  BY <1>2, <1>3

LEMMA EntriesFinite ==
    ASSUME NEW ns \in Seq(Entry), NEW S \in SUBSET DOMAIN ns
    PROVE  IsFiniteSet(S) /\ Cardinality(S) \in Nat
<1>1. IsFiniteSet(DOMAIN ns)
  BY FS_Interval, LenProperties
<1> QED
  BY <1>1, FS_Subset, FS_CardinalityType

(* The selection never takes more than the free slots. *)
LEMMA SelectedBound ==
    ASSUME NEW ns \in Seq(Entry), Cardinality(Running(ns)) <= MAX_CONCURRENT
    PROVE  Cardinality(Running(ns) \cup Selected(ns)) <= MAX_CONCURRENT
<1> DEFINE R == Running(ns)
           S == Selected(ns)
           below(i) == {j \in Ready(ns) : j < i}
<1>1. /\ DOMAIN ns = 1 .. Len(ns) /\ Len(ns) \in Nat /\ MAX_CONCURRENT \in Nat
      /\ R \in SUBSET DOMAIN ns /\ S \in SUBSET DOMAIN ns /\ S \subseteq Ready(ns)
      /\ \A i : below(i) \in SUBSET DOMAIN ns
  BY LenProperties, BoundsAssumption DEF Running, Selected, Ready
<1>2. /\ IsFiniteSet(R) /\ Cardinality(R) \in Nat
      /\ IsFiniteSet(S) /\ Cardinality(S) \in Nat
      /\ \A i : IsFiniteSet(below(i)) /\ Cardinality(below(i)) \in Nat
  BY <1>1, EntriesFinite
<1>3. Cardinality(S) <= Slots(ns)
  <2>1. CASE S = {}
    BY <1>1, <1>2, <2>1, FS_EmptySet DEF Slots
  <2>2. CASE S # {}
    <3>1. PICK m \in S : \A k \in S : k <= m
      BY <1>1, <2>2, MaxExists
    <3>2. S \ {m} \in SUBSET below(m)
      BY <1>1, <3>1
    <3>3. Cardinality(S \ {m}) = Cardinality(S) - 1
      BY <1>2, <3>1, FS_RemoveElement
    <3>4. Cardinality(S \ {m}) <= Cardinality(below(m))
      BY <1>2, <3>2, FS_Subset
    <3>5. Cardinality(below(m)) < Slots(ns)
      BY <3>1 DEF Selected
    <3>6. Slots(ns) \in Int
      BY <1>1, <1>2 DEF Slots
    <3> DEFINE s == Cardinality(S)
               r == Cardinality(S \ {m})
               b == Cardinality(below(m))
               slots == Slots(ns)
    <3>7. s \in Nat /\ b \in Nat /\ slots \in Int /\ r = s - 1 /\ r <= b /\ b < slots
      BY <1>2, <3>3, <3>4, <3>5, <3>6
    <3> HIDE DEF s, r, b, slots
    <3>8. s <= slots
      BY <3>7
    <3> QED
      BY <3>8 DEF s, slots
  <2> QED
    BY <2>1, <2>2
<1>4. Cardinality(R \cup S) <= Cardinality(R) + Cardinality(S)
  <2>1. /\ IsFiniteSet(R \cap S) /\ Cardinality(R \cap S) \in Nat
        /\ Cardinality(R \cup S)
             = Cardinality(R) + Cardinality(S) - Cardinality(R \cap S)
    BY <1>2, FS_Union, FS_Intersection, FS_CardinalityType
  <2> QED
    BY <1>2, <2>1
<1>5. IsFiniteSet(R \cup S) /\ Cardinality(R \cup S) \in Nat
  BY <1>1, EntriesFinite
<1> QED
  BY <1>1, <1>2, <1>3, <1>4, <1>5 DEF Slots

LEMMA FewerRunning ==
    ASSUME NEW ns \in Seq(Entry), NEW S \in SUBSET DOMAIN ns, NEW T \in SUBSET S,
           Cardinality(S) <= MAX_CONCURRENT
    PROVE  Cardinality(T) <= MAX_CONCURRENT
<1>1. Cardinality(T) <= Cardinality(S)
  BY EntriesFinite, FS_Subset
<1>2. Cardinality(S) \in Nat /\ Cardinality(T) \in Nat /\ MAX_CONCURRENT \in Nat
  BY EntriesFinite, BoundsAssumption
<1> QED
  BY <1>1, <1>2

LEMMA RunningStep ==
    ASSUME TypeInv, TypeInv', RunningInv, [Next]_vars PROVE RunningInv'
<1> DEFINE busy == Running(mem.nodes) \cup Waiting
<1>1. /\ mem.nodes \in Seq(Entry) /\ disk.nodes \in Seq(Entry)
      /\ mem'.nodes \in Seq(Entry)
  BY DEF TypeInv, TypeOK, Manifest
<1>2. /\ busy \in SUBSET DOMAIN mem.nodes
      /\ Running(disk.nodes) \in SUBSET DOMAIN disk.nodes
      /\ Running(mem'.nodes) \in SUBSET DOMAIN mem'.nodes
      /\ busy' \in SUBSET DOMAIN mem'.nodes
  BY DEF Running, Waiting, TypeInv, TypeOK
<1>3. Cardinality(busy) <= MAX_CONCURRENT
      /\ Cardinality(Running(disk.nodes)) <= MAX_CONCURRENT
  BY DEF RunningInv
<1>4. ASSUME disk' = disk \/ disk' = mem', Cardinality(busy') <= MAX_CONCURRENT
      PROVE  RunningInv'
  <2>1. Running(mem'.nodes) \in SUBSET busy'
    OBVIOUS
  <2>2. Cardinality(Running(mem'.nodes)) <= MAX_CONCURRENT
    BY <1>1, <1>2, <1>4, <2>1, FewerRunning
  <2> QED
    BY <1>3, <1>4, <2>2 DEF RunningInv
<1>5. CASE FromDisk
  <2>1. busy' \in SUBSET Running(disk.nodes)
    BY <1>5 DEF FromDisk, Kept
  <2> QED
    BY <1>1, <1>2, <1>3, <1>4, <1>5, <2>1, FewerRunning DEF FromDisk
<1>6. CASE Quiet
  <2>1. busy' \in SUBSET busy
    BY <1>6 DEF Quiet, Kept
  <2> QED
    BY <1>1, <1>2, <1>3, <1>4, <1>6, <2>1, FewerRunning DEF Quiet
<1>7. CASE Starts
  <2>1. busy' \in SUBSET busy
    BY <1>7 DEF Starts, Kept
  <2> QED
    BY <1>1, <1>2, <1>3, <1>4, <1>7, <2>1, FewerRunning DEF Starts
<1>8. CASE Selects
  <2> DEFINE all == Running(mem.nodes) \cup Selected(mem.nodes)
  <2>1. Cardinality(Running(mem.nodes)) <= MAX_CONCURRENT
    BY <1>3, <1>8 DEF Selects
  <2>2. Cardinality(all) <= MAX_CONCURRENT
    BY <1>1, <2>1, SelectedBound
  <2>3. busy' \in SUBSET all /\ all \in SUBSET DOMAIN mem.nodes
    BY <1>8 DEF Selects, Running, Selected, Ready
  <2> QED
    BY <1>1, <1>4, <1>8, <2>2, <2>3, FewerRunning DEF Selects
<1> QED
  BY <1>5, <1>6, <1>7, <1>8, ManifestStep

LEMMA RunningInvariant == Spec => []RunningInv
<1>1. Init => RunningInv
  <2> SUFFICES ASSUME Init PROVE RunningInv
    OBVIOUS
  <2>1. PlannerEntry.status = "pending"
    BY DEF PlannerEntry, EntryOf
  <2>2. disk.nodes = <<PlannerEntry>> /\ mem = disk /\ Waiting = {}
    BY DEF Init, Waiting
  <2> HIDE DEF PlannerEntry
  <2>3. Running(disk.nodes) = {} /\ Running(mem.nodes) \cup Waiting = {}
    BY <2>1, <2>2 DEF Running
  <2> QED
    BY <2>3, FS_EmptySet, BoundsAssumption DEF RunningInv
<1>2. TypeInv /\ TypeInv' /\ RunningInv /\ [Next]_vars => RunningInv'
  BY RunningStep
<1> QED
  BY <1>1, <1>2, TypeInvariant, PTL DEF Spec

(* The limit of concurrent nodes holds for the manifest in memory and the  *)
(* one on disk, although the selection counts once and the dispatch loop   *)
(* then starts nodes and writes the manifest one by one, and a crash may   *)
(* lose any of it.                                                         *)
THEOREM RunningBounded == Spec => []RunningBound
<1>1. TypeInv /\ RunningInv => RunningBound
  <2> SUFFICES ASSUME TypeInv, RunningInv PROVE RunningBound
    OBVIOUS
  <2>1. /\ mem.nodes \in Seq(Entry)
        /\ Running(mem.nodes) \cup Waiting \in SUBSET DOMAIN mem.nodes
        /\ Running(mem.nodes) \in SUBSET (Running(mem.nodes) \cup Waiting)
    BY DEF TypeInv, TypeOK, Manifest, Waiting, Running
  <2>2. Cardinality(Running(mem.nodes)) <= MAX_CONCURRENT
    BY <2>1, FewerRunning DEF RunningInv
  <2> QED
    BY <2>2 DEF RunningInv, RunningBound
<1> QED
  BY <1>1, RunningInvariant, TypeInvariant, PTL

-----------------------------------------------------------------------------
(* What a write of the manifest may not lose.                              *)

Grows(a, b) == \A i \in DOMAIN a : /\ i \in DOMAIN b
                                   /\ b[i].id = a[i].id
                                   /\ b[i].attempt_count >= a[i].attempt_count

GrowsInv == Grows(disk.nodes, mem.nodes)

LEMMA KeptGrows ==
    ASSUME NEW a \in Seq(Entry), NEW b, NEW S, Kept(a, b, S) PROVE Grows(a, b)
<1>1. \A i \in DOMAIN a : a[i].attempt_count \in Nat
  BY AttemptsType
<1> QED
  BY <1>1 DEF Kept, Grows

LEMMA GrowsTransitive ==
    ASSUME NEW a \in Seq(Entry), NEW b \in Seq(Entry), NEW c \in Seq(Entry),
           Grows(a, b), Grows(b, c)
    PROVE  Grows(a, c)
<1>1. /\ \A i \in DOMAIN a : a[i].attempt_count \in Nat
      /\ \A i \in DOMAIN b : b[i].attempt_count \in Nat
      /\ \A i \in DOMAIN c : c[i].attempt_count \in Nat
  BY AttemptsType
<1> QED
  BY <1>1 DEF Grows

LEMMA GrowsStep ==
    ASSUME TypeInv, TypeInv', GrowsInv, [Next]_vars
    PROVE  /\ Grows(disk.nodes, mem'.nodes)
           /\ disk' = disk \/ disk' = mem'
<1>1. /\ mem.nodes \in Seq(Entry) /\ disk.nodes \in Seq(Entry)
      /\ mem'.nodes \in Seq(Entry)
  BY DEF TypeInv, TypeOK, Manifest
<1>2. ASSUME NEW S, Kept(mem.nodes, mem'.nodes, S) PROVE Grows(disk.nodes, mem'.nodes)
  <2>1. Grows(mem.nodes, mem'.nodes)
    BY <1>1, <1>2, KeptGrows
  <2> QED
    BY <1>1, <2>1, GrowsTransitive DEF GrowsInv
<1>3. CASE FromDisk
  BY <1>1, <1>3, KeptGrows DEF FromDisk
<1>4. CASE Quiet
  BY <1>2, <1>4 DEF Quiet
<1>5. CASE Starts
  BY <1>2, <1>5 DEF Starts
<1>6. CASE Selects
  BY <1>6 DEF Selects, GrowsInv
<1> QED
  BY <1>3, <1>4, <1>5, <1>6, ManifestStep

LEMMA GrowsInit == ASSUME Init PROVE GrowsInv
<1>1. TypeInv
  BY TypeInit
<1>2. disk.nodes \in Seq(Entry) /\ mem = disk
  BY <1>1 DEF TypeInv, TypeOK, Manifest, Init
<1> QED
  BY <1>2, KeptSame, KeptGrows DEF GrowsInv

LEMMA GrowsNext ==
    ASSUME TypeInv, TypeInv', GrowsInv, [Next]_vars PROVE GrowsInv'
<1>1. /\ Grows(disk.nodes, mem'.nodes)
      /\ disk' = disk \/ disk' = mem'
      /\ mem'.nodes \in Seq(Entry)
  BY GrowsStep DEF TypeInv, TypeOK, Manifest
<1>2. Grows(mem'.nodes, mem'.nodes)
  BY <1>1, KeptSame, KeptGrows
<1> QED
  BY <1>1, <1>2 DEF GrowsInv

(* The manifest on disk only grows, whatever is lost with the memory of an *)
(* engine process: what a cycle writes was read from disk when it began.   *)
THEOREM WritesGrow == Spec => ManifestGrows
<1> DEFINE Step == \A i \in DOMAIN disk.nodes :
                      /\ i \in DOMAIN disk'.nodes
                      /\ disk'.nodes[i].id = disk.nodes[i].id
                      /\ disk'.nodes[i].attempt_count >= disk.nodes[i].attempt_count
<1>1. Init => GrowsInv
  BY GrowsInit
<1>2. ASSUME TypeInv, TypeInv', GrowsInv, [Next]_vars PROVE GrowsInv' /\ [Step]_disk
  <2>1. Grows(disk.nodes, mem'.nodes) /\ (disk' = disk \/ disk' = mem')
    BY <1>2, GrowsStep
  <2>2. Grows(disk.nodes, disk'.nodes) \/ disk' = disk
    BY <2>1
  <2>3. [Step]_disk
    BY <2>2 DEF Grows
  <2> QED
    BY <1>2, <2>3, GrowsNext
<1> QED
  BY <1>1, <1>2, TypeInvariant, PTL DEF Spec, ManifestGrows
=============================================================================
