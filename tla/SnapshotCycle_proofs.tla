----------------------- MODULE SnapshotCycle_proofs -----------------------
(***************************************************************************)
(* Theorems about the orchestration kernel.                                *)
(***************************************************************************)
EXTENDS SnapshotCycle, TLAPS, SequenceTheorems, FiniteSetTheorems, WellFoundedInduction,
        NaturalsInduction

(* What holds of the snapshot file, and of the copy of a cycle at every    *)
(* moment: the packages a recorded event affects are there, what an applied *)
(* event affects is deprecated, and its patch package is there exactly once. *)
At(s, id) == {i \in DOMAIN s.packages : s.packages[i].id = id}
MarkedBy(s, r) ==
    /\ s.requirements[r] = "applied"
    /\ Requirements[r].type \in {"add", "remove", "modify"}
    => \A i \in DOMAIN s.packages :
          s.packages[i].id \in Requirements[r].affected =>
              s.packages[i].status = "deprecated"
NamedIn(s, r) == s.requirements[r] # "absent" => Requirements[r].affected \subseteq Ids(s)
PatchIn(s, r) ==
    /\ s.requirements[r] = "applied" => \E i : At(s, Requirements[r].package) = {i}
    /\ s.requirements[r] # "applied" => At(s, Requirements[r].package) = {}
Settled(s) ==
    /\ s \in SnapshotDef
    /\ \A r \in DOMAIN Requirements : NamedIn(s, r) /\ MarkedBy(s, r) /\ PatchIn(s, r)

NoneRunning(s) == \A i \in DOMAIN s.packages : s.packages[i].status # "running"

-----------------------------------------------------------------------------
(* What the operations on a snapshot keep.                                 *)

(* One package is changed, but neither its id nor that it is deprecated.   *)
LEMMA ChangedKeeps ==
    ASSUME NEW s, Settled(s), NEW i \in DOMAIN s.packages, NEW p \in PackageDef,
           p.id = s.packages[i].id,
           s.packages[i].status = "deprecated" => p.status = "deprecated"
    PROVE  LET t == [s EXCEPT !.packages[i] = p] IN
           /\ Settled(t)
           /\ DOMAIN t.packages = DOMAIN s.packages
           /\ t.packages[i] = p
           /\ \A j \in DOMAIN s.packages \ {i} : t.packages[j] = s.packages[j]
           /\ t.seams = s.seams
<1> DEFINE t == [s EXCEPT !.packages[i] = p]
<1>1. s \in SnapshotDef /\ s.packages \in Seq(PackageDef)
  BY DEF Settled, SnapshotDef
<1>2. DOMAIN s.packages = 1..Len(s.packages)
  BY <1>1, LenProperties
<1>3. /\ t.packages = [s.packages EXCEPT ![i] = p]
      /\ t.seams = s.seams /\ t.requirements = s.requirements
      /\ t \in [packages: Seq(PackageDef), seams: {s.seams}, requirements: {s.requirements}]
  <2>1. [s.packages EXCEPT ![i] = p] \in Seq(PackageDef)
    BY <1>1, <1>2, ExceptSeq
  <2> QED BY <1>1, <2>1 DEF SnapshotDef
<1>4. /\ DOMAIN t.packages = DOMAIN s.packages
      /\ t.packages[i] = p
      /\ \A j \in DOMAIN s.packages \ {i} : t.packages[j] = s.packages[j]
  BY <1>3
<1>5. t \in SnapshotDef
  BY <1>1, <1>3 DEF SnapshotDef
<1>6. \A j \in DOMAIN s.packages : t.packages[j].id = s.packages[j].id
  BY <1>4
<1>7. Ids(s) \subseteq Ids(t)
  BY <1>4, <1>6 DEF Ids
<1>8. \A id : At(t, id) = At(s, id)
  BY <1>4, <1>6 DEF At
<1>9. ASSUME NEW r \in DOMAIN Requirements PROVE NamedIn(t, r) /\ MarkedBy(t, r) /\ PatchIn(t, r)
  <2>1. NamedIn(s, r) /\ MarkedBy(s, r) /\ PatchIn(s, r)
    BY DEF Settled
  <2>2. PatchIn(t, r)
    BY <2>1, <1>3, <1>8 DEF PatchIn
  <2>3. MarkedBy(t, r)
    BY <2>1, <1>3, <1>4, <1>6 DEF MarkedBy
  <2>4. NamedIn(t, r)
    BY <2>1, <1>3, <1>7 DEF NamedIn
  <2> QED BY <2>2, <2>3, <2>4
<1> QED BY <1>3, <1>4, <1>5, <1>9 DEF Settled

(* Packages with new ids are added.                                        *)
LEMMA AddedKeeps ==
    ASSUME NEW s, Settled(s), NEW new \in Seq(PackageDef),
           \A k \in DOMAIN new : /\ new[k].id \in SeededIds \ Ids(s)
                                 /\ new[k].status = "ready"
    PROVE  LET t == Added(s, new) IN
           /\ Settled(t)
           /\ NoneRunning(s) => NoneRunning(t)
           /\ t.seams = s.seams
           /\ DOMAIN s.packages \subseteq DOMAIN t.packages
<1> DEFINE t == Added(s, new)
<1> DEFINE n == Len(s.packages)
<1>1. s \in SnapshotDef /\ s.packages \in Seq(PackageDef)
  BY DEF Settled, SnapshotDef
<1>2. /\ t.packages = s.packages \o new
      /\ t.seams = s.seams /\ t.requirements = s.requirements
      /\ t.packages \in Seq(PackageDef)
      /\ t \in SnapshotDef
  <2>1. s.packages \o new \in Seq(PackageDef)
    BY <1>1, ConcatProperties
  <2> QED BY <1>1, <2>1 DEF SnapshotDef, Added
<1>3. /\ DOMAIN s.packages = 1..n /\ n \in Nat
      /\ DOMAIN new = 1..Len(new) /\ Len(new) \in Nat
      /\ DOMAIN t.packages = 1..(n + Len(new))
      /\ \A j \in 1..n : t.packages[j] = s.packages[j]
      /\ \A j \in 1..(n + Len(new)) : j \notin 1..n =>
            /\ j - n \in DOMAIN new
            /\ t.packages[j] = new[j - n]
  <2>1. /\ DOMAIN s.packages = 1..n /\ n \in Nat
        /\ DOMAIN new = 1..Len(new) /\ Len(new) \in Nat
        /\ DOMAIN t.packages = 1..Len(t.packages)
    BY <1>1, <1>2, LenProperties
  <2>2. /\ Len(s.packages \o new) = n + Len(new)
        /\ \A j \in 1..(n + Len(new)) :
             (s.packages \o new)[j] = IF j <= n THEN s.packages[j] ELSE new[j - n]
    BY <1>1, ConcatProperties
  <2> HIDE DEF t
  <2> QED BY <1>2, <2>1, <2>2
<1> HIDE DEF t, n
<1>4. Ids(s) \subseteq Ids(t)
  BY <1>3 DEF Ids
<1>5. ASSUME NEW r \in DOMAIN Requirements PROVE NamedIn(t, r) /\ MarkedBy(t, r) /\ PatchIn(t, r)
  <2>1. NamedIn(s, r) /\ MarkedBy(s, r) /\ PatchIn(s, r)
    BY DEF Settled
  <2>2. At(t, Requirements[r].package) = At(s, Requirements[r].package)
    <3>1. \A k \in DOMAIN new : new[k].id # Requirements[r].package
      BY IdsAssumption
    <3>2. \A j \in DOMAIN t.packages : j \notin DOMAIN s.packages =>
              t.packages[j].id # Requirements[r].package
      BY <3>1, <1>3
    <3>3. DOMAIN s.packages \subseteq DOMAIN t.packages
      BY <1>3
    <3>4. \A j \in DOMAIN s.packages : t.packages[j] = s.packages[j]
      BY <1>3
    <3> QED BY <3>2, <3>3, <3>4 DEF At
  <2>3. PatchIn(t, r)
    BY <2>1, <2>2, <1>2 DEF PatchIn
  <2>4. t.requirements[r] = "applied" =>
            \A k \in DOMAIN new : new[k].id \notin Requirements[r].affected
    BY <2>1, <1>2 DEF NamedIn
  <2>5. MarkedBy(t, r)
    BY <2>1, <2>4, <1>2, <1>3 DEF MarkedBy
  <2>6. NamedIn(t, r)
    BY <2>1, <1>2, <1>4 DEF NamedIn
  <2> QED BY <2>3, <2>5, <2>6
<1>6. NoneRunning(s) => NoneRunning(t)
  BY <1>3 DEF NoneRunning
<1>7. DOMAIN s.packages \subseteq DOMAIN t.packages
  BY <1>3
<1> QED BY <1>2, <1>5, <1>6, <1>7 DEF Settled, t

(* A requirement event is applied.                                         *)
LEMMA PatchPackageTyped ==
    ASSUME NEW r \in DOMAIN Requirements
    PROVE  /\ PatchPackage(r) \in PackageDef
           /\ PatchPackage(r).id = Requirements[r].package
           /\ PatchPackage(r).status = "ready"
<1>1. Requirements[r] \in EventDef
  BY RequirementsAssumption, ElementOfSeq, LenProperties
<1>2. <<"claude_code">> \in Seq(Executors)
  BY DEF Executors
<1> DEFINE p == Package(Requirements[r].package, "requirement_patch", "execution_planner",
                        100, "python", <<"claude_code">>, {}, 1)
<1>3. p \in PackageDef /\ p.id = Requirements[r].package /\ p.status = "ready"
  <2>1. Requirements[r].package \in Names
    BY DEF Names
  <2>2. "requirement_patch" \in Phases /\ "python" \in Executors
    BY DEF Phases, Executors
  <2>3. "execution_planner" \in Roles /\ 100 \in Int /\ {} \in SUBSET Names /\ 1 \in Nat
    BY DEF Roles
  <2>4. "core" \in Domains /\ "ready" \in Statuses /\ "none" \in Actions \cup {"none"}
    BY DEF Domains, Statuses
  <2> QED BY <1>2, <2>1, <2>2, <2>3, <2>4 DEF Package, PackageDef
<1>4. Requirements[r].seams \in SUBSET STRING
  BY <1>1 DEF EventDef
<1>5. PatchPackage(r) = [p EXCEPT !.seams = Requirements[r].seams, !.domain = "planning"]
  BY DEF PatchPackage
<1> HIDE DEF p
<1> DEFINE q == [p EXCEPT !.seams = Requirements[r].seams]
<1>6. q \in PackageDef /\ q.id = p.id /\ q.status = p.status
  BY <1>3, <1>4 DEF PackageDef
<1>7. PatchPackage(r) = [q EXCEPT !.domain = "planning"]
  BY <1>5
<1> HIDE DEF q
<1>8. "planning" \in Domains
  BY DEF Domains
<1> QED BY <1>3, <1>6, <1>7, <1>8 DEF PackageDef

LEMMA PatchedKeeps ==
    ASSUME NEW s, Settled(s), NEW r \in Pending(s)
    PROVE  LET t == Patched(s, r) IN
           /\ Settled(t)
           /\ NoneRunning(s) => NoneRunning(t)
<1> DEFINE t == Patched(s, r)
<1> DEFINE d == Deprecated(s, r)
<1> DEFINE n == Len(s.packages)
<1>0. r \in DOMAIN Requirements /\ s.requirements[r] = "pending"
  BY DEF Pending
<1>1. s \in SnapshotDef /\ s.packages \in Seq(PackageDef)
  BY DEF Settled, SnapshotDef
<1>2. DOMAIN s.packages = 1..n /\ n \in Nat
  BY <1>1, LenProperties
<1>3. \A i \in 1..n : s.packages[i] \in PackageDef
  BY <1>1, ElementOfSeq
<1>4. /\ d \in Seq(PackageDef) /\ Len(d) = n
      /\ \A i \in 1..n : /\ d[i].id = s.packages[i].id
                          /\ d[i].status \in {s.packages[i].status, "deprecated"}
      /\ Requirements[r].type \in {"add", "remove", "modify"} =>
            \A i \in 1..n : s.packages[i].id \in Requirements[r].affected =>
                d[i].status = "deprecated"
  <2>1. \A i \in 1..n : [s.packages[i] EXCEPT !.status = "deprecated"] \in PackageDef
    BY <1>3 DEF PackageDef, Statuses
  <2>2. /\ DOMAIN d = 1..n
        /\ \A i \in 1..n : d[i] \in PackageDef
        /\ \A i \in 1..n : d[i] = IF Deprecates(r, s.packages[i])
               THEN [s.packages[i] EXCEPT !.status = "deprecated"] ELSE s.packages[i]
    BY <1>2, <1>3, <2>1 DEF Deprecated
  <2>3. d \in Seq(PackageDef) /\ Len(d) = n
    <3>1. d = [i \in 1..n |-> d[i]]
      BY <1>2 DEF Deprecated
    <3> HIDE DEF d
    <3>2. d \in [1..n -> PackageDef]
      BY <2>2, <3>1
    <3>3. d \in Seq(PackageDef)
      BY <3>2, <1>2, SeqDef
    <3> QED BY <3>2, <3>3, <1>2, LenProperties
  <2> HIDE DEF d
  <2> QED BY <2>2, <2>3, <1>3 DEF PackageDef, Deprecates
<1> HIDE DEF d
<1>5. /\ t.packages = Append(d, PatchPackage(r))
      /\ t.seams = s.seams
      /\ t.requirements = [s.requirements EXCEPT ![r] = "applied"]
      /\ t \in SnapshotDef
  <2>1. Append(d, PatchPackage(r)) \in Seq(PackageDef)
    BY <1>0, <1>4, PatchPackageTyped, AppendProperties
  <2>2. [s.requirements EXCEPT ![r] = "applied"]
          \in [DOMAIN Requirements -> {"absent", "pending", "applied"}]
    BY <1>1 DEF SnapshotDef
  <2> QED BY <1>1, <2>1, <2>2 DEF SnapshotDef, Patched, d
<1>6. /\ DOMAIN t.packages = 1..(n + 1)
      /\ \A i \in 1..n : t.packages[i] = d[i]
      /\ t.packages[n + 1] = PatchPackage(r)
  <2>1. t.packages \in Seq(PackageDef) /\ Len(t.packages) = n + 1
    BY <1>0, <1>4, <1>5, PatchPackageTyped, AppendProperties
  <2>2. DOMAIN t.packages = 1..(n + 1)
    BY <2>1, LenProperties
  <2> HIDE DEF t
  <2> QED BY <1>0, <1>4, <1>5, <2>2, PatchPackageTyped, AppendProperties
<1> HIDE DEF t, n
<1>7. Ids(s) \subseteq Ids(t)
  BY <1>2, <1>4, <1>6 DEF Ids
<1>8. PatchPackage(r).id = Requirements[r].package
  BY <1>0, PatchPackageTyped
<1>9. ASSUME NEW q \in DOMAIN Requirements PROVE NamedIn(t, q) /\ MarkedBy(t, q) /\ PatchIn(t, q)
  <2>1. NamedIn(s, q) /\ MarkedBy(s, q) /\ PatchIn(s, q)
    BY DEF Settled
  <2>2. \A i \in 1..n : t.packages[i].id = s.packages[i].id
    BY <1>4, <1>6
  <2>3. At(t, Requirements[q].package)
          = At(s, Requirements[q].package) \cup (IF q = r THEN {n + 1} ELSE {})
    <3>1. \A i : i \in 1..(n + 1) <=> i \in 1..n \/ i = n + 1
      BY <1>2
    <3>2. Requirements[q].package = Requirements[r].package <=> q = r
      BY <1>0, IdsAssumption
    <3> QED BY <3>1, <3>2, <2>2, <1>2, <1>6, <1>8 DEF At
  <2>4. s.requirements \in [DOMAIN Requirements -> {"absent", "pending", "applied"}]
    BY <1>1 DEF SnapshotDef
  <2>5. PatchIn(t, q)
    BY <2>1, <2>3, <2>4, <1>0, <1>5 DEF PatchIn
  <2>6. MarkedBy(t, q)
    <3> SUFFICES ASSUME t.requirements[q] = "applied",
                        Requirements[q].type \in {"add", "remove", "modify"},
                        NEW i \in DOMAIN t.packages,
                        t.packages[i].id \in Requirements[q].affected
                 PROVE  t.packages[i].status = "deprecated"
      BY DEF MarkedBy
    <3>0. s.requirements[q] # "absent"
      BY <1>0, <1>5, <2>4
    <3>1. i # n + 1
      <4>1. At(s, Requirements[r].package) = {}
        BY <1>0 DEF Settled, PatchIn
      <4>2. Requirements[r].package \notin Ids(s)
        BY <4>1 DEF At, Ids
      <4>3. Requirements[q].affected \subseteq Ids(s)
        BY <3>0, <2>1 DEF NamedIn
      <4> QED BY <4>2, <4>3, <1>6, <1>8
    <3>2. i \in 1..n /\ t.packages[i] = d[i]
      BY <3>1, <1>2, <1>6
    <3>3. CASE q = r
      <4>1. s.packages[i].id \in Requirements[r].affected
        BY <3>2, <3>3, <1>4
      <4> QED BY <4>1, <3>2, <3>3, <1>4
    <3>4. CASE q # r
      <4>1. s.requirements[q] = "applied"
        BY <3>4, <1>5, <2>4
      <4>2. s.packages[i].status = "deprecated"
        BY <4>1, <3>2, <2>1, <2>2, <1>2 DEF MarkedBy
      <4> QED BY <4>2, <3>2, <1>4
    <3> QED BY <3>3, <3>4
  <2>7. NamedIn(t, q)
    <3>1. t.requirements[q] # "absent" => s.requirements[q] # "absent"
      BY <1>0, <1>5, <2>4
    <3> QED BY <3>1, <2>1, <1>7 DEF NamedIn
  <2> QED BY <2>5, <2>6, <2>7
<1>10. NoneRunning(s) => NoneRunning(t)
  <2>1. PatchPackage(r).status # "running"
    BY <1>0, PatchPackageTyped
  <2>2. \A i \in 1..n : NoneRunning(s) => d[i].status # "running"
    BY <1>2, <1>4 DEF NoneRunning
  <2>3. \A i \in DOMAIN t.packages : i \in 1..n \/ i = n + 1
    BY <1>2, <1>6
  <2> QED BY <2>1, <2>2, <2>3, <1>6 DEF NoneRunning
<1> QED BY <1>5, <1>9, <1>10 DEF Settled, t

(* The seeders add packages with new ids, or change one that is there.     *)
LEMMA FoundIn ==
    ASSUME NEW s, NEW id \in Ids(s)
    PROVE  Find(s, id) \in DOMAIN s.packages /\ s.packages[Find(s, id)].id = id
  BY DEF Ids, Find

LEMMA SeededKeeps ==
    ASSUME NEW s, Settled(s), NoneRunning(s), NEW k \in 1..5
    PROVE  Settled(Seeder(k, s)) /\ NoneRunning(Seeder(k, s))
<1>0. \A new \in Seq(PackageDef) :
        (\A m \in DOMAIN new : new[m].id \in SeededIds \ Ids(s) /\ new[m].status = "ready")
        => Settled(Added(s, new)) /\ NoneRunning(Added(s, new))
  BY AddedKeeps
<1>1. \A i \in DOMAIN s.packages : s.packages[i] \in PackageDef
  <2>1. s.packages \in Seq(PackageDef)
    BY DEF Settled, SnapshotDef
  <2> QED BY <2>1, ElementOfSeq, LenProperties
<1>2. /\ \A e \in Executors : <<e>> \in Seq(Executors)
      /\ <<>> \in Seq(Executors)
      /\ {"claude_code", "python", "codex"} \subseteq Executors
  BY DEF Executors
<1>3. /\ "core" \in Domains /\ "ready" \in Statuses /\ "none" \in Actions \cup {"none"}
      /\ SeededIds \subseteq Names /\ {"wp-repo-onboarding"} \subseteq Names
      /\ \A id \in Names : {id} \in SUBSET Names
  <2>1. "core" \in Domains /\ "ready" \in Statuses /\ "none" \in Actions \cup {"none"}
    BY DEF Domains, Statuses
  <2>2. FixedIds \subseteq Names
    BY Zenon DEF Names
  <2>3. SeededIds \subseteq FixedIds /\ {"wp-repo-onboarding"} \subseteq FixedIds
    BY DEF FixedIds
  <2> QED BY <2>1, <2>2, <2>3
<1>4. /\ {"analysis_design", "acceptance", "implementation", "testing"} \subseteq Phases
      /\ {"execution_planner", "integration_owner", "software_engineer", "qa_engineer"} \subseteq Roles
  BY DEF Phases, Roles
<1>5. Settled(FollowUpWork(s)) /\ NoneRunning(FollowUpWork(s))
  <2> DEFINE p == Package("wp-initial-work-plan", "analysis_design", "execution_planner", 90,
                          "codex", <<"claude_code">>, {"wp-repo-onboarding"}, 3)
  <2>1. "wp-initial-work-plan" \in SeededIds
    BY DEF SeededIds
  <2>2. p \in PackageDef /\ p.id = "wp-initial-work-plan" /\ p.status = "ready"
    BY <1>2, <1>3, <1>4, <2>1 DEF Package, PackageDef
  <2>3. FollowUpWork(s) = s \/ ("wp-initial-work-plan" \notin Ids(s) /\ FollowUpWork(s) = Added(s, <<p>>))
    BY DEF FollowUpWork
  <2> HIDE DEF p
  <2>4. <<p>> \in Seq(PackageDef) /\ \A m \in DOMAIN <<p>> : <<p>>[m] = p
    BY <2>2
  <2> QED BY <1>0, <2>1, <2>2, <2>3, <2>4
<1>6. Settled(FailedOnboardingAcceptance(s)) /\ NoneRunning(FailedOnboardingAcceptance(s))
  <2> DEFINE p == Package("wp-bootstrap-acceptance", "acceptance", "integration_owner", 95,
                          "python", <<>>, {}, 1)
  <2>1. "wp-bootstrap-acceptance" \in SeededIds
    BY DEF SeededIds
  <2>2. p \in PackageDef /\ p.id = "wp-bootstrap-acceptance" /\ p.status = "ready"
    BY <1>2, <1>3, <1>4, <2>1 DEF Package, PackageDef
  <2>3. FailedOnboardingAcceptance(s) = s
        \/ ("wp-bootstrap-acceptance" \notin Ids(s)
            /\ FailedOnboardingAcceptance(s) = Added(s, <<p>>))
    BY DEF FailedOnboardingAcceptance
  <2> HIDE DEF p
  <2>4. <<p>> \in Seq(PackageDef) /\ \A m \in DOMAIN <<p>> : <<p>>[m] = p
    BY <2>2
  <2> QED BY <1>0, <2>1, <2>2, <2>3, <2>4
<1>7. Settled(ImplementationWork(s)) /\ NoneRunning(ImplementationWork(s))
  <2>1. \A id, d \in SeededIds : \A priority \in Int :
          /\ Slice(id, priority, {d}) \in PackageDef
          /\ Slice(id, priority, {d}).id = id
          /\ Slice(id, priority, {d}).status = "ready"
    BY <1>2, <1>3, <1>4 DEF Slice, Package, PackageDef
  <2>2. /\ Slices \in Seq(PackageDef)
        /\ \A m \in DOMAIN Slices : Slices[m].id \in SeededIds /\ Slices[m].status = "ready"
    <3>1. {"wp-runtime-state-persistence", "wp-executor-live-adapters",
           "wp-onboarding-entry-flow", "wp-initial-work-plan"} \subseteq SeededIds
      BY DEF SeededIds
    <3> DEFINE a == Slice("wp-runtime-state-persistence", 95, {"wp-initial-work-plan"})
    <3> DEFINE b == Slice("wp-executor-live-adapters", 90, {"wp-runtime-state-persistence"})
    <3> DEFINE c == Slice("wp-onboarding-entry-flow", 85, {"wp-runtime-state-persistence"})
    <3>2. \A x \in {a, b, c} : x \in PackageDef /\ x.id \in SeededIds /\ x.status = "ready"
      BY <2>1, <3>1
    <3>3. Slices = <<a, b, c>>
      BY DEF Slices
    <3> HIDE DEF a, b, c
    <3> QED BY <3>2, <3>3
  <2>3. ImplementationWork(s) = s
        \/ ((\A m \in DOMAIN Slices : Slices[m].id \notin Ids(s))
            /\ ImplementationWork(s) = Added(s, Slices))
    BY DEF ImplementationWork
  <2> QED BY <1>0, <2>2, <2>3
<1>8. Settled(ValidationWork(s)) /\ NoneRunning(ValidationWork(s))
  <2> DEFINE ids == {s.packages[i].id : i \in Implementation(s)}
  <2> DEFINE p == Package("wp-self-hosting-regression", "testing", "qa_engineer", 80, "codex",
                          <<"claude_code">>, ids, 3)
  <2> DEFINE q == Package("wp-self-hosting-acceptance", "acceptance", "integration_owner", 70,
                          "claude_code", <<"python">>, {"wp-self-hosting-regression"}, 3)
  <2>1. "wp-self-hosting-regression" \in SeededIds /\ "wp-self-hosting-acceptance" \in SeededIds
    BY DEF SeededIds
  <2>2. ids \in SUBSET Names
    BY <1>1 DEF Implementation, PackageDef
  <2>3. p \in PackageDef /\ p.id = "wp-self-hosting-regression" /\ p.status = "ready"
    <3> HIDE DEF ids
    <3> QED BY <1>2, <1>3, <1>4, <2>1, <2>2 DEF Package, PackageDef
  <2>4. q \in PackageDef /\ q.id = "wp-self-hosting-acceptance" /\ q.status = "ready"
    <3>1. {"wp-self-hosting-regression"} \in SUBSET Names
      BY <1>3, <2>1
    <3> QED BY <3>1, <1>2, <1>3, <1>4, <2>1 DEF Package, PackageDef
  <2>5. ValidationWork(s) = s
        \/ ({"wp-self-hosting-regression", "wp-self-hosting-acceptance"} \cap Ids(s) = {}
            /\ ValidationWork(s) = Added(s, <<p, q>>))
    BY DEF ValidationWork
  <2> HIDE DEF p, q
  <2>6. /\ <<p, q>> \in Seq(PackageDef)
        /\ \A m \in DOMAIN <<p, q>> : <<p, q>>[m] \in {p, q}
    BY <2>3, <2>4
  <2> QED BY <1>0, <2>1, <2>3, <2>4, <2>5, <2>6
<1>9. Settled(ReleaseAcceptance(s)) /\ NoneRunning(ReleaseAcceptance(s))
  <2> DEFINE a == Find(s, "wp-self-hosting-acceptance")
  <2> DEFINE p == [s.packages[a] EXCEPT !.depends_on = {}, !.executor = "python", !.fallbacks = <<>>]
  <2>1. CASE ReleaseAcceptance(s) = s
    BY <2>1
  <2>2. CASE ReleaseAcceptance(s) # s
    <3>1. HasStatus(s, "wp-self-hosting-acceptance", "ready")
          /\ ReleaseAcceptance(s) = [s EXCEPT !.packages[a] = p]
      BY <2>2 DEF ReleaseAcceptance
    <3>2. a \in DOMAIN s.packages
      BY <3>1, FoundIn DEF HasStatus
    <3> HIDE DEF a
    <3>3. p \in PackageDef /\ p.id = s.packages[a].id /\ p.status = s.packages[a].status
      BY <1>1, <1>2, <3>2 DEF PackageDef
    <3> DEFINE t == [s EXCEPT !.packages[a] = p]
    <3> HIDE DEF p
    <3>4. Settled(t) /\ DOMAIN t.packages = DOMAIN s.packages /\ t.packages[a] = p
          /\ \A j \in DOMAIN s.packages \ {a} : t.packages[j] = s.packages[j]
      BY <3>2, <3>3, ChangedKeeps
    <3> HIDE DEF t
    <3>5. NoneRunning(t)
      BY <3>2, <3>3, <3>4 DEF NoneRunning
    <3> QED BY <3>1, <3>4, <3>5 DEF t
  <2> QED BY <2>1, <2>2
<1> QED BY <1>5, <1>6, <1>7, <1>8, <1>9 DEF Seeder

-----------------------------------------------------------------------------
(* Executors and decisions.                                                *)

LEMMA MinExists ==
    ASSUME NEW S \in SUBSET Nat, S # {}
    PROVE  \E m \in S : \A k \in S : m <= k
<1>1. PICK m \in S : \A y \in S : ~(<<y, m>> \in OpToRel(<, Nat))
  BY NatLessThanWellFounded, WFMin
<1>2. \A y \in S : ~(y < m)
  BY <1>1 DEF OpToRel
<1> QED BY <1>2

LEMMA ResolvedTyped ==
    ASSUME NEW p \in PackageDef
    PROVE  Resolved(p) \in Executors
<1>1. p.executor \in Executors \cup {"none"} /\ "python" \in Executors
  BY DEF PackageDef, Executors
<1>2. CASE Policy = NoPolicy
  BY <1>1, <1>2 DEF Resolved
<1>3. CASE Policy # NoPolicy
  BY <1>3, PolicyAssumption DEF Resolved
<1> QED BY <1>2, <1>3

LEMMA FallbackTyped ==
    ASSUME NEW p \in PackageDef, NEW executor, HasOtherFallback(p, executor)
    PROVE  FirstOtherFallback(p, executor) \in Executors
<1> DEFINE S == {k \in DOMAIN p.fallbacks : p.fallbacks[k] # executor}
<1>1. p.fallbacks \in Seq(Executors) /\ DOMAIN p.fallbacks = 1..Len(p.fallbacks)
      /\ Len(p.fallbacks) \in Nat
  <2>1. p.fallbacks \in Seq(Executors)
    BY DEF PackageDef
  <2> QED BY <2>1, LenProperties
<1>2. PICK m \in S : \A k \in S : m <= k
  <2>1. S \in SUBSET Nat /\ S # {}
    BY <1>1 DEF HasOtherFallback
  <2> QED BY <2>1, MinExists
<1>3. /\ m \in DOMAIN p.fallbacks /\ p.fallbacks[m] # executor
      /\ \A j \in 1..(m - 1) : p.fallbacks[j] = executor
  BY <1>1, <1>2
<1>4. \E k \in DOMAIN p.fallbacks :
          p.fallbacks[k] # executor /\ \A j \in 1..(k - 1) : p.fallbacks[j] = executor
  BY <1>3
<1> DEFINE c == CHOOSE k \in DOMAIN p.fallbacks :
                    /\ p.fallbacks[k] # executor
                    /\ \A j \in 1..(k - 1) : p.fallbacks[j] = executor
<1>5. c \in DOMAIN p.fallbacks
  BY <1>4
<1>6. FirstOtherFallback(p, executor) = p.fallbacks[c]
  BY DEF FirstOtherFallback
<1> HIDE DEF c
<1> QED BY <1>1, <1>5, <1>6, ElementOfSeq

Decisions == [action: Actions, next: Executors \cup {"none"}]

LEMMA DecisionTyped ==
    ASSUME NEW p \in PackageDef, NEW res, NEW answer \in Semantic(p, res)
    PROVE  Guarded(p, res, answer) \in Decisions
<1>1. \A a \in Actions : Decision(a) \in Decisions
  BY DEF Decision, Decisions
<1>2. {"final_fail", "replan", "block", "requeue", "switch_executor"} \subseteq Actions
  BY DEF Actions
<1>3. HasOtherFallback(p, res.executor) => Switch(p, res.executor) \in Decisions
  BY <1>2, FallbackTyped DEF Switch, Decisions
<1>4. RetryAction(p, res) \in Decisions
  <2>1. RetryAction(p, res) \in {Decision("final_fail"), Decision("replan"), Decision("block"),
                                 Decision("requeue")}
        \/ (HasOtherFallback(p, res.executor) /\ RetryAction(p, res) = Switch(p, res.executor))
    BY DEF RetryAction
  <2> QED BY <1>1, <1>2, <1>3, <2>1
<1>5. MockDecision(p, res) \in Decisions
  <2>1. MockDecision(p, res) \in {Decision("replan"), Decision("block"), Decision("requeue")}
        \/ (HasOtherFallback(p, res.executor) /\ MockDecision(p, res) = Switch(p, res.executor))
    BY DEF MockDecision
  <2> QED BY <1>1, <1>2, <1>3, <2>1
<1>6. answer \in Decisions
  <2>1. \A x \in LiveDecisions : x \in Decisions
    BY <1>1, <1>2 DEF LiveDecisions, Decisions
  <2> QED BY <1>5, <2>1 DEF Semantic
<1> QED BY <1>4, <1>6 DEF Guarded

(* A failed attempt leaves a package of the same id that does not run.     *)
LEMMA AttemptTyped ==
    ASSUME NEW p \in PackageDef
    PROVE  /\ Attempted(p) \in PackageDef
           /\ Attempted(p).id = p.id /\ Attempted(p).status = p.status
           /\ LET v == [Attempted(p) EXCEPT !.status = "verified"] IN
              v \in PackageDef /\ v.id = p.id /\ v.status = "verified"
           /\ \A d \in Decisions :
                 /\ Retried(Attempted(p), d) \in PackageDef
                 /\ Retried(Attempted(p), d).id = p.id
                 /\ Retried(Attempted(p), d).status \notin {"running", "deprecated"}
<1> DEFINE q == Attempted(p)
<1>1. q \in PackageDef /\ q.id = p.id /\ q.status = p.status
  BY DEF Attempted, PackageDef
<1> HIDE DEF q
<1>2. LET v == [q EXCEPT !.status = "verified"] IN
      v \in PackageDef /\ v.id = p.id /\ v.status = "verified"
  BY <1>1 DEF PackageDef, Statuses
<1>3. ASSUME NEW d \in Decisions
      PROVE  /\ Retried(q, d) \in PackageDef
             /\ Retried(q, d).id = p.id
             /\ Retried(q, d).status \notin {"running", "deprecated"}
  <2>1. /\ StatusAfter[d.action] \in Statuses \ {"running", "deprecated"}
        /\ d.action \in Actions /\ d.next \in Executors \cup {"none"}
    BY DEF StatusAfter, Decisions, Actions, Statuses
  <2> DEFINE e == IF d.action = "switch_executor" THEN d.next ELSE q.executor
  <2>2. e \in Executors \cup {"none"}
    BY <1>1, <2>1 DEF PackageDef
  <2> DEFINE q1 == [q EXCEPT !.status = StatusAfter[d.action]]
  <2> DEFINE q2 == [q1 EXCEPT !.retry = d.action]
  <2>3. Retried(q, d) = [q2 EXCEPT !.executor = e]
    BY <1>1 DEF Retried, PackageDef
  <2>4. q1 \in PackageDef /\ q1.id = p.id /\ q1.status \notin {"running", "deprecated"}
    BY <1>1, <2>1 DEF PackageDef
  <2> HIDE DEF e, q1
  <2>5. q2 \in PackageDef /\ q2.id = p.id /\ q2.status \notin {"running", "deprecated"}
    BY <2>1, <2>4 DEF PackageDef
  <2> HIDE DEF q2
  <2> QED BY <2>2, <2>3, <2>5 DEF PackageDef
<1> QED BY <1>1, <1>2, <1>3 DEF q

-----------------------------------------------------------------------------
(* Events.                                                                 *)

Shapes == [type: EventTypes, scope: Names \cup {"workspace"},
           status: {"none", "completed", "failed"}]

LEMMA EmitTyped ==
    ASSUME NEW u \in Seq(EventRecord), NEW id \in Nat, NEW seq \in Seq(Shapes)
    PROVE  LET new == u \o Numbered(u, id, seq) IN
           /\ new \in Seq(EventRecord)
           /\ \A k \in DOMAIN seq : \E j \in DOMAIN new :
                 new[j].cycle = id /\ new[j].type = seq[k].type
<1> DEFINE m == Numbered(u, id, seq)
<1>1. DOMAIN seq = 1..Len(seq) /\ Len(seq) \in Nat /\ Len(u) \in Nat
  BY LenProperties
<1>2. \A k \in 1..Len(seq) : seq[k] \in Shapes
  BY ElementOfSeq
<1>3. /\ m \in [1..Len(seq) -> EventRecord]
      /\ \A k \in 1..Len(seq) : m[k].cycle = id /\ m[k].type = seq[k].type
  <2>1. \A k \in 1..Len(seq) :
          [cycle |-> id, n |-> Len(u) + k, type |-> seq[k].type, scope |-> seq[k].scope,
           status |-> seq[k].status] \in EventRecord
    BY <1>1, <1>2 DEF Shapes, EventRecord
  <2> QED BY <1>1, <2>1 DEF Numbered
<1> HIDE DEF m
<1>4. m \in Seq(EventRecord) /\ Len(m) = Len(seq)
  <2>1. m \in Seq(EventRecord)
    BY <1>1, <1>3, SeqDef
  <2> QED BY <2>1, <1>1, <1>3, LenProperties
<1>5. /\ u \o m \in Seq(EventRecord)
      /\ Len(u \o m) = Len(u) + Len(seq)
      /\ \A k \in 1..(Len(u) + Len(seq)) :
            (u \o m)[k] = IF k <= Len(u) THEN u[k] ELSE m[k - Len(u)]
  <2>1. \A v \in Seq(EventRecord) :
          /\ u \o v \in Seq(EventRecord)
          /\ Len(u \o v) = Len(u) + Len(v)
          /\ \A k \in 1..(Len(u) + Len(v)) :
                (u \o v)[k] = IF k <= Len(u) THEN u[k] ELSE v[k - Len(u)]
    BY ConcatProperties
  <2> HIDE DEF Numbered
  <2> QED BY <2>1, <1>4
<1>6. DOMAIN (u \o m) = 1..(Len(u) + Len(seq))
  BY <1>5, LenProperties
<1>7. ASSUME NEW k \in DOMAIN seq
      PROVE  \E j \in DOMAIN (u \o m) :
                 (u \o m)[j].cycle = id /\ (u \o m)[j].type = seq[k].type
  <2>1. Len(u) + k \in DOMAIN (u \o m) /\ (u \o m)[Len(u) + k] = m[k]
    BY <1>1, <1>5, <1>6
  <2> QED BY <2>1, <1>1, <1>3
<1> QED BY <1>5, <1>7 DEF m

LEMMA ShapesTyped ==
    ASSUME NEW id \in Names
    PROVE  /\ \A r \in DOMAIN Requirements :
                 <<Event("requirement_patch_applied", Requirements[r].package, "none")>> \in Seq(Shapes)
           /\ <<Event("work_package_dispatched", id, "none")>> \in Seq(Shapes)
           /\ \A status \in {"completed", "failed"} :
                 <<Event("executor_result_normalized", id, status)>> \in Seq(Shapes)
           /\ \A p, d : p.id = id => RetryEvents(p, d) \in Seq(Shapes)
<1>1. \A t \in EventTypes : \A i \in Names : \A status \in {"none", "completed", "failed"} :
          Event(t, i, status) \in Shapes
  BY DEF Event, Shapes
<1>2. {"requirement_patch_applied", "work_package_dispatched", "executor_result_normalized",
       "work_package_requeued", "work_package_executor_switched", "work_package_blocked",
       "work_package_replan_requested"} \subseteq EventTypes
  BY DEF EventTypes
<1>3. \A r \in DOMAIN Requirements : Requirements[r].package \in Names
  BY DEF Names
<1>4. ASSUME NEW p, NEW d, p.id = id PROVE RetryEvents(p, d) \in Seq(Shapes)
  <2>1. RetryEvents(p, d) \in
          {<<Event("work_package_requeued", id, "none")>>,
           <<Event("work_package_requeued", id, "none"),
             Event("work_package_executor_switched", id, "none")>>,
           <<Event("work_package_blocked", id, "none")>>,
           <<Event("work_package_replan_requested", id, "none")>>, <<>>}
    BY <1>4 DEF RetryEvents
  <2>2. \A e, f \in Shapes : <<e>> \in Seq(Shapes) /\ <<e, f>> \in Seq(Shapes)
    OBVIOUS
  <2>3. <<>> \in Seq(Shapes)
    OBVIOUS
  <2> QED BY <1>1, <1>2, <2>1, <2>2, <2>3
<1>5. \A e \in Shapes : <<e>> \in Seq(Shapes)
  OBVIOUS
<1> QED BY <1>1, <1>2, <1>3, <1>4, <1>5

-----------------------------------------------------------------------------
(* The invariant: executors run only between selection and verification,   *)
(* the packages selected still satisfy what they were selected for, exactly *)
(* the packages with a result to verify are running, and the end of every   *)
(* stored cycle is an event of the store or, while its events are being     *)
(* appended, still to come.                                                 *)

Resting == pc # "run" => todo = {} /\ raw = <<>>
StillSelectable == \A i \in todo : IsReady(mem, i) /\ HasFrozenSeams(mem, i)
InFlight ==
    /\ \A j, k \in DOMAIN raw : raw[j].at = raw[k].at => j = k
    /\ \A i \in DOMAIN mem.packages :
          mem.packages[i].status = "running" <=> \E k \in DOMAIN raw : raw[k].at = i
Ends(e, c) == e.cycle = c /\ e.type = "cycle_completed"
EndComes ==
    pc = "append" => \/ \E e \in log : Ends(e, cycles + 1)
                     \/ \E k \in DOMAIN unsent : Ends(unsent[k], cycles + 1)
Storing ==
    /\ pc \in {"patch", "select", "run", "append"} /\ Stores(command) => cycles < MaxCycles
    /\ pc = "append" => Stores(command)

KernelInv ==
    /\ SnapshotTyped
    /\ Settled(file) /\ NoneRunning(file) /\ Settled(mem)
    /\ Resting /\ StillSelectable /\ InFlight /\ FirmGround
    /\ Storing /\ EndComes /\ HistoryLogged

(* Without results to verify nothing runs, and the other way round.        *)
LEMMA QuietNow ==
    ASSUME InFlight, raw = <<>> PROVE NoneRunning(mem)
  BY DEF InFlight, NoneRunning

LEMMA QuietNext ==
    ASSUME NoneRunning(mem'), raw' = <<>>, todo' = {}
    PROVE  Resting' /\ StillSelectable' /\ InFlight' /\ FirmGround'
<1>1. Resting' /\ StillSelectable'
  BY DEF Resting, StillSelectable
<1>2. InFlight'
  BY DEF InFlight, NoneRunning
<1>3. FirmGround'
  BY DEF FirmGround, NoneRunning
<1> QED BY <1>1, <1>2, <1>3

LEMMA InitKeeps == ASSUME Init PROVE KernelInv
<1>1. file \in SnapshotDef
  <2>1. Packages \in Seq(PackageDef)
    BY PackagesAssumption
  <2>2. SeamStatus \in [DOMAIN SeamStatus -> SeamStatuses]
    BY SeamsAssumption
  <2> QED BY <2>1, <2>2 DEF Init, SnapshotDef
<1>2. file.packages = Packages /\ file.requirements = [r \in DOMAIN Requirements |-> "absent"]
  BY DEF Init
<1>3. Settled(file)
  <2>1. ASSUME NEW r \in DOMAIN Requirements
        PROVE  NamedIn(file, r) /\ MarkedBy(file, r) /\ PatchIn(file, r)
    <3>1. NamedIn(file, r) /\ MarkedBy(file, r)
      BY <1>2 DEF NamedIn, MarkedBy
    <3>2. At(file, Requirements[r].package) = {}
      BY <1>2, IdsAssumption DEF At, FirstIds
    <3> QED BY <3>1, <3>2, <1>2 DEF PatchIn
  <2> QED BY <1>1, <2>1 DEF Settled
<1>4. NoneRunning(file)
  BY <1>2, PackagesAssumption DEF NoneRunning
<1>5. mem = file
  BY DEF Init
<1>6. Settled(mem) /\ NoneRunning(mem)
  BY <1>3, <1>4, <1>5
<1>7. Resting /\ StillSelectable
  BY DEF Init, Resting, StillSelectable
<1>8. InFlight
  BY <1>6 DEF Init, InFlight, NoneRunning
<1>9. FirmGround
  BY <1>6 DEF FirmGround, NoneRunning
<1>10. Storing /\ EndComes
  BY DEF Init, Storing, EndComes
<1>11. HistoryLogged
  BY DEF Init, HistoryLogged
<1>12. SnapshotTyped
  <2>1. Seeders \in Nat
    BY DEF Seeders
  <2>2. "snapshot" \in AllCommands
    BY DEF AllCommands
  <2>3. /\ cycles \in 0..MaxCycles /\ crashes \in 0..MaxCrashes /\ tried \in 0..Seeders
    BY <2>1, BoundsAssumption DEF Init
  <2>4. /\ torn \in BOOLEAN /\ patched \in BOOLEAN /\ log = {} /\ pc = "idle"
        /\ command = "snapshot" /\ todo = {} /\ raw = <<>> /\ unsent = <<>>
    BY DEF Init
  <2> QED BY <1>1, <1>5, <2>2, <2>3, <2>4 DEF SnapshotTyped
<1> QED BY <1>3, <1>4, <1>6, <1>7, <1>8, <1>9, <1>10, <1>11, <1>12 DEF KernelInv

(* A cycle is over, or begins: the copy is the file again.                 *)
LEMMA FreshKeeps ==
    ASSUME KernelInv, mem' = file', Settled(file'), NoneRunning(file'),
           todo' = {}, raw' = <<>>, unsent' \in Seq(EventRecord), tried' \in 0..Seeders,
           patched' \in BOOLEAN,
           command' \in AllCommands, torn' \in BOOLEAN, crashes' \in 0..MaxCrashes,
           cycles' \in 0..MaxCycles, log' = log, HistoryLogged',
           pc' \in {"idle", "patch"}, pc' = "patch" /\ Stores(command') => cycles' < MaxCycles
    PROVE  KernelInv'
<1>1. Settled(mem') /\ NoneRunning(mem')
  OBVIOUS
<1>2. Resting' /\ StillSelectable' /\ InFlight' /\ FirmGround'
  BY <1>1, QuietNext
<1>3. Storing' /\ EndComes'
  BY DEF Storing, EndComes
<1>4. SnapshotTyped'
  <2>1. file' \in SnapshotDef /\ mem' \in SnapshotDef
    BY <1>1 DEF Settled
  <2>2. log' \subseteq EventRecord
    BY DEF KernelInv, SnapshotTyped
  <2> QED BY <2>1, <2>2 DEF SnapshotTyped
<1> QED BY <1>1, <1>2, <1>3, <1>4 DEF KernelInv

LEMMA BeginKeeps ==
    ASSUME KernelInv, NEW cmd \in Commands, Begin(cmd) PROVE KernelInv'
<1>1. /\ file' = file /\ mem' = file' /\ torn' = torn /\ crashes' = crashes
      /\ cycles' = cycles /\ log' = log /\ command' = cmd
      /\ todo' = {} /\ raw' = <<>> /\ unsent' = <<>> /\ tried' = 0
      /\ pc' = "patch" /\ patched' \in BOOLEAN
      /\ Stores(cmd) => cycles < MaxCycles
  BY DEF Begin, disk
<1>2. Settled(file') /\ NoneRunning(file')
  BY <1>1 DEF KernelInv
<1>3. HistoryLogged'
  BY <1>1 DEF KernelInv, HistoryLogged
<1>4. /\ torn' \in BOOLEAN /\ crashes' \in 0..MaxCrashes /\ cycles' \in 0..MaxCycles
      /\ command' \in AllCommands
  BY <1>1, CommandsAssumption DEF KernelInv, SnapshotTyped
<1>5. unsent' \in Seq(EventRecord) /\ tried' \in 0..Seeders
  BY <1>1 DEF Seeders
<1> QED BY <1>1, <1>2, <1>3, <1>4, <1>5, FreshKeeps

(* A step to rest with another file, or none.                              *)
LEMMA RestKeeps ==
    ASSUME KernelInv, Rest, Settled(file'), NoneRunning(file'), log' = log,
           torn' \in BOOLEAN, crashes' \in 0..MaxCrashes, cycles' \in 0..MaxCycles,
           HistoryLogged'
    PROVE  KernelInv'
<1>1. /\ pc' = "idle" /\ mem' = file' /\ tried' = 0 /\ todo' = {} /\ raw' = <<>>
      /\ unsent' = <<>> /\ patched' \in BOOLEAN /\ command' = command
  BY DEF Rest
<1>2. command' \in AllCommands
  BY <1>1 DEF KernelInv, SnapshotTyped
<1>3. unsent' \in Seq(EventRecord) /\ tried' \in 0..Seeders
  BY <1>1 DEF Seeders
<1> QED BY <1>1, <1>2, <1>3, FreshKeeps

LEMMA ExecutorNotFoundKeeps ==
    ASSUME KernelInv, NEW i \in todo, ExecutorNotFound(i) PROVE KernelInv'
<1>1. Rest /\ file' = file /\ torn' = torn /\ cycles' = cycles /\ log' = log
      /\ crashes' = crashes
  BY DEF ExecutorNotFound, disk
<1>2. Settled(file') /\ NoneRunning(file')
  BY <1>1 DEF KernelInv
<1>3. HistoryLogged'
  BY <1>1 DEF KernelInv, HistoryLogged
<1>4. torn' \in BOOLEAN /\ crashes' \in 0..MaxCrashes /\ cycles' \in 0..MaxCycles
  BY <1>1 DEF KernelInv, SnapshotTyped
<1> QED BY <1>1, <1>2, <1>3, <1>4, RestKeeps

LEMMA CrashKeeps ==
    ASSUME KernelInv, Crash PROVE KernelInv'
<1>1. Rest /\ file' = file /\ torn' \in BOOLEAN /\ cycles' = cycles /\ log' = log
  BY DEF Crash
<1>2. Settled(file') /\ NoneRunning(file')
  BY <1>1 DEF KernelInv
<1>3. HistoryLogged'
  BY <1>1 DEF KernelInv, HistoryLogged
<1>4. crashes' \in 0..MaxCrashes
  BY BoundsAssumption DEF Crash, KernelInv, SnapshotTyped
<1>5. cycles' \in 0..MaxCycles
  BY <1>1 DEF KernelInv, SnapshotTyped
<1> QED BY <1>1, <1>2, <1>3, <1>4, <1>5, RestKeeps

LEMMA WriteFileKeeps ==
    ASSUME KernelInv, WriteFile PROVE KernelInv'
<1>1. Rest /\ file' = mem /\ torn' = torn /\ cycles' = cycles /\ log' = log
      /\ crashes' = crashes /\ pc = "writing"
  BY DEF WriteFile
<1>2. NoneRunning(mem)
  BY <1>1, QuietNow DEF KernelInv, Resting
<1>3. Settled(file') /\ NoneRunning(file')
  BY <1>1, <1>2 DEF KernelInv
<1>4. HistoryLogged'
  BY <1>1 DEF KernelInv, HistoryLogged
<1>5. torn' \in BOOLEAN /\ crashes' \in 0..MaxCrashes /\ cycles' \in 0..MaxCycles
  BY <1>1 DEF KernelInv, SnapshotTyped
<1> QED BY <1>1, <1>3, <1>4, <1>5, RestKeeps

LEMMA OpenFileKeeps ==
    ASSUME KernelInv, OpenFile PROVE KernelInv'
<1>1. /\ UNCHANGED <<disk, volatile, crashes>>
      /\ pc = "write" /\ pc' = "writing"
  BY DEF OpenFile
<1>2. /\ file' = file /\ torn' = torn /\ cycles' = cycles /\ log' = log /\ crashes' = crashes
      /\ command' = command /\ mem' = mem /\ tried' = tried /\ todo' = todo /\ raw' = raw
      /\ unsent' = unsent /\ patched' = patched
  BY <1>1 DEF disk, volatile
<1>3. raw' = <<>> /\ todo' = {} /\ NoneRunning(mem')
  BY <1>1, <1>2, QuietNow DEF KernelInv, Resting
<1>4. Resting' /\ StillSelectable' /\ InFlight' /\ FirmGround'
  BY <1>3, QuietNext
<1>5. Storing' /\ EndComes'
  BY <1>1 DEF Storing, EndComes
<1>6. HistoryLogged'
  BY <1>2 DEF KernelInv, HistoryLogged
<1>7. Settled(file') /\ NoneRunning(file') /\ Settled(mem')
  BY <1>2 DEF KernelInv
<1>8. SnapshotTyped'
  BY <1>1, <1>2 DEF KernelInv, SnapshotTyped
<1> QED BY <1>4, <1>5, <1>6, <1>7, <1>8 DEF KernelInv

(* The events and the history snapshot.                                    *)
LEMMA CycleCompletedKeeps ==
    ASSUME KernelInv, CycleCompleted PROVE KernelInv'
<1>1. /\ file' = file /\ torn' = torn /\ cycles' = cycles /\ log' = log /\ crashes' = crashes
      /\ command' = command /\ mem' = mem /\ tried' = tried /\ todo' = todo /\ raw' = raw
      /\ patched' = patched
      /\ pc = "run" /\ todo = {} /\ raw = <<>>
      /\ pc' = IF Stores(command) THEN "append" ELSE "write"
  BY DEF CycleCompleted, disk
<1> DEFINE seq == <<Event("cycle_completed", "workspace", "none")>>
<1>2. unsent' = unsent \o Numbered(unsent, CycleId(command), seq)
  BY DEF CycleCompleted, Emit
<1>3. seq \in Seq(Shapes) /\ DOMAIN seq = {1} /\ seq[1].type = "cycle_completed"
  <2>1. Event("cycle_completed", "workspace", "none") \in Shapes
    BY DEF Event, Shapes, EventTypes
  <2> QED BY <2>1 DEF Event
<1>4. unsent \in Seq(EventRecord) /\ CycleId(command) \in Nat /\ cycles \in Nat
  BY BoundsAssumption DEF KernelInv, SnapshotTyped, CycleId
<1> HIDE DEF seq
<1>5. /\ unsent' \in Seq(EventRecord)
      /\ \E j \in DOMAIN unsent' :
            unsent'[j].cycle = CycleId(command) /\ unsent'[j].type = "cycle_completed"
  <2> DEFINE new == unsent \o Numbered(unsent, CycleId(command), seq)
  <2>1. /\ new \in Seq(EventRecord)
        /\ \A k \in DOMAIN seq : \E j \in DOMAIN new :
              new[j].cycle = CycleId(command) /\ new[j].type = seq[k].type
    BY <1>3, <1>4, EmitTyped
  <2> HIDE DEF new
  <2>2. 1 \in DOMAIN seq /\ seq[1].type = "cycle_completed"
    BY <1>3
  <2>3. unsent' = new
    BY <1>2 DEF new
  <2> QED BY <2>1, <2>2, <2>3
<1>6. EndComes'
  <2>1. pc' = "append" => CycleId(command) = cycles + 1
    BY <1>1 DEF CycleId
  <2> QED BY <1>1, <1>5, <2>1 DEF EndComes, Ends
<1>7. raw' = <<>> /\ todo' = {} /\ NoneRunning(mem')
  BY <1>1, QuietNow DEF KernelInv
<1>8. Resting' /\ StillSelectable' /\ InFlight' /\ FirmGround'
  BY <1>7, QuietNext
<1>9. Storing'
  BY <1>1 DEF KernelInv, Storing
<1>10. HistoryLogged'
  BY <1>1 DEF KernelInv, HistoryLogged
<1>11. Settled(file') /\ NoneRunning(file') /\ Settled(mem')
  BY <1>1 DEF KernelInv
<1>12. SnapshotTyped'
  BY <1>1, <1>5 DEF KernelInv, SnapshotTyped
<1> QED BY <1>6, <1>8, <1>9, <1>10, <1>11, <1>12 DEF KernelInv

LEMMA AppendEventKeeps ==
    ASSUME KernelInv, AppendEvent PROVE KernelInv'
<1>1. /\ file' = file /\ torn' = torn /\ cycles' = cycles /\ crashes' = crashes
      /\ command' = command /\ mem' = mem /\ tried' = tried /\ todo' = todo /\ raw' = raw
      /\ patched' = patched /\ pc' = pc /\ pc = "append" /\ unsent # <<>>
      /\ log' = {e \in log : ~SameId(e, Head(unsent))} \cup {Head(unsent)}
      /\ unsent' = Tail(unsent)
  BY DEF AppendEvent
<1>2. unsent \in Seq(EventRecord) /\ log \subseteq EventRecord
  BY DEF KernelInv, SnapshotTyped
<1>3. /\ Head(unsent) \in EventRecord /\ Head(unsent) = unsent[1]
      /\ Tail(unsent) \in Seq(EventRecord)
      /\ Len(unsent) \in Nat /\ DOMAIN unsent = 1..Len(unsent)
      /\ Len(Tail(unsent)) = Len(unsent) - 1
      /\ DOMAIN Tail(unsent) = 1..(Len(unsent) - 1)
      /\ \A k \in 1..(Len(unsent) - 1) : Tail(unsent)[k] = unsent[k + 1]
  BY <1>1, <1>2, HeadTailProperties, LenProperties
<1>4. \A e \in log : \A c : Ends(e, c) => \E f \in log' : Ends(f, c)
  BY <1>1 DEF Ends, SameId
<1>5. EndComes'
  <2>1. CASE \E e \in log : Ends(e, cycles + 1)
    BY <2>1, <1>1, <1>4 DEF EndComes
  <2>2. CASE \E k \in DOMAIN unsent : Ends(unsent[k], cycles + 1)
    <3>1. PICK k \in 1..Len(unsent) : Ends(unsent[k], cycles + 1)
      BY <2>2, <1>3
    <3>2. CASE k = 1
      BY <3>1, <3>2, <1>1, <1>3 DEF EndComes
    <3>3. CASE k # 1
      <4>1. k - 1 \in DOMAIN Tail(unsent) /\ Tail(unsent)[k - 1] = unsent[k]
        BY <3>1, <3>3, <1>3
      <4> QED BY <4>1, <3>1, <1>1 DEF EndComes
    <3> QED BY <3>2, <3>3
  <2> QED BY <2>1, <2>2, <1>1 DEF KernelInv, EndComes
<1>6. HistoryLogged'
  BY <1>1, <1>4 DEF KernelInv, HistoryLogged, Ends
<1>7. raw' = <<>> /\ todo' = {} /\ NoneRunning(mem')
  BY <1>1, QuietNow DEF KernelInv, Resting
<1>8. Resting' /\ StillSelectable' /\ InFlight' /\ FirmGround'
  BY <1>7, QuietNext
<1>9. Storing'
  BY <1>1 DEF KernelInv, Storing
<1>10. Settled(file') /\ NoneRunning(file') /\ Settled(mem')
  BY <1>1 DEF KernelInv
<1>11. log' \subseteq EventRecord /\ unsent' \in Seq(EventRecord)
  BY <1>1, <1>2, <1>3
<1>12. SnapshotTyped'
  BY <1>1, <1>11 DEF KernelInv, SnapshotTyped
<1> QED BY <1>5, <1>6, <1>8, <1>9, <1>10, <1>12 DEF KernelInv

LEMMA PersistSnapshotKeeps ==
    ASSUME KernelInv, PersistSnapshot PROVE KernelInv'
<1>1. /\ file' = file /\ torn' = torn /\ cycles' = cycles + 1 /\ log' = log
      /\ crashes' = crashes /\ pc = "append" /\ unsent = <<>>
  BY DEF PersistSnapshot
<1>2. cycles \in Nat /\ cycles' \in 0..MaxCycles
  <2>1. cycles < MaxCycles
    BY <1>1 DEF KernelInv, Storing
  <2> QED BY <2>1, <1>1, BoundsAssumption DEF KernelInv, SnapshotTyped
<1>3. HistoryLogged'
  <2>1. \E e \in log : Ends(e, cycles + 1)
    BY <1>1 DEF KernelInv, EndComes
  <2>2. \A c \in 1..(cycles + 1) : c \in 1..cycles \/ c = cycles + 1
    BY <1>2
  <2> QED BY <2>1, <2>2, <1>1 DEF KernelInv, HistoryLogged, Ends
<1>4. Settled(file') /\ NoneRunning(file')
  BY <1>1 DEF KernelInv
<1>5. torn' \in BOOLEAN /\ crashes' \in 0..MaxCrashes
  BY <1>1 DEF KernelInv, SnapshotTyped
<1>6. CASE Rest
  BY <1>1, <1>2, <1>3, <1>4, <1>5, <1>6, RestKeeps
<1>7. CASE pc' = "write" /\ UNCHANGED volatile
  <2>1. /\ command' = command /\ mem' = mem /\ tried' = tried /\ todo' = todo /\ raw' = raw
        /\ unsent' = unsent /\ patched' = patched
    BY <1>7 DEF volatile
  <2>2. raw' = <<>> /\ todo' = {} /\ NoneRunning(mem')
    BY <1>1, <2>1, QuietNow DEF KernelInv, Resting
  <2>3. Resting' /\ StillSelectable' /\ InFlight' /\ FirmGround'
    BY <2>2, QuietNext
  <2>4. Storing' /\ EndComes'
    BY <1>7 DEF Storing, EndComes
  <2>5. Settled(mem')
    BY <2>1 DEF KernelInv
  <2>6. SnapshotTyped'
    BY <1>1, <1>2, <1>7, <2>1 DEF KernelInv, SnapshotTyped
  <2> QED BY <1>3, <1>4, <2>3, <2>4, <2>5, <2>6 DEF KernelInv
<1> QED BY <1>6, <1>7 DEF PersistSnapshot

(* The edits between cycles.                                               *)
LEMMA EditedKeeps ==
    ASSUME NEW s, Settled(s), NoneRunning(s), NEW t \in SnapshotDef,
           t.packages = s.packages,
           \A r \in DOMAIN Requirements :
               /\ t.requirements[r] = "applied" <=> s.requirements[r] = "applied"
               /\ t.requirements[r] # "absent" =>
                     s.requirements[r] # "absent" \/ Requirements[r].affected \subseteq Ids(s)
    PROVE  Settled(t) /\ NoneRunning(t)
<1>1. NoneRunning(t)
  BY DEF NoneRunning
<1>2. Ids(t) = Ids(s)
  BY DEF Ids
<1>3. ASSUME NEW r \in DOMAIN Requirements PROVE NamedIn(t, r) /\ MarkedBy(t, r) /\ PatchIn(t, r)
  <2>1. NamedIn(s, r) /\ MarkedBy(s, r) /\ PatchIn(s, r)
    BY DEF Settled
  <2>2. At(t, Requirements[r].package) = At(s, Requirements[r].package)
    BY DEF At
  <2>3. MarkedBy(t, r)
    BY <2>1 DEF MarkedBy
  <2>4. PatchIn(t, r)
    BY <2>1, <2>2 DEF PatchIn
  <2>5. NamedIn(t, r)
    BY <2>1, <1>2 DEF NamedIn
  <2> QED BY <2>3, <2>4, <2>5
<1> QED BY <1>1, <1>3 DEF Settled

LEMMA EditsKeep ==
    ASSUME KernelInv, NEW s, Edits(s), Settled(s), NoneRunning(s) PROVE KernelInv'
<1>1. /\ pc = "idle" /\ pc' = pc /\ file' = s /\ mem' = file' /\ torn' = torn
      /\ cycles' = cycles /\ log' = log /\ command' = command /\ tried' = tried
      /\ todo' = todo /\ raw' = raw /\ unsent' = unsent /\ patched' = patched
      /\ crashes' = crashes
  BY DEF Edits
<1>2. Settled(file') /\ NoneRunning(file')
  BY <1>1
<1>3. HistoryLogged'
  BY <1>1 DEF KernelInv, HistoryLogged
<1>4. todo' = {} /\ raw' = <<>>
  BY <1>1 DEF KernelInv, Resting
<1>5. /\ unsent' \in Seq(EventRecord) /\ tried' \in 0..Seeders /\ patched' \in BOOLEAN
      /\ command' \in AllCommands /\ torn' \in BOOLEAN /\ crashes' \in 0..MaxCrashes
      /\ cycles' \in 0..MaxCycles
  BY <1>1 DEF KernelInv, SnapshotTyped
<1> QED BY <1>1, <1>2, <1>3, <1>4, <1>5, FreshKeeps

LEMMA EditKeeps ==
    ASSUME KernelInv, Edit PROVE KernelInv'
<1>1. file \in SnapshotDef /\ Settled(file) /\ NoneRunning(file)
  BY DEF KernelInv, Settled
<1>2. ASSUME NEW r \in DOMAIN Requirements, RecordRequirement(r) PROVE KernelInv'
  <2> DEFINE t == [file EXCEPT !.requirements[r] = "pending"]
  <2>1. /\ Edits(t) /\ file.requirements[r] = "absent"
        /\ Requirements[r].affected \subseteq Ids(file)
    BY <1>2 DEF RecordRequirement
  <2>2. t \in SnapshotDef /\ t.packages = file.packages
    BY <1>1 DEF SnapshotDef
  <2>3. \A q \in DOMAIN Requirements :
            /\ t.requirements[q] = "applied" <=> file.requirements[q] = "applied"
            /\ t.requirements[q] # "absent" =>
                  file.requirements[q] # "absent" \/ Requirements[q].affected \subseteq Ids(file)
    BY <1>1, <2>1 DEF SnapshotDef
  <2> HIDE DEF t
  <2> QED BY <1>1, <2>1, <2>2, <2>3, EditedKeeps, EditsKeep
<1>3. ASSUME NEW seam \in DOMAIN SeamStatus, NEW status \in {"frozen", "verified"},
             Edits([file EXCEPT !.seams[seam] = status])
      PROVE  KernelInv'
  <2> DEFINE t == [file EXCEPT !.seams[seam] = status]
  <2>1. Edits(t)
    BY <1>3
  <2>2. t \in SnapshotDef /\ t.packages = file.packages /\ t.requirements = file.requirements
    BY <1>1 DEF SnapshotDef, SeamStatuses
  <2> HIDE DEF t
  <2> QED BY <1>1, <2>1, <2>2, EditedKeeps, EditsKeep
<1> QED BY <1>2, <1>3 DEF Edit, FreezeSeam, VerifySeam

(* The steps before executors run.                                         *)
LEMMA AllAppliedKeeps ==
    ASSUME KernelInv, AllApplied PROVE KernelInv'
<1>1. /\ UNCHANGED <<disk, volatile, crashes>>
      /\ pc = "patch" /\ pc' = "select"
  BY DEF AllApplied
<1>2. /\ file' = file /\ torn' = torn /\ cycles' = cycles /\ log' = log /\ crashes' = crashes
      /\ command' = command /\ mem' = mem /\ tried' = tried /\ todo' = todo /\ raw' = raw
      /\ unsent' = unsent /\ patched' = patched
  BY <1>1 DEF disk, volatile
<1>3. raw' = <<>> /\ todo' = {} /\ NoneRunning(mem')
  BY <1>1, <1>2, QuietNow DEF KernelInv, Resting
<1>4. Resting' /\ StillSelectable' /\ InFlight' /\ FirmGround'
  BY <1>3, QuietNext
<1>5. Storing' /\ EndComes'
  BY <1>1, <1>2 DEF KernelInv, Storing, EndComes
<1>6. HistoryLogged'
  BY <1>2 DEF KernelInv, HistoryLogged
<1>7. Settled(file') /\ NoneRunning(file') /\ Settled(mem')
  BY <1>2 DEF KernelInv
<1>8. SnapshotTyped'
  BY <1>1, <1>2 DEF KernelInv, SnapshotTyped
<1> QED BY <1>4, <1>5, <1>6, <1>7, <1>8 DEF KernelInv

LEMMA EmittedTyped ==
    ASSUME KernelInv, NEW seq \in Seq(Shapes), Emit(seq)
    PROVE  unsent' \in Seq(EventRecord)
<1>1. unsent \in Seq(EventRecord) /\ CycleId(command) \in Nat
  BY BoundsAssumption DEF KernelInv, SnapshotTyped, CycleId
<1> DEFINE new == unsent \o Numbered(unsent, CycleId(command), seq)
<1>2. new \in Seq(EventRecord)
  BY <1>1, EmitTyped
<1> QED BY <1>2 DEF Emit

LEMMA ApplyRequirementKeeps ==
    ASSUME KernelInv, NEW r \in DOMAIN Requirements, ApplyRequirement(r) PROVE KernelInv'
<1>1. /\ file' = file /\ torn' = torn /\ cycles' = cycles /\ log' = log /\ crashes' = crashes
      /\ command' = command /\ tried' = tried /\ todo' = todo /\ raw' = raw
      /\ patched' = patched /\ pc' = pc /\ pc = "patch"
      /\ r \in Pending(mem) /\ mem' = Patched(mem, r)
  BY DEF ApplyRequirement, disk
<1>2. raw' = <<>> /\ todo' = {} /\ NoneRunning(mem)
  BY <1>1, QuietNow DEF KernelInv, Resting
<1>3. Settled(mem') /\ NoneRunning(mem')
  BY <1>1, <1>2, PatchedKeeps DEF KernelInv
<1>4. Resting' /\ StillSelectable' /\ InFlight' /\ FirmGround'
  BY <1>2, <1>3, QuietNext
<1>5. Storing' /\ EndComes'
  BY <1>1 DEF KernelInv, Storing, EndComes
<1>6. HistoryLogged'
  BY <1>1 DEF KernelInv, HistoryLogged
<1>7. Settled(file') /\ NoneRunning(file')
  BY <1>1 DEF KernelInv
<1>8. unsent' \in Seq(EventRecord)
  <2>1. Requirements[r].package \in Names
    BY DEF Names
  <2>2. <<Event("requirement_patch_applied", Requirements[r].package, "none")>> \in Seq(Shapes)
    BY <2>1, ShapesTyped
  <2> QED BY <2>2, EmittedTyped DEF ApplyRequirement
<1>9. mem' \in SnapshotDef
  BY <1>3 DEF Settled
<1>10. SnapshotTyped'
  BY <1>1, <1>2, <1>8, <1>9 DEF KernelInv, SnapshotTyped
<1> QED BY <1>3, <1>4, <1>5, <1>6, <1>7, <1>10 DEF KernelInv

LEMMA SeedKeeps ==
    ASSUME KernelInv, Seed PROVE KernelInv'
<1>1. /\ file' = file /\ torn' = torn /\ cycles' = cycles /\ log' = log /\ crashes' = crashes
      /\ command' = command /\ todo' = todo /\ raw' = raw /\ unsent' = unsent
      /\ patched' = patched /\ pc' = pc /\ pc = "select"
      /\ tried < Seeders /\ tried' = tried + 1 /\ mem' = Seeder(tried + 1, mem)
  BY DEF Seed, disk
<1>2. raw' = <<>> /\ todo' = {} /\ NoneRunning(mem)
  BY <1>1, QuietNow DEF KernelInv, Resting
<1>3. tried' \in 0..Seeders /\ tried + 1 \in 1..5
  BY <1>1 DEF KernelInv, SnapshotTyped, Seeders
<1>4. Settled(mem') /\ NoneRunning(mem')
  BY <1>1, <1>2, <1>3, SeededKeeps DEF KernelInv
<1>5. Resting' /\ StillSelectable' /\ InFlight' /\ FirmGround'
  BY <1>2, <1>4, QuietNext
<1>6. Storing' /\ EndComes'
  BY <1>1 DEF KernelInv, Storing, EndComes
<1>7. HistoryLogged'
  BY <1>1 DEF KernelInv, HistoryLogged
<1>8. Settled(file') /\ NoneRunning(file')
  BY <1>1 DEF KernelInv
<1>9. mem' \in SnapshotDef
  BY <1>4 DEF Settled
<1>10. SnapshotTyped'
  BY <1>1, <1>2, <1>3, <1>9 DEF KernelInv, SnapshotTyped
<1> QED BY <1>4, <1>5, <1>6, <1>7, <1>8, <1>10 DEF KernelInv

LEMMA SelectKeeps ==
    ASSUME KernelInv, Select PROVE KernelInv'
<1>1. /\ file' = file /\ torn' = torn /\ cycles' = cycles /\ log' = log /\ crashes' = crashes
      /\ command' = command /\ mem' = mem /\ raw' = raw /\ unsent' = unsent
      /\ patched' = patched /\ pc = "select" /\ pc' = "run"
      /\ tried' = 0 /\ todo' = Workset(mem)
  BY DEF Select, disk
<1>2. todo' \subseteq DOMAIN mem.packages
      /\ \A i \in todo' : IsReady(mem, i) /\ HasFrozenSeams(mem, i)
  BY <1>1 DEF Workset, Candidates
<1>3. Resting' /\ StillSelectable'
  BY <1>1, <1>2 DEF Resting, StillSelectable
<1>4. InFlight' /\ FirmGround'
  BY <1>1 DEF KernelInv, InFlight, FirmGround
<1>5. Storing' /\ EndComes'
  BY <1>1 DEF KernelInv, Storing, EndComes
<1>6. HistoryLogged'
  BY <1>1 DEF KernelInv, HistoryLogged
<1>7. Settled(file') /\ NoneRunning(file') /\ Settled(mem')
  BY <1>1 DEF KernelInv
<1>8. SnapshotTyped'
  <2>1. tried' \in 0..Seeders
    BY <1>1 DEF Seeders
  <2> QED BY <1>1, <1>2, <2>1 DEF KernelInv, SnapshotTyped
<1> QED BY <1>3, <1>4, <1>5, <1>6, <1>7, <1>8 DEF KernelInv

(* The steps that run executors and verify their results.                  *)
LEMMA OutcomeTyped ==
    ASSUME NEW executor, NEW p, NEW out \in Outcomes(executor, p)
    PROVE  out.status \in {"completed", "failed"} /\ out.summary \in {"plain", "seam", "rejected"}
  BY DEF Outcomes, Completed, Failed

LEMMA DispatchKeeps ==
    ASSUME KernelInv, NEW i \in todo, Dispatch(i) PROVE KernelInv'
<1> DEFINE p == mem.packages[i]
           q == [p EXCEPT !.status = "running"]
<1>1. /\ file' = file /\ torn' = torn /\ cycles' = cycles /\ log' = log /\ crashes' = crashes
      /\ command' = command /\ tried' = tried /\ patched' = patched /\ pc' = pc
      /\ pc = "run" /\ todo' = todo \ {i}
      /\ mem' = [mem EXCEPT !.packages[i] = q]
      /\ Emit(<<Event("work_package_dispatched", p.id, "none")>>)
  BY DEF Dispatch, disk
<1>2. PICK out \in Outcomes(Resolved(p), p) :
          raw' = Append(raw, [at |-> i, executor |-> Resolved(p),
                              status |-> out.status, summary |-> out.summary])
  BY DEF Dispatch
<1>3. /\ mem \in SnapshotDef /\ raw \in Seq(ResultDef) /\ i \in DOMAIN mem.packages
      /\ todo \subseteq DOMAIN mem.packages
      /\ \A k \in DOMAIN raw : raw[k].at \in DOMAIN mem.packages
  BY DEF KernelInv, SnapshotTyped
<1>4. p \in PackageDef /\ p.status = "ready"
  <2>1. mem.packages \in Seq(PackageDef)
    BY <1>3 DEF SnapshotDef
  <2>2. IsReady(mem, i)
    BY DEF KernelInv, StillSelectable
  <2> QED BY <1>3, <2>1, <2>2, ElementOfSeq, LenProperties DEF IsReady
<1> HIDE DEF p
<1>5. q \in PackageDef /\ q.id = p.id /\ q.status = "running"
      /\ q.depends_on = p.depends_on /\ q.seams = p.seams
  BY <1>4 DEF PackageDef, Statuses
<1> HIDE DEF q
<1>6. /\ Settled(mem')
      /\ DOMAIN mem'.packages = DOMAIN mem.packages
      /\ mem'.packages[i] = q
      /\ \A j \in DOMAIN mem.packages \ {i} : mem'.packages[j] = mem.packages[j]
      /\ mem'.seams = mem.seams
  <2> DEFINE t == [mem EXCEPT !.packages[i] = q]
  <2>1. q.id = mem.packages[i].id /\ mem.packages[i].status # "deprecated"
    BY <1>4, <1>5 DEF p
  <2>2. Settled(mem)
    BY DEF KernelInv
  <2>3. /\ Settled(t)
        /\ DOMAIN t.packages = DOMAIN mem.packages
        /\ t.packages[i] = q
        /\ \A j \in DOMAIN mem.packages \ {i} : t.packages[j] = mem.packages[j]
        /\ t.seams = mem.seams
    BY <1>3, <1>5, <2>1, <2>2, ChangedKeeps
  <2> HIDE DEF t
  <2>4. mem' = t
    BY <1>1 DEF t
  <2> QED BY <2>3, <2>4
<1> DEFINE x == [at |-> i, executor |-> Resolved(p), status |-> out.status,
                 summary |-> out.summary]
<1>7. /\ x \in [at: Nat, executor: Executors, status: {"completed", "failed"},
                summary: {"plain", "seam", "rejected"}]
      /\ x.at = i
  <2>1. i \in Nat
    <3>1. mem.packages \in Seq(PackageDef)
      BY <1>3 DEF SnapshotDef
    <3> QED BY <1>3, <3>1, LenProperties
  <2>2. Resolved(p) \in Executors
    BY <1>4, ResolvedTyped
  <2>3. out.status \in {"completed", "failed"} /\ out.summary \in {"plain", "seam", "rejected"}
    BY OutcomeTyped
  <2> QED BY <2>1, <2>2, <2>3
<1> HIDE DEF x
<1> DEFINE n == Len(raw)
<1>8. /\ n \in Nat /\ DOMAIN raw = 1..n
      /\ raw' \in Seq(ResultDef)
      /\ DOMAIN raw' = 1..(n + 1)
      /\ \A k \in 1..n : raw'[k] = raw[k]
      /\ raw'[n + 1] = x
  <2>1. raw' = Append(raw, x) /\ x \in ResultDef
    BY <1>2, <1>7 DEF x, ResultDef
  <2>2. n \in Nat /\ DOMAIN raw = 1..n
    BY <1>3, LenProperties
  <2>3. raw' \in Seq(ResultDef) /\ Len(raw') = n + 1
    BY <1>3, <2>1, AppendProperties
  <2> QED BY <1>3, <2>1, <2>2, <2>3, AppendProperties, LenProperties
<1> HIDE DEF n
<1>9. \A k \in 1..(n + 1) : k \in 1..n \/ k = n + 1
  BY <1>8
<1>10. DoneIds(mem) \subseteq DoneIds(mem')
  BY <1>4, <1>6 DEF DoneIds, p
<1>11. Resting'
  BY <1>1 DEF Resting
<1>12. StillSelectable'
  <2> SUFFICES ASSUME NEW j \in todo \ {i}
               PROVE  IsReady(mem', j) /\ HasFrozenSeams(mem', j)
    BY <1>1 DEF StillSelectable
  <2>1. IsReady(mem, j) /\ HasFrozenSeams(mem, j)
    BY DEF KernelInv, StillSelectable
  <2>2. mem'.packages[j] = mem.packages[j]
    BY <1>3, <1>6
  <2> QED BY <2>1, <2>2, <1>6, <1>10 DEF IsReady, HasFrozenSeams
<1>13. InFlight'
  <2>1. \A k \in 1..n : raw[k].at # i
    BY <1>3, <1>4, <1>8 DEF KernelInv, InFlight, p
  <2>2. \A j, k \in DOMAIN raw' : raw'[j].at = raw'[k].at => j = k
    BY <2>1, <1>7, <1>8, <1>9 DEF KernelInv, InFlight
  <2>3. ASSUME NEW j \in DOMAIN mem'.packages
        PROVE  mem'.packages[j].status = "running" <=> \E k \in DOMAIN raw' : raw'[k].at = j
    <3>1. CASE j = i
      <4>1. n + 1 \in DOMAIN raw' /\ raw'[n + 1].at = i
        BY <1>7, <1>8
      <4> QED BY <3>1, <4>1, <1>5, <1>6
    <3>2. CASE j # i
      <4>1. mem'.packages[j] = mem.packages[j] /\ j \in DOMAIN mem.packages
        BY <3>2, <1>6
      <4>2. (\E k \in DOMAIN raw' : raw'[k].at = j) <=> \E k \in DOMAIN raw : raw[k].at = j
        <5>1. \A k \in 1..n : k \in 1..(n + 1)
          BY <1>8
        <5>2. raw'[n + 1].at # j
          BY <3>2, <1>7, <1>8
        <5> QED BY <5>1, <5>2, <1>8, <1>9
      <4> QED BY <4>1, <4>2 DEF KernelInv, InFlight
    <3> QED BY <3>1, <3>2
  <2> QED BY <2>2, <2>3 DEF InFlight
<1>14. FirmGround'
  <2> SUFFICES ASSUME NEW j \in DOMAIN mem'.packages, mem'.packages[j].status = "running"
               PROVE  /\ mem'.packages[j].depends_on \subseteq DoneIds(mem')
                      /\ HasFrozenSeams(mem', j)
    BY DEF FirmGround
  <2>1. CASE j = i
    <3>1. IsReady(mem, i) /\ HasFrozenSeams(mem, i)
      BY DEF KernelInv, StillSelectable
    <3>2. mem'.packages[i].depends_on = mem.packages[i].depends_on
          /\ mem'.packages[i].seams = mem.packages[i].seams
      BY <1>5, <1>6 DEF p
    <3> QED BY <2>1, <3>1, <3>2, <1>6, <1>10 DEF IsReady, HasFrozenSeams
  <2>2. CASE j # i
    <3>1. mem'.packages[j] = mem.packages[j] /\ j \in DOMAIN mem.packages
      BY <2>2, <1>6
    <3>2. mem.packages[j].depends_on \subseteq DoneIds(mem) /\ HasFrozenSeams(mem, j)
      BY <3>1 DEF KernelInv, FirmGround
    <3> QED BY <3>1, <3>2, <1>6, <1>10 DEF HasFrozenSeams
  <2> QED BY <2>1, <2>2
<1>15. Storing' /\ EndComes'
  BY <1>1 DEF KernelInv, Storing, EndComes
<1>16. HistoryLogged'
  BY <1>1 DEF KernelInv, HistoryLogged
<1>17. Settled(file') /\ NoneRunning(file')
  BY <1>1 DEF KernelInv
<1>18. unsent' \in Seq(EventRecord)
  <2>1. p.id \in Names
    BY <1>4 DEF PackageDef
  <2>2. <<Event("work_package_dispatched", p.id, "none")>> \in Seq(Shapes)
    BY <2>1, ShapesTyped
  <2> QED BY <1>1, <2>2, EmittedTyped
<1>19. SnapshotTyped'
  <2>1. mem' \in SnapshotDef
    BY <1>6 DEF Settled
  <2>2. todo' \subseteq DOMAIN mem'.packages
    BY <1>1, <1>3, <1>6
  <2>3. \A k \in DOMAIN raw' : raw'[k].at \in DOMAIN mem'.packages
    BY <1>3, <1>6, <1>7, <1>8, <1>9
  <2> QED BY <1>1, <1>8, <1>18, <2>1, <2>2, <2>3 DEF KernelInv, SnapshotTyped
<1> QED BY <1>6, <1>11, <1>12, <1>13, <1>14, <1>15, <1>16, <1>17, <1>19 DEF KernelInv

(* A result is verified: its package is changed to q, which is at rest.    *)
LEMMA VerifiedKeeps ==
    ASSUME KernelInv, pc = "run", todo = {}, raw # <<>>,
           NEW q \in PackageDef, q.id = mem.packages[Head(raw).at].id,
           q.status \notin {"running", "deprecated"},
           mem' = [mem EXCEPT !.packages[Head(raw).at] = q],
           raw' = Tail(raw), unsent' \in Seq(EventRecord),
           UNCHANGED <<disk, pc, command, tried, todo, patched, crashes>>
    PROVE  KernelInv'
<1> DEFINE i == Head(raw).at
           n == Len(raw)
<1>1. /\ file' = file /\ torn' = torn /\ cycles' = cycles /\ log' = log /\ crashes' = crashes
      /\ command' = command /\ tried' = tried /\ patched' = patched /\ pc' = pc
      /\ todo' = todo
  BY DEF disk
<1>2. /\ mem \in SnapshotDef /\ raw \in Seq(ResultDef)
      /\ \A k \in DOMAIN raw : raw[k].at \in DOMAIN mem.packages
  BY DEF KernelInv, SnapshotTyped
<1>3. /\ n \in Nat /\ n >= 1 /\ DOMAIN raw = 1..n
      /\ i = raw[1].at
      /\ raw' \in Seq(ResultDef)
      /\ DOMAIN raw' = 1..(n - 1)
      /\ \A k \in 1..(n - 1) : raw'[k] = raw[k + 1]
  <2>1. n \in Nat /\ DOMAIN raw = 1..n
    BY <1>2, LenProperties
  <2>2. n >= 1
    BY <1>2, <2>1, EmptySeq
  <2>3. Head(raw) = raw[1]
    BY <1>2
  <2>4. /\ Tail(raw) \in Seq(ResultDef) /\ Len(Tail(raw)) = n - 1
        /\ \A k \in 1..(n - 1) : Tail(raw)[k] = raw[k + 1]
    BY <1>2, HeadTailProperties
  <2>5. DOMAIN Tail(raw) = 1..(n - 1)
    BY <2>4, LenProperties
  <2> QED BY <2>1, <2>2, <2>3, <2>4, <2>5
<1> HIDE DEF i, n
<1>4. i \in DOMAIN mem.packages /\ mem.packages[i].status = "running"
  <2>1. 1 \in DOMAIN raw
    BY <1>3
  <2> QED BY <2>1, <1>2, <1>3 DEF KernelInv, InFlight
<1>5. /\ Settled(mem')
      /\ DOMAIN mem'.packages = DOMAIN mem.packages
      /\ mem'.packages[i] = q
      /\ \A j \in DOMAIN mem.packages \ {i} : mem'.packages[j] = mem.packages[j]
      /\ mem'.seams = mem.seams
  <2> DEFINE t == [mem EXCEPT !.packages[i] = q]
  <2>1. q.id = mem.packages[i].id
    BY DEF i
  <2>2. Settled(mem)
    BY DEF KernelInv
  <2>3. /\ Settled(t)
        /\ DOMAIN t.packages = DOMAIN mem.packages
        /\ t.packages[i] = q
        /\ \A j \in DOMAIN mem.packages \ {i} : t.packages[j] = mem.packages[j]
        /\ t.seams = mem.seams
    BY <1>4, <2>1, <2>2, ChangedKeeps
  <2>4. mem' = t
    BY DEF i
  <2> HIDE DEF t
  <2> QED BY <2>3, <2>4
<1>6. DoneIds(mem) \subseteq DoneIds(mem')
  BY <1>4, <1>5 DEF DoneIds
<1>7. InFlight'
  <2>1. \A k \in 1..(n - 1) : k + 1 \in DOMAIN raw /\ k + 1 # 1
    BY <1>3
  <2>2. \A j, k \in DOMAIN raw' : raw'[j].at = raw'[k].at => j = k
    <3> SUFFICES ASSUME NEW j \in 1..(n - 1), NEW k \in 1..(n - 1), raw'[j].at = raw'[k].at
                 PROVE  j = k
      BY <1>3
    <3>1. raw[j + 1].at = raw[k + 1].at /\ j + 1 \in DOMAIN raw /\ k + 1 \in DOMAIN raw
      BY <1>3
    <3>2. j + 1 = k + 1
      BY <3>1 DEF KernelInv, InFlight
    <3> QED BY <3>2
  <2>3. ASSUME NEW j \in DOMAIN mem'.packages
        PROVE  mem'.packages[j].status = "running" <=> \E k \in DOMAIN raw' : raw'[k].at = j
    <3>1. CASE j = i
      <4>1. \A k \in 1..(n - 1) : raw[k + 1].at # i
        BY <2>1, <1>3 DEF KernelInv, InFlight
      <4>2. \A k \in DOMAIN raw' : raw'[k].at # i
        BY <4>1, <1>3
      <4> QED BY <3>1, <4>2, <1>5
    <3>2. CASE j # i
      <4>1. mem'.packages[j] = mem.packages[j] /\ j \in DOMAIN mem.packages
        BY <3>2, <1>5
      <4>2. ASSUME NEW k \in DOMAIN raw, raw[k].at = j PROVE \E m \in DOMAIN raw' : raw'[m].at = j
        <5>1. k # 1
          BY <3>2, <4>2, <1>3
        <5>2. k - 1 \in 1..(n - 1) /\ (k - 1) + 1 = k
          BY <5>1, <1>3
        <5>3. raw'[k - 1] = raw[k]
          BY <5>2, <1>3
        <5> QED BY <4>2, <5>2, <5>3, <1>3
      <4>3. ASSUME NEW k \in DOMAIN raw', raw'[k].at = j PROVE \E m \in DOMAIN raw : raw[m].at = j
        BY <4>3, <2>1, <1>3
      <4> QED BY <4>1, <4>2, <4>3 DEF KernelInv, InFlight
    <3> QED BY <3>1, <3>2
  <2> QED BY <2>2, <2>3 DEF InFlight
<1>8. FirmGround'
  <2> SUFFICES ASSUME NEW j \in DOMAIN mem'.packages, mem'.packages[j].status = "running"
               PROVE  /\ mem'.packages[j].depends_on \subseteq DoneIds(mem')
                      /\ HasFrozenSeams(mem', j)
    BY DEF FirmGround
  <2>1. j # i
    BY <1>5
  <2>2. mem'.packages[j] = mem.packages[j] /\ j \in DOMAIN mem.packages
    BY <2>1, <1>5
  <2>3. mem.packages[j].depends_on \subseteq DoneIds(mem) /\ HasFrozenSeams(mem, j)
    BY <2>2 DEF KernelInv, FirmGround
  <2> QED BY <2>2, <2>3, <1>5, <1>6 DEF HasFrozenSeams
<1>9. Resting' /\ StillSelectable'
  BY <1>1 DEF Resting, StillSelectable
<1>10. Storing' /\ EndComes'
  BY <1>1 DEF KernelInv, Storing, EndComes
<1>11. HistoryLogged'
  BY <1>1 DEF KernelInv, HistoryLogged
<1>12. Settled(file') /\ NoneRunning(file')
  BY <1>1 DEF KernelInv
<1>13. SnapshotTyped'
  <2>1. mem' \in SnapshotDef
    BY <1>5 DEF Settled
  <2>2. \A k \in DOMAIN raw' : raw'[k].at \in DOMAIN mem'.packages
    BY <1>2, <1>3, <1>5
  <2> QED BY <1>1, <1>3, <2>1, <2>2 DEF KernelInv, SnapshotTyped
<1> QED BY <1>5, <1>7, <1>8, <1>9, <1>10, <1>11, <1>12, <1>13 DEF KernelInv

LEMMA VerifyKeeps ==
    ASSUME KernelInv, Verify PROVE KernelInv'
<1> DEFINE res == Head(raw)
           p == mem.packages[res.at]
           a == Attempted(p)
           normalized == <<Event("executor_result_normalized", a.id, res.status)>>
<1>1. /\ pc = "run" /\ todo = {} /\ raw # <<>> /\ raw' = Tail(raw)
      /\ UNCHANGED <<disk, pc, command, tried, todo, patched, crashes>>
  BY DEF Verify
<1>2. p \in PackageDef /\ res.status \in {"completed", "failed"}
  <2>1. /\ mem.packages \in Seq(PackageDef) /\ raw \in Seq(ResultDef)
        /\ \A k \in DOMAIN raw : raw[k].at \in DOMAIN mem.packages
    BY DEF KernelInv, SnapshotTyped, SnapshotDef
  <2>2. 1 \in DOMAIN raw /\ res = raw[1] /\ res \in ResultDef
    BY <1>1, <2>1
  <2>3. res.at \in DOMAIN mem.packages
    BY <2>1, <2>2
  <2>4. p \in PackageDef
    BY <2>1, <2>3, ElementOfSeq, LenProperties
  <2> QED BY <2>2, <2>4 DEF ResultDef
<1>3. /\ a \in PackageDef /\ a.id = p.id
      /\ LET v == [a EXCEPT !.status = "verified"] IN
         v \in PackageDef /\ v.id = p.id /\ v.status = "verified"
      /\ \A d \in Decisions :
            /\ Retried(a, d) \in PackageDef
            /\ Retried(a, d).id = p.id
            /\ Retried(a, d).status \notin {"running", "deprecated"}
  BY <1>2, AttemptTyped
<1>4. a.id \in Names
  BY <1>3 DEF PackageDef
<1>5. /\ normalized \in Seq(Shapes)
      /\ \A d : RetryEvents(a, d) \in Seq(Shapes)
  BY <1>2, <1>4, ShapesTyped
<1>6. CASE /\ mem' = [mem EXCEPT !.packages[res.at] = [a EXCEPT !.status = "verified"]]
           /\ Emit(normalized)
  <2> DEFINE v == [a EXCEPT !.status = "verified"]
  <2>1. v \in PackageDef /\ v.id = p.id /\ v.status \notin {"running", "deprecated"}
    BY <1>3
  <2>2. unsent' \in Seq(EventRecord)
    BY <1>5, <1>6, EmittedTyped
  <2>3. mem' = [mem EXCEPT !.packages[res.at] = v]
    BY <1>6
  <2> HIDE DEF v
  <2> QED BY <1>1, <2>1, <2>2, <2>3, VerifiedKeeps
<1>7. ASSUME NEW answer \in Semantic(a, res),
             LET d == Guarded(a, res, answer) IN
             /\ mem' = [mem EXCEPT !.packages[res.at] = Retried(a, d)]
             /\ Emit(normalized \o RetryEvents(a, d))
      PROVE  KernelInv'
  <2> DEFINE d == Guarded(a, res, answer)
             v == Retried(a, d)
  <2>1. d \in Decisions
    BY <1>3, DecisionTyped
  <2>2. mem' = [mem EXCEPT !.packages[res.at] = v]
        /\ Emit(normalized \o RetryEvents(a, d))
    BY <1>7
  <2> HIDE DEF a, d
  <2>3. v \in PackageDef /\ v.id = p.id /\ v.status \notin {"running", "deprecated"}
    BY <1>3, <2>1
  <2>4. normalized \o RetryEvents(a, d) \in Seq(Shapes)
    BY <1>5, ConcatProperties
  <2>5. unsent' \in Seq(EventRecord)
    BY <2>2, <2>4, EmittedTyped
  <2> HIDE DEF v, normalized
  <2> QED BY <1>1, <2>2, <2>3, <2>5, VerifiedKeeps
<1> QED BY <1>6, <1>7 DEF Verify

-----------------------------------------------------------------------------
(* Every step keeps the invariant.                                         *)
LEMMA NextKeeps ==
    ASSUME KernelInv, [Next]_vars PROVE KernelInv'
<1>1. ASSUME NEW cmd \in Commands, Begin(cmd) PROVE KernelInv'
  BY <1>1, BeginKeeps
<1>2. ASSUME Cycle PROVE KernelInv'
  <2>1. ASSUME NEW r \in DOMAIN Requirements, ApplyRequirement(r) PROVE KernelInv'
    BY <2>1, ApplyRequirementKeeps
  <2>2. CASE AllApplied
    BY <2>2, AllAppliedKeeps
  <2>3. CASE Seed
    BY <2>3, SeedKeeps
  <2>4. CASE Select
    BY <2>4, SelectKeeps
  <2>5. ASSUME NEW i \in todo, Dispatch(i) PROVE KernelInv'
    BY <2>5, DispatchKeeps
  <2>6. ASSUME NEW i \in todo, ExecutorNotFound(i) PROVE KernelInv'
    BY <2>6, ExecutorNotFoundKeeps
  <2>7. CASE Verify
    BY <2>7, VerifyKeeps
  <2>8. CASE CycleCompleted
    BY <2>8, CycleCompletedKeeps
  <2>9. CASE AppendEvent
    BY <2>9, AppendEventKeeps
  <2>10. CASE PersistSnapshot
    BY <2>10, PersistSnapshotKeeps
  <2>11. CASE OpenFile
    BY <2>11, OpenFileKeeps
  <2>12. CASE WriteFile
    BY <2>12, WriteFileKeeps
  <2> QED BY <1>2, <2>1, <2>2, <2>3, <2>4, <2>5, <2>6, <2>7, <2>8, <2>9, <2>10, <2>11,
             <2>12 DEF Cycle
<1>3. CASE Crash
  BY <1>3, CrashKeeps
<1>4. CASE Edit
  BY <1>4, EditKeeps
<1>5. CASE UNCHANGED vars
  <2>1. /\ file' = file /\ torn' = torn /\ cycles' = cycles /\ log' = log /\ pc' = pc
        /\ command' = command /\ mem' = mem /\ tried' = tried /\ todo' = todo /\ raw' = raw
        /\ unsent' = unsent /\ patched' = patched /\ crashes' = crashes
    BY <1>5 DEF vars, disk, volatile
  <2>2. SnapshotTyped'
    BY <2>1 DEF KernelInv, SnapshotTyped
  <2>3. Settled(file') /\ NoneRunning(file') /\ Settled(mem')
    BY <2>1 DEF KernelInv
  <2>4. Resting' /\ StillSelectable' /\ InFlight' /\ FirmGround'
    BY <2>1 DEF KernelInv, Resting, StillSelectable, InFlight, FirmGround
  <2>5. Storing' /\ EndComes' /\ HistoryLogged'
    BY <2>1 DEF KernelInv, Storing, EndComes, HistoryLogged
  <2> QED BY <2>2, <2>3, <2>4, <2>5 DEF KernelInv
<1> QED BY <1>1, <1>2, <1>3, <1>4, <1>5 DEF Next

THEOREM KernelInvariant == Spec => []KernelInv
<1>1. Init => KernelInv
  BY InitKeeps
<1>2. KernelInv /\ [Next]_vars => KernelInv'
  BY NextKeeps
<1> QED BY <1>1, <1>2, PTL DEF Spec

(* The state of the kernel keeps its type: the cycle never puts a record   *)
(* into a snapshot, a result list or the event store that has no meaning   *)
(* there, and dispatches and verifies only packages that exist.            *)
THEOREM SnapshotTypeCorrect == Spec => []SnapshotTyped
<1>1. KernelInv => SnapshotTyped
  BY DEF KernelInv
<1> QED BY <1>1, KernelInvariant, PTL

NoRunningOnDisk == \A i \in DOMAIN file.packages : file.packages[i].status # "running"

(* No package is ever running in the snapshot file, after any cycle,       *)
(* failing executor or crash: run_cycle settles every package it set       *)
(* running before it saves (builder.py, _apply_executor_result).  So what  *)
(* DispatchedSurvives asks of a crash fails for every value of the         *)
(* constants.                                                              *)
THEOREM RunningNeverSaved == Spec => []NoRunningOnDisk
<1>1. KernelInv => NoRunningOnDisk
  BY DEF KernelInv, NoneRunning, NoRunningOnDisk
<1> QED BY <1>1, KernelInvariant, PTL

(* Executors run only on completed dependencies and frozen seams, as the   *)
(* snapshot of the cycle has them after its requirement events, and the    *)
(* executors dispatched and the results verified earlier in the cycle do   *)
(* not pull the ground away (select_workset, _dispatch_selected_work).     *)
THEOREM GroundStaysFirm == Spec => []FirmGround
<1>1. KernelInv => FirmGround
  BY DEF KernelInv
<1> QED BY <1>1, KernelInvariant, PTL

(* What an applied requirement event affects stays deprecated in the file  *)
(* for ever (apply_requirement_events): no retry, seeder, crash or other   *)
(* event brings it back.                                                   *)
THEOREM DeprecatedForGood == Spec => []AffectedDeprecated
<1>1. KernelInv => AffectedDeprecated
  BY DEF KernelInv, Settled, MarkedBy, AffectedDeprecated
<1> QED BY <1>1, KernelInvariant, PTL

(* A requirement event is applied to the file exactly once, with one patch *)
(* package, however often cycles are repeated and wherever they crash.     *)
THEOREM AppliedOnce == Spec => []PatchOnce
<1>1. KernelInv => PatchOnce
  <2> SUFFICES ASSUME KernelInv, NEW r \in DOMAIN Requirements
               PROVE  Cardinality(At(file, Requirements[r].package))
                        = IF file.requirements[r] = "applied" THEN 1 ELSE 0
    BY DEF PatchOnce, At
  <2>1. PatchIn(file, r)
    BY DEF KernelInv, Settled
  <2>2. CASE file.requirements[r] = "applied"
    <3>1. PICK i : At(file, Requirements[r].package) = {i}
      BY <2>1, <2>2 DEF PatchIn
    <3> QED BY <3>1, <2>2, FS_Singleton
  <2>3. CASE file.requirements[r] # "applied"
    <3>1. At(file, Requirements[r].package) = {}
      BY <2>1, <2>3 DEF PatchIn
    <3> QED BY <3>1, <2>3, FS_EmptySet
  <2> QED BY <2>2, <2>3
<1> QED BY <1>1, KernelInvariant, PTL

(* A history snapshot is in the store only if the event that ends its      *)
(* cycle is, whatever crashed between the two (_persist_snapshot after     *)
(* append_event).                                                          *)
THEOREM HistoryAfterEvents == Spec => []HistoryLogged
<1>1. KernelInv => HistoryLogged
  BY DEF KernelInv
<1> QED BY <1>1, KernelInvariant, PTL

-----------------------------------------------------------------------------
(* What a step does to the packages of the copy, in the terms that the     *)
(* theorems about several cycles need: who is added and who is changed.    *)

Same(p, q) == p.id = q.id /\ p.attempts = q.attempts
Regression == "wp-self-hosting-regression"
Acceptance == "wp-self-hosting-acceptance"
SliceIds == {"wp-runtime-state-persistence", "wp-executor-live-adapters",
             "wp-onboarding-entry-flow"}
Fresh(p) == /\ p.status = "ready" /\ p.attempts = 0
            /\ p.phase = "implementation" <=> p.id \in SliceIds
            /\ p.id = Acceptance => p.depends_on = {Regression}
SlicesDone(s) ==
    Implementation(s) # {} /\ \A i \in Implementation(s) : s.packages[i].status = "verified"

(* New packages, all of them new by name.                                  *)
Extends(s, t) ==
    /\ DOMAIN s.packages \subseteq DOMAIN t.packages
    /\ \A j \in DOMAIN s.packages : t.packages[j] = s.packages[j]
    /\ \A j \in DOMAIN t.packages \ DOMAIN s.packages :
          /\ t.packages[j].id \in SeededIds \ Ids(s) /\ Fresh(t.packages[j])
          /\ t.packages[j].id \in {Regression, Acceptance} => SlicesDone(s)
          /\ t.packages[j].id \in SliceIds => SliceIds \subseteq Ids(t)
    /\ \A i, j \in DOMAIN t.packages \ DOMAIN s.packages :
          t.packages[i].id = t.packages[j].id => i = j

(* The acceptance loses its dependencies.                                  *)
Releases(s, t) ==
    /\ DOMAIN t.packages = DOMAIN s.packages
    /\ FinallyFailed(s, Regression)
    /\ \E a \in DOMAIN s.packages :
          /\ s.packages[a].id = Acceptance
          /\ Same(t.packages[a], s.packages[a])
          /\ t.packages[a].status = s.packages[a].status
          /\ t.packages[a].phase = s.packages[a].phase
          /\ t.packages[a].depends_on = {}
          /\ \A j \in DOMAIN s.packages \ {a} : t.packages[j] = s.packages[j]

LEMMA AddedExtends ==
    ASSUME NEW s, Settled(s), NEW new \in Seq(PackageDef),
           \A k \in DOMAIN new :
               /\ new[k].id \in SeededIds \ Ids(s) /\ Fresh(new[k])
               /\ new[k].id \in {Regression, Acceptance} => SlicesDone(s)
               /\ new[k].id \in SliceIds => \A id \in SliceIds : \E j \in DOMAIN new : new[j].id = id,
           \A j, k \in DOMAIN new : new[j].id = new[k].id => j = k
    PROVE  Extends(s, Added(s, new))
<1> DEFINE t == Added(s, new)
           n == Len(s.packages)
<1>1. s.packages \in Seq(PackageDef) /\ s \in SnapshotDef
  BY DEF Settled, SnapshotDef
<1>2. t.packages = s.packages \o new
  BY <1>1 DEF Added, SnapshotDef
<1>3. /\ DOMAIN s.packages = 1..n /\ n \in Nat
      /\ DOMAIN new = 1..Len(new) /\ Len(new) \in Nat
      /\ DOMAIN t.packages = 1..(n + Len(new))
      /\ \A j \in 1..n : t.packages[j] = s.packages[j]
      /\ \A j \in 1..(n + Len(new)) : j \notin 1..n =>
            j - n \in DOMAIN new /\ t.packages[j] = new[j - n]
      /\ \A k \in DOMAIN new : n + k \in DOMAIN t.packages /\ t.packages[n + k] = new[k]
  <2>1. /\ DOMAIN s.packages = 1..n /\ n \in Nat
        /\ DOMAIN new = 1..Len(new) /\ Len(new) \in Nat
    BY <1>1, LenProperties
  <2>2. /\ s.packages \o new \in Seq(PackageDef)
        /\ Len(s.packages \o new) = n + Len(new)
        /\ \A j \in 1..(n + Len(new)) :
             (s.packages \o new)[j] = IF j <= n THEN s.packages[j] ELSE new[j - n]
    BY <1>1, ConcatProperties
  <2>3. DOMAIN (s.packages \o new) = 1..(n + Len(new))
    BY <2>2, LenProperties
  <2> HIDE DEF t
  <2> QED BY <1>2, <2>1, <2>2, <2>3
<1> HIDE DEF t, n
<1>4. ASSUME NEW j \in DOMAIN t.packages \ DOMAIN s.packages
      PROVE  /\ t.packages[j].id \in SeededIds \ Ids(s) /\ Fresh(t.packages[j])
             /\ t.packages[j].id \in {Regression, Acceptance} => SlicesDone(s)
             /\ t.packages[j].id \in SliceIds => SliceIds \subseteq Ids(t)
  <2>1. j - n \in DOMAIN new /\ t.packages[j] = new[j - n]
    BY <1>3
  <2>2. ASSUME t.packages[j].id \in SliceIds, NEW id \in SliceIds PROVE id \in Ids(t)
    <3>1. PICK m \in DOMAIN new : new[m].id = id
      BY <2>1, <2>2
    <3>2. n + m \in DOMAIN t.packages /\ t.packages[n + m].id = id
      BY <3>1, <1>3
    <3> QED BY <3>2 DEF Ids
  <2> QED BY <2>1, <2>2
<1>5. ASSUME NEW i \in DOMAIN t.packages \ DOMAIN s.packages,
             NEW j \in DOMAIN t.packages \ DOMAIN s.packages,
             t.packages[i].id = t.packages[j].id
      PROVE  i = j
  <2>1. /\ i - n \in DOMAIN new /\ t.packages[i] = new[i - n]
        /\ j - n \in DOMAIN new /\ t.packages[j] = new[j - n]
    BY <1>3
  <2>2. i - n = j - n
    BY <2>1, <1>5
  <2> QED BY <2>2, <1>3
<1>6. DOMAIN s.packages \subseteq DOMAIN t.packages
  BY <1>3
<1>7. \A j \in DOMAIN s.packages : t.packages[j] = s.packages[j]
  BY <1>3
<1> QED BY <1>4, <1>5, <1>6, <1>7 DEF Extends, t

LEMMA SeederShape ==
    ASSUME NEW s, Settled(s), NEW k \in 1..5
    PROVE  Seeder(k, s) = s \/ Extends(s, Seeder(k, s)) \/ Releases(s, Seeder(k, s))
<1>1. \A i \in DOMAIN s.packages : s.packages[i] \in PackageDef
  <2>1. s.packages \in Seq(PackageDef)
    BY DEF Settled, SnapshotDef
  <2> QED BY <2>1, ElementOfSeq, LenProperties
<1>2. /\ \A e \in Executors : <<e>> \in Seq(Executors)
      /\ <<>> \in Seq(Executors)
      /\ {"claude_code", "python", "codex"} \subseteq Executors
  BY DEF Executors
<1>3. /\ "core" \in Domains /\ "ready" \in Statuses /\ "none" \in Actions \cup {"none"}
      /\ SeededIds \subseteq Names /\ {"wp-repo-onboarding"} \subseteq Names
  <2>1. "core" \in Domains /\ "ready" \in Statuses /\ "none" \in Actions \cup {"none"}
    BY DEF Domains, Statuses
  <2>2. FixedIds \subseteq Names
    BY Zenon DEF Names
  <2>3. SeededIds \subseteq FixedIds /\ {"wp-repo-onboarding"} \subseteq FixedIds
    BY DEF FixedIds
  <2> QED BY <2>1, <2>2, <2>3
<1>4. /\ {"analysis_design", "acceptance", "implementation", "testing"} \subseteq Phases
      /\ {"execution_planner", "integration_owner", "software_engineer", "qa_engineer"} \subseteq Roles
  BY DEF Phases, Roles
<1>5. /\ {"wp-initial-work-plan", "wp-bootstrap-acceptance", Regression, Acceptance} \subseteq SeededIds
      /\ SliceIds \subseteq SeededIds
      /\ {"wp-initial-work-plan", "wp-bootstrap-acceptance", Regression, Acceptance}
            \cap SliceIds = {}
      /\ Regression # Acceptance
      /\ {"wp-initial-work-plan", "wp-bootstrap-acceptance"} \cap {Regression, Acceptance} = {}
  BY DEF SeededIds, SliceIds, Regression, Acceptance
<1>6. ASSUME NEW p \in PackageDef, p.id \in {"wp-initial-work-plan", "wp-bootstrap-acceptance"},
             p.phase # "implementation", p.status = "ready", p.attempts = 0, p.id \notin Ids(s)
      PROVE  Extends(s, Added(s, <<p>>))
  <2>1. <<p>> \in Seq(PackageDef) /\ DOMAIN <<p>> = {1} /\ <<p>>[1] = p
    OBVIOUS
  <2>2. Fresh(p) /\ p.id \in SeededIds
    BY <1>5, <1>6 DEF Fresh
  <2>3. p.id \notin {Regression, Acceptance} /\ p.id \notin SliceIds
    BY <1>5, <1>6
  <2> DEFINE new == <<p>>
  <2> HIDE DEF new
  <2> QED BY <1>6, <2>1, <2>2, <2>3, AddedExtends DEF new
<1>7. FollowUpWork(s) = s \/ Extends(s, FollowUpWork(s))
  <2> DEFINE p == Package("wp-initial-work-plan", "analysis_design", "execution_planner", 90,
                          "codex", <<"claude_code">>, {"wp-repo-onboarding"}, 3)
  <2>1. "wp-initial-work-plan" \in Names
    BY <1>3, <1>5
  <2>2. /\ p \in PackageDef /\ p.id = "wp-initial-work-plan" /\ p.status = "ready"
        /\ p.attempts = 0 /\ p.phase # "implementation"
    BY <1>2, <1>3, <1>4, <2>1 DEF Package, PackageDef
  <2>3. FollowUpWork(s) = s \/ ("wp-initial-work-plan" \notin Ids(s) /\ FollowUpWork(s) = Added(s, <<p>>))
    BY DEF FollowUpWork
  <2> HIDE DEF p
  <2> QED BY <1>6, <2>2, <2>3
<1>8. FailedOnboardingAcceptance(s) = s \/ Extends(s, FailedOnboardingAcceptance(s))
  <2> DEFINE p == Package("wp-bootstrap-acceptance", "acceptance", "integration_owner", 95,
                          "python", <<>>, {}, 1)
  <2>1. "wp-bootstrap-acceptance" \in Names
    BY <1>3, <1>5
  <2>2. /\ p \in PackageDef /\ p.id = "wp-bootstrap-acceptance" /\ p.status = "ready"
        /\ p.attempts = 0 /\ p.phase # "implementation"
    BY <1>2, <1>3, <1>4, <2>1 DEF Package, PackageDef
  <2>3. FailedOnboardingAcceptance(s) = s
        \/ ("wp-bootstrap-acceptance" \notin Ids(s)
            /\ FailedOnboardingAcceptance(s) = Added(s, <<p>>))
    BY DEF FailedOnboardingAcceptance
  <2> HIDE DEF p
  <2> QED BY <1>6, <2>2, <2>3
<1>9. ImplementationWork(s) = s \/ Extends(s, ImplementationWork(s))
  <2> DEFINE a == Slice("wp-runtime-state-persistence", 95, {"wp-initial-work-plan"})
             b == Slice("wp-executor-live-adapters", 90, {"wp-runtime-state-persistence"})
             c == Slice("wp-onboarding-entry-flow", 85, {"wp-runtime-state-persistence"})
  <2>1. \A id, d \in SeededIds : \A priority \in Int :
          /\ Slice(id, priority, {d}) \in PackageDef
          /\ Slice(id, priority, {d}).id = id
          /\ Slice(id, priority, {d}).status = "ready"
          /\ Slice(id, priority, {d}).attempts = 0
          /\ Slice(id, priority, {d}).phase = "implementation"
    BY <1>2, <1>3, <1>4 DEF Slice, Package, PackageDef
  <2>2. \A x \in {a, b, c} :
          /\ x \in PackageDef /\ x.status = "ready" /\ x.attempts = 0
          /\ x.phase = "implementation" /\ x.id \in SliceIds
    <3>1. {"wp-runtime-state-persistence", "wp-executor-live-adapters",
           "wp-onboarding-entry-flow"} = SliceIds
      BY DEF SliceIds
    <3> QED BY <2>1, <3>1, <1>5
  <2>3. /\ a.id = "wp-runtime-state-persistence" /\ b.id = "wp-executor-live-adapters"
        /\ c.id = "wp-onboarding-entry-flow"
    BY DEF Slice, Package
  <2>4. Slices = <<a, b, c>>
    BY DEF Slices
  <2>5. ImplementationWork(s) = s
        \/ ((\A m \in DOMAIN Slices : Slices[m].id \notin Ids(s))
            /\ ImplementationWork(s) = Added(s, Slices))
    BY DEF ImplementationWork
  <2> HIDE DEF a, b, c
  <2>6. /\ Slices \in Seq(PackageDef) /\ DOMAIN Slices = 1..3
        /\ Slices[1] = a /\ Slices[2] = b /\ Slices[3] = c
    BY <2>2, <2>4
  <2>7. \A m \in DOMAIN Slices : Slices[m] \in {a, b, c}
    BY <2>6
  <2>8. \A id \in SliceIds : \E j \in DOMAIN Slices : Slices[j].id = id
    BY <2>3, <2>6 DEF SliceIds
  <2>9. \A m \in DOMAIN Slices : Slices[m].id \in SeededIds /\ Fresh(Slices[m])
                                 /\ Slices[m].id \notin {Regression, Acceptance}
    BY <2>2, <2>7, <1>5 DEF Fresh
  <2>10. \A j, m \in DOMAIN Slices : Slices[j].id = Slices[m].id => j = m
    BY <2>3, <2>6
  <2>11. (\A m \in DOMAIN Slices : Slices[m].id \notin Ids(s)) => Extends(s, Added(s, Slices))
    BY <2>6, <2>8, <2>9, <2>10, AddedExtends
  <2> QED BY <2>5, <2>11
<1>10. ValidationWork(s) = s \/ Extends(s, ValidationWork(s))
  <2> DEFINE ids == {s.packages[i].id : i \in Implementation(s)}
  <2> DEFINE p == Package("wp-self-hosting-regression", "testing", "qa_engineer", 80, "codex",
                          <<"claude_code">>, ids, 3)
  <2> DEFINE q == Package("wp-self-hosting-acceptance", "acceptance", "integration_owner", 70,
                          "claude_code", <<"python">>, {"wp-self-hosting-regression"}, 3)
  <2>1. "wp-self-hosting-regression" \in Names /\ "wp-self-hosting-acceptance" \in Names
    BY <1>3, <1>5 DEF Regression, Acceptance
  <2>2. ids \in SUBSET Names
    BY <1>1 DEF Implementation, PackageDef
  <2>3. /\ p \in PackageDef /\ p.id = Regression /\ p.status = "ready" /\ p.attempts = 0
        /\ p.phase # "implementation"
    <3> HIDE DEF ids
    <3> QED BY <1>2, <1>3, <1>4, <2>1, <2>2 DEF Package, PackageDef, Regression
  <2>4. /\ q \in PackageDef /\ q.id = Acceptance /\ q.status = "ready" /\ q.attempts = 0
        /\ q.phase # "implementation" /\ q.depends_on = {Regression}
    BY <1>2, <1>3, <1>4, <2>1 DEF Package, PackageDef, Regression, Acceptance
  <2>5. ValidationWork(s) = s
        \/ ({Regression, Acceptance} \cap Ids(s) = {} /\ SlicesDone(s)
            /\ ValidationWork(s) = Added(s, <<p, q>>))
    BY DEF ValidationWork, SlicesDone, Regression, Acceptance
  <2> HIDE DEF p, q, ids
  <2> DEFINE new == <<p, q>>
  <2>6. /\ new \in Seq(PackageDef) /\ DOMAIN new = 1..2 /\ new[1] = p /\ new[2] = q
    BY <2>3, <2>4
  <2>7. ValidationWork(s) = s
        \/ ({Regression, Acceptance} \cap Ids(s) = {} /\ SlicesDone(s)
            /\ ValidationWork(s) = Added(s, new))
    BY <2>5
  <2> HIDE DEF new
  <2>8. \A m \in DOMAIN new : new[m] = p \/ new[m] = q
    BY <2>6
  <2>9. \A m \in DOMAIN new : new[m].id \in SeededIds /\ Fresh(new[m])
                              /\ new[m].id \notin SliceIds
                              /\ new[m].id \in {Regression, Acceptance}
    BY <2>3, <2>4, <2>8, <1>5 DEF Fresh
  <2>10. \A j, m \in DOMAIN new : new[j].id = new[m].id => j = m
    BY <2>3, <2>4, <2>6, <1>5
  <2>11. {Regression, Acceptance} \cap Ids(s) = {} /\ SlicesDone(s) => Extends(s, Added(s, new))
    BY <2>6, <2>9, <2>10, AddedExtends
  <2> QED BY <2>7, <2>11
<1>11. ReleaseAcceptance(s) = s \/ Releases(s, ReleaseAcceptance(s))
  <2> DEFINE a == Find(s, "wp-self-hosting-acceptance")
  <2> DEFINE p == [s.packages[a] EXCEPT !.depends_on = {}, !.executor = "python", !.fallbacks = <<>>]
  <2> SUFFICES ASSUME ReleaseAcceptance(s) # s PROVE Releases(s, ReleaseAcceptance(s))
    OBVIOUS
  <2>1. /\ HasStatus(s, Acceptance, "ready") /\ FinallyFailed(s, Regression)
        /\ ReleaseAcceptance(s) = [s EXCEPT !.packages[a] = p]
    BY DEF ReleaseAcceptance, Acceptance, Regression
  <2>2. a \in DOMAIN s.packages /\ s.packages[a].id = Acceptance
    BY <2>1, FoundIn DEF HasStatus, Acceptance
  <2> HIDE DEF a
  <2>3. p \in PackageDef /\ Same(p, s.packages[a]) /\ p.status = s.packages[a].status
        /\ p.phase = s.packages[a].phase /\ p.depends_on = {}
    BY <1>1, <1>2, <2>2 DEF PackageDef, Same
  <2> DEFINE t == [s EXCEPT !.packages[a] = p]
  <2> HIDE DEF p
  <2>4. p.id = s.packages[a].id /\ (s.packages[a].status = "deprecated" => p.status = "deprecated")
    BY <2>3 DEF Same
  <2>5. DOMAIN t.packages = DOMAIN s.packages /\ t.packages[a] = p
        /\ \A j \in DOMAIN s.packages \ {a} : t.packages[j] = s.packages[j]
    BY <2>2, <2>3, <2>4, ChangedKeeps
  <2> HIDE DEF t
  <2>6. Releases(s, t)
    BY <2>1, <2>2, <2>3, <2>5 DEF Releases
  <2> QED BY <2>1, <2>6 DEF t
<1> QED BY <1>7, <1>8, <1>9, <1>10, <1>11 DEF Seeder

(* A requirement event changes statuses only, and adds its package.        *)
LEMMA PatchedShape ==
    ASSUME NEW s, Settled(s), NEW r \in Pending(s)
    PROVE  LET t == Patched(s, r) IN
           /\ DOMAIN s.packages \subseteq DOMAIN t.packages
           /\ \A j \in DOMAIN s.packages :
                 /\ Same(t.packages[j], s.packages[j])
                 /\ t.packages[j].phase = s.packages[j].phase
                 /\ s.packages[j].id \notin Requirements[r].affected =>
                       t.packages[j] = s.packages[j]
           /\ \A j \in DOMAIN t.packages \ DOMAIN s.packages :
                 /\ t.packages[j].id = Requirements[r].package
                 /\ t.packages[j].attempts = 0
                 /\ t.packages[j].phase = "requirement_patch"
<1> DEFINE t == Patched(s, r)
           d == Deprecated(s, r)
           n == Len(s.packages)
<1>1. s \in SnapshotDef /\ s.packages \in Seq(PackageDef)
  BY DEF Settled, SnapshotDef
<1>2. DOMAIN s.packages = 1..n /\ n \in Nat
  BY <1>1, LenProperties
<1>3. \A i \in 1..n : s.packages[i] \in PackageDef
  BY <1>1, ElementOfSeq
<1>4. /\ d \in Seq(PackageDef) /\ Len(d) = n
      /\ \A i \in 1..n : /\ Same(d[i], s.packages[i])
                         /\ d[i].phase = s.packages[i].phase
                         /\ s.packages[i].id \notin Requirements[r].affected =>
                               d[i] = s.packages[i]
  <2>1. \A i \in 1..n :
          LET q == [s.packages[i] EXCEPT !.status = "deprecated"] IN
          q \in PackageDef /\ Same(q, s.packages[i]) /\ q.phase = s.packages[i].phase
    BY <1>3 DEF PackageDef, Statuses, Same
  <2>2. /\ DOMAIN d = 1..n
        /\ \A i \in 1..n : d[i] = IF Deprecates(r, s.packages[i])
               THEN [s.packages[i] EXCEPT !.status = "deprecated"] ELSE s.packages[i]
    BY <1>2 DEF Deprecated
  <2>3. \A i \in 1..n : d[i] \in PackageDef
    BY <1>3, <2>1, <2>2
  <2>4. d \in Seq(PackageDef) /\ Len(d) = n
    <3>1. d = [i \in 1..n |-> d[i]]
      BY <1>2 DEF Deprecated
    <3> HIDE DEF d
    <3>2. d \in [1..n -> PackageDef]
      BY <2>3, <3>1
    <3>3. d \in Seq(PackageDef)
      BY <3>2, <1>2, SeqDef
    <3> QED BY <3>2, <3>3, <1>2, LenProperties
  <2> HIDE DEF d
  <2> QED BY <2>1, <2>2, <2>4 DEF Same, Deprecates
<1> HIDE DEF d
<1> DEFINE q == PatchPackage(r)
<1>5. q \in PackageDef /\ q.id = Requirements[r].package /\ q.attempts = 0
      /\ q.phase = "requirement_patch"
  <2>1. r \in DOMAIN Requirements
    BY DEF Pending
  <2>2. q \in PackageDef /\ q.id = Requirements[r].package
    BY <2>1, PatchPackageTyped
  <2> QED BY <2>2 DEF PatchPackage, Package
<1> HIDE DEF q
<1>6. t.packages = Append(d, q)
  BY <1>1 DEF Patched, SnapshotDef, d, q
<1>7. /\ DOMAIN t.packages = 1..(n + 1)
      /\ \A i \in 1..n : t.packages[i] = d[i]
      /\ t.packages[n + 1] = q
  <2>1. Append(d, q) \in Seq(PackageDef) /\ Len(Append(d, q)) = n + 1
    BY <1>4, <1>5, AppendProperties
  <2>2. DOMAIN Append(d, q) = 1..(n + 1)
    BY <2>1, LenProperties
  <2> HIDE DEF t
  <2> QED BY <1>2, <1>4, <1>5, <1>6, <2>2, AppendProperties
<1> HIDE DEF t, n
<1>8. \A i \in DOMAIN t.packages : i \in 1..n \/ i = n + 1
  BY <1>2, <1>7
<1>9. \A i \in DOMAIN t.packages \ DOMAIN s.packages : t.packages[i] = q
  BY <1>2, <1>7, <1>8
<1>10. DOMAIN s.packages \subseteq DOMAIN t.packages
  BY <1>2, <1>7
<1>11. \A j \in DOMAIN s.packages : t.packages[j] = d[j]
  BY <1>2, <1>7
<1> QED BY <1>2, <1>4, <1>5, <1>9, <1>10, <1>11 DEF t

-----------------------------------------------------------------------------
(* The events of a cycle carry its number, in the order they were emitted. *)
Numbers(u, c) == \A k \in DOMAIN u : u[k].cycle = c
Carries(new, u, seq) ==
    /\ \A k \in DOMAIN u : \E j \in DOMAIN new : new[j] = u[k]
    /\ \A k \in DOMAIN seq : \E j \in DOMAIN new :
          new[j].type = seq[k].type /\ new[j].scope = seq[k].scope

LEMMA EmitCarries ==
    ASSUME NEW u \in Seq(EventRecord), NEW c \in Nat, NEW seq \in Seq(Shapes),
           NEW new, new = u \o Numbered(u, c, seq), Numbers(u, c)
    PROVE  Numbers(new, c) /\ Carries(new, u, seq)
<1> DEFINE m == Numbered(u, c, seq)
<1>1. /\ DOMAIN seq = 1..Len(seq) /\ Len(seq) \in Nat
      /\ DOMAIN u = 1..Len(u) /\ Len(u) \in Nat
  BY LenProperties
<1>2. \A k \in 1..Len(seq) : seq[k] \in Shapes
  BY ElementOfSeq
<1>3. /\ m \in [1..Len(seq) -> EventRecord]
      /\ \A k \in 1..Len(seq) : m[k].cycle = c /\ m[k].type = seq[k].type
                                /\ m[k].scope = seq[k].scope
  <2>1. \A k \in 1..Len(seq) :
          [cycle |-> c, n |-> Len(u) + k, type |-> seq[k].type, scope |-> seq[k].scope,
           status |-> seq[k].status] \in EventRecord
    BY <1>1, <1>2 DEF Shapes, EventRecord
  <2> QED BY <1>1, <2>1 DEF Numbered
<1> HIDE DEF m
<1>4. m \in Seq(EventRecord) /\ Len(m) = Len(seq)
  <2>1. m \in Seq(EventRecord)
    BY <1>1, <1>3, SeqDef
  <2> QED BY <2>1, <1>1, <1>3, LenProperties
<1>5. /\ new \in Seq(EventRecord)
      /\ Len(new) = Len(u) + Len(seq)
      /\ \A k \in 1..(Len(u) + Len(seq)) :
            new[k] = IF k <= Len(u) THEN u[k] ELSE m[k - Len(u)]
  <2>1. \A v \in Seq(EventRecord) :
          /\ u \o v \in Seq(EventRecord)
          /\ Len(u \o v) = Len(u) + Len(v)
          /\ \A k \in 1..(Len(u) + Len(v)) :
                (u \o v)[k] = IF k <= Len(u) THEN u[k] ELSE v[k - Len(u)]
    BY ConcatProperties
  <2>2. new = u \o m
    BY DEF m
  <2> QED BY <2>1, <2>2, <1>4
<1>6. DOMAIN new = 1..(Len(u) + Len(seq))
  BY <1>5, LenProperties
<1>7. ASSUME NEW j \in DOMAIN new PROVE new[j].cycle = c
  <2>1. CASE j <= Len(u)
    BY <2>1, <1>1, <1>5, <1>6 DEF Numbers
  <2>2. CASE ~(j <= Len(u))
    <3>1. j - Len(u) \in 1..Len(seq) /\ new[j] = m[j - Len(u)]
      BY <2>2, <1>1, <1>5, <1>6
    <3> QED BY <3>1, <1>3
  <2> QED BY <2>1, <2>2
<1>8. ASSUME NEW k \in DOMAIN u PROVE \E j \in DOMAIN new : new[j] = u[k]
  BY <1>1, <1>5, <1>6
<1>9. ASSUME NEW k \in DOMAIN seq
      PROVE  \E j \in DOMAIN new : new[j].type = seq[k].type /\ new[j].scope = seq[k].scope
  <2>1. Len(u) + k \in DOMAIN new /\ new[Len(u) + k] = m[k]
    BY <1>1, <1>5, <1>6
  <2> QED BY <2>1, <1>1, <1>3
<1> QED BY <1>7, <1>8, <1>9 DEF Numbers, Carries

-----------------------------------------------------------------------------
(* Attempts and the event store.  The events of stored cycles stay; an      *)
(* attempt of the cycle under way is one more than they account for, and   *)
(* the event of its result comes before its history snapshot.              *)

ResultIn(e, c, id) ==
    e.type = "executor_result_normalized" /\ e.scope = id /\ e.cycle = c
Stored(l, n, id) ==
    {e \in l : e.type = "executor_result_normalized" /\ e.scope = id /\ e.cycle <= n}
Counted(l, n, p) == p.attempts <= Cardinality(Stored(l, n, p.id))
Comes(l, u, n, id) == \/ \E e \in l : ResultIn(e, n + 1, id)
                      \/ \E k \in DOMAIN u : ResultIn(u[k], n + 1, id)

Underway(i) ==
    /\ pc \in {"run", "append"}
    /\ i \notin todo /\ \A k \in DOMAIN raw : raw[k].at # i
    /\ mem.packages[i].attempts <= Cardinality(Stored(log, cycles, mem.packages[i].id)) + 1
    /\ Comes(log, unsent, cycles, mem.packages[i].id)

LoggedInv ==
    /\ IsFiniteSet(log)
    /\ pc # "idle" => Stores(command)
    /\ Numbers(unsent, cycles + 1)
    /\ \A i \in DOMAIN file.packages : Counted(log, cycles, file.packages[i])
    /\ \A i \in DOMAIN mem.packages : Counted(log, cycles, mem.packages[i]) \/ Underway(i)

LEMMA StoredFinite ==
    ASSUME NEW l, IsFiniteSet(l), NEW n, NEW id
    PROVE  IsFiniteSet(Stored(l, n, id)) /\ Cardinality(Stored(l, n, id)) \in Nat
<1>1. Stored(l, n, id) \subseteq l
  BY DEF Stored
<1>2. IsFiniteSet(Stored(l, n, id))
  BY <1>1, FS_Subset
<1> QED BY <1>2, FS_CardinalityType

(* Packages that were never attempted need no event.                       *)
LEMMA CountedFresh ==
    ASSUME NEW l, IsFiniteSet(l), NEW n, NEW p, p.attempts = 0
    PROVE  Counted(l, n, p)
<1>1. Cardinality(Stored(l, n, p.id)) \in Nat
  BY StoredFinite
<1> DEFINE c == Cardinality(Stored(l, n, p.id))
<1> HIDE DEF c
<1>2. 0 <= c
  BY <1>1 DEF c
<1> QED BY <1>2 DEF Counted, c

(* More cycles are stored, and no event of a stored one is lost.           *)
LEMMA StoredGrows ==
    ASSUME NEW l, IsFiniteSet(l), NEW m, IsFiniteSet(m), l \subseteq EventRecord,
           NEW c \in Nat, NEW d \in Nat, c <= d, NEW id,
           \A e \in l : e.cycle <= c => e \in m
    PROVE  Cardinality(Stored(l, c, id)) <= Cardinality(Stored(m, d, id))
<1>1. Stored(l, c, id) \subseteq Stored(m, d, id)
  BY DEF Stored, EventRecord
<1>2. IsFiniteSet(Stored(m, d, id))
  BY StoredFinite
<1> QED BY <1>1, <1>2, FS_Subset

LEMMA CountedGrows ==
    ASSUME NEW l, IsFiniteSet(l), NEW m, IsFiniteSet(m), l \subseteq EventRecord,
           NEW c \in Nat, NEW d \in Nat, c <= d, \A e \in l : e.cycle <= c => e \in m,
           NEW p \in PackageDef, Counted(l, c, p)
    PROVE  Counted(m, d, p)
<1> DEFINE x == Cardinality(Stored(l, c, p.id))
           y == Cardinality(Stored(m, d, p.id))
<1>1. x <= y
  BY StoredGrows
<1>2. x \in Nat /\ y \in Nat
  BY StoredFinite
<1>3. p.attempts \in Nat /\ p.attempts <= x
  BY DEF PackageDef, Counted
<1> HIDE DEF x, y
<1>4. p.attempts <= y
  BY <1>1, <1>2, <1>3
<1> QED BY <1>4 DEF Counted, y

(* The history snapshot of a cycle makes its events count.                 *)
LEMMA StoredMore ==
    ASSUME NEW l, IsFiniteSet(l), l \subseteq EventRecord, NEW c \in Nat, NEW id,
           \E e \in l : ResultIn(e, c + 1, id)
    PROVE  Cardinality(Stored(l, c, id)) + 1 <= Cardinality(Stored(l, c + 1, id))
<1>1. PICK e \in l : ResultIn(e, c + 1, id)
  OBVIOUS
<1> DEFINE S == Stored(l, c, id)
<1>2. e \notin S
  BY <1>1 DEF Stored, ResultIn
<1>3. S \cup {e} \subseteq Stored(l, c + 1, id)
  BY <1>1 DEF Stored, ResultIn, EventRecord
<1>4. IsFiniteSet(S) /\ IsFiniteSet(Stored(l, c + 1, id))
  BY StoredFinite
<1> HIDE DEF S
<1>5. Cardinality(S \cup {e}) = Cardinality(S) + 1
  BY <1>2, <1>4, FS_AddElement
<1>6. Cardinality(S \cup {e}) <= Cardinality(Stored(l, c + 1, id))
  BY <1>3, <1>4, FS_Subset
<1> QED BY <1>5, <1>6 DEF S

(* Steps: the copy is the file again.                                      *)
LEMMA LoggedFresh ==
    ASSUME IsFiniteSet(log'), pc' # "idle" => Stores(command'),
           Numbers(unsent', cycles' + 1),
           \A i \in DOMAIN file'.packages : Counted(log', cycles', file'.packages[i]),
           mem' = file'
    PROVE  LoggedInv'
  BY DEF LoggedInv

(* Steps before executors run, and after: packages keep their attempts.    *)
Keeps(s, t) ==
    \A j \in DOMAIN t.packages :
        \/ t.packages[j].attempts = 0
        \/ j \in DOMAIN s.packages /\ Same(t.packages[j], s.packages[j])

LEMMA LoggedCalm ==
    ASSUME LoggedInv, pc \notin {"idle", "run", "append"}, Keeps(mem, mem'),
           file' = file, log' = log, cycles' = cycles, command' = command,
           Numbers(unsent', cycles + 1)
    PROVE  LoggedInv'
<1>1. \A i \in DOMAIN mem.packages : Counted(log, cycles, mem.packages[i])
  BY DEF LoggedInv, Underway
<1>2. \A i \in DOMAIN mem'.packages : Counted(log, cycles, mem'.packages[i])
  <2> SUFFICES ASSUME NEW i \in DOMAIN mem'.packages
               PROVE  Counted(log, cycles, mem'.packages[i])
    OBVIOUS
  <2>1. CASE mem'.packages[i].attempts = 0
    BY <2>1, CountedFresh DEF LoggedInv
  <2>2. CASE i \in DOMAIN mem.packages /\ Same(mem'.packages[i], mem.packages[i])
    BY <1>1, <2>2 DEF Counted, Same
  <2> QED BY <2>1, <2>2 DEF Keeps
<1> QED BY <1>2 DEF LoggedInv

LEMMA EmittedCarries ==
    ASSUME KernelInv, LoggedInv, pc # "idle", NEW seq \in Seq(Shapes), Emit(seq)
    PROVE  Numbers(unsent', cycles + 1) /\ Carries(unsent', unsent, seq)
<1>1. unsent \in Seq(EventRecord) /\ cycles \in Nat
  BY BoundsAssumption DEF KernelInv, SnapshotTyped
<1>2. CycleId(command) = cycles + 1 /\ cycles + 1 \in Nat
  BY <1>1 DEF LoggedInv, CycleId
<1> DEFINE c == cycles + 1
<1>3. /\ c \in Nat /\ Numbers(unsent, c)
      /\ unsent' = unsent \o Numbered(unsent, c, seq)
  BY <1>2 DEF Emit, LoggedInv
<1> HIDE DEF c
<1>4. Numbers(unsent', c) /\ Carries(unsent', unsent, seq)
  BY <1>1, <1>3, EmitCarries
<1> QED BY <1>4 DEF c

LEMMA LoggedInit ==
    ASSUME Init, \A i \in DOMAIN Packages : Packages[i].attempts = 0 PROVE LoggedInv
<1>1. log = {} /\ file.packages = Packages /\ mem = file /\ unsent = <<>> /\ pc = "idle"
  BY DEF Init
<1>2. IsFiniteSet(log)
  BY <1>1, FS_EmptySet
<1>3. \A i \in DOMAIN Packages : Counted(log, cycles, Packages[i])
  BY <1>2, CountedFresh
<1> QED BY <1>1, <1>2, <1>3 DEF LoggedInv, Numbers

LEMMA LoggedDispatch ==
    ASSUME KernelInv, LoggedInv, NEW i \in todo, Dispatch(i) PROVE LoggedInv'
<1> DEFINE p == mem.packages[i]
           q == [p EXCEPT !.status = "running"]
<1>1. /\ file' = file /\ cycles' = cycles /\ log' = log /\ command' = command
      /\ pc' = pc /\ pc = "run" /\ todo' = todo \ {i}
      /\ mem' = [mem EXCEPT !.packages[i] = q]
      /\ Emit(<<Event("work_package_dispatched", p.id, "none")>>)
  BY DEF Dispatch, disk
<1>2. PICK x : raw' = Append(raw, x) /\ x.at = i
  BY DEF Dispatch
<1>3. /\ mem \in SnapshotDef /\ mem.packages \in Seq(PackageDef) /\ raw \in Seq(ResultDef)
      /\ i \in DOMAIN mem.packages /\ todo \subseteq DOMAIN mem.packages
  BY DEF KernelInv, SnapshotTyped, SnapshotDef
<1>4. p \in PackageDef
  BY <1>3, ElementOfSeq, LenProperties
<1> HIDE DEF p
<1>5. Same(q, p)
  BY <1>4 DEF PackageDef, Same
<1> HIDE DEF q
<1>6. /\ DOMAIN mem'.packages = DOMAIN mem.packages
      /\ mem'.packages[i] = q
      /\ \A j \in DOMAIN mem.packages \ {i} : mem'.packages[j] = mem.packages[j]
  BY <1>1, <1>3 DEF SnapshotDef
<1>7. /\ DOMAIN raw' = 1..(Len(raw) + 1) /\ DOMAIN raw = 1..Len(raw) /\ Len(raw) \in Nat
      /\ \A k \in 1..Len(raw) : raw'[k] = raw[k]
      /\ raw'[Len(raw) + 1] = x
  BY <1>2, <1>3, LenProperties
<1> DEFINE seq == <<Event("work_package_dispatched", p.id, "none")>>
<1>8. Numbers(unsent', cycles + 1) /\ Carries(unsent', unsent, seq)
  <2>1. p.id \in Names
    BY <1>4 DEF PackageDef
  <2>2. <<Event("work_package_dispatched", p.id, "none")>> \in Seq(Shapes)
    BY <2>1, ShapesTyped
  <2> QED BY <1>1, <2>2, EmittedCarries
<1>9. ASSUME NEW j \in DOMAIN mem'.packages
      PROVE  Counted(log', cycles', mem'.packages[j]) \/ Underway(j)'
  <2>1. CASE j = i
    <3>1. Counted(log, cycles, p)
      BY <1>3 DEF LoggedInv, Underway, p
    <3> QED BY <3>1, <2>1, <1>1, <1>5, <1>6 DEF Counted, Same
  <2>2. CASE j # i
    <3>1. mem'.packages[j] = mem.packages[j] /\ j \in DOMAIN mem.packages
      BY <2>2, <1>6
    <3>2. CASE Counted(log, cycles, mem.packages[j])
      BY <3>1, <3>2, <1>1
    <3>3. CASE Underway(j)
      <4>1. Comes(log', unsent', cycles', mem'.packages[j].id)
        BY <3>1, <3>3, <1>1, <1>8 DEF Underway, Comes, Carries
      <4>2. \A k \in DOMAIN raw' : raw'[k].at # j
        <5>1. \A k \in DOMAIN raw' : k \in 1..Len(raw) \/ k = Len(raw) + 1
          BY <1>7
        <5> QED BY <5>1, <1>2, <1>7, <2>2, <3>3 DEF Underway
      <4> QED BY <3>1, <3>3, <4>1, <4>2, <1>1 DEF Underway
    <3> QED BY <3>1, <3>2, <3>3 DEF LoggedInv
  <2> QED BY <2>1, <2>2
<1> QED BY <1>1, <1>8, <1>9 DEF LoggedInv

LEMMA LoggedResult ==
    ASSUME KernelInv, LoggedInv, pc = "run", todo = {}, raw # <<>>,
           NEW q \in PackageDef, q.id = mem.packages[Head(raw).at].id,
           q.attempts = mem.packages[Head(raw).at].attempts + 1,
           mem' = [mem EXCEPT !.packages[Head(raw).at] = q],
           raw' = Tail(raw),
           NEW seq \in Seq(Shapes), 1 \in DOMAIN seq,
           seq[1].type = "executor_result_normalized", seq[1].scope = q.id, Emit(seq),
           UNCHANGED <<disk, pc, command, tried, todo, patched, crashes>>
    PROVE  LoggedInv'
<1> DEFINE i == Head(raw).at
           n == Len(raw)
<1>1. /\ file' = file /\ cycles' = cycles /\ log' = log /\ command' = command
      /\ pc' = pc /\ todo' = todo
  BY DEF disk
<1>2. /\ mem \in SnapshotDef /\ mem.packages \in Seq(PackageDef) /\ raw \in Seq(ResultDef)
      /\ \A k \in DOMAIN raw : raw[k].at \in DOMAIN mem.packages
  BY DEF KernelInv, SnapshotTyped, SnapshotDef
<1>3. /\ n \in Nat /\ n >= 1 /\ DOMAIN raw = 1..n /\ i = raw[1].at
      /\ DOMAIN raw' = 1..(n - 1)
      /\ \A k \in 1..(n - 1) : raw'[k] = raw[k + 1]
  <2>1. n \in Nat /\ DOMAIN raw = 1..n
    BY <1>2, LenProperties
  <2>2. n >= 1
    BY <1>2, <2>1, EmptySeq
  <2>3. Head(raw) = raw[1]
    BY <1>2
  <2>4. /\ Tail(raw) \in Seq(ResultDef) /\ Len(Tail(raw)) = n - 1
        /\ \A k \in 1..(n - 1) : Tail(raw)[k] = raw[k + 1]
    BY <1>2, HeadTailProperties
  <2>5. DOMAIN Tail(raw) = 1..(n - 1)
    BY <2>4, LenProperties
  <2> QED BY <2>1, <2>2, <2>3, <2>4, <2>5
<1> HIDE DEF i, n
<1>4. 1 \in DOMAIN raw /\ i \in DOMAIN mem.packages
  BY <1>2, <1>3
<1>5. /\ DOMAIN mem'.packages = DOMAIN mem.packages
      /\ mem'.packages[i] = q
      /\ \A j \in DOMAIN mem.packages \ {i} : mem'.packages[j] = mem.packages[j]
      /\ q.id = mem.packages[i].id /\ q.attempts = mem.packages[i].attempts + 1
  BY <1>2, <1>4 DEF SnapshotDef, i
<1>6. Numbers(unsent', cycles + 1) /\ Carries(unsent', unsent, seq)
  BY EmittedCarries
<1>7. \A k \in 1..(n - 1) : k + 1 \in DOMAIN raw /\ k + 1 # 1
  BY <1>3
<1>8. ASSUME NEW j \in DOMAIN mem'.packages
      PROVE  Counted(log', cycles', mem'.packages[j]) \/ Underway(j)'
  <2>1. CASE j = i
    <3>1. Counted(log, cycles, mem.packages[i])
      BY <1>3, <1>4 DEF LoggedInv, Underway
    <3> DEFINE c == Cardinality(Stored(log, cycles, q.id))
    <3>2. mem.packages[i].attempts \in Nat /\ c \in Nat
      <4>1. mem.packages[i] \in PackageDef
        BY <1>2, <1>4, ElementOfSeq, LenProperties
      <4> QED BY <4>1, StoredFinite DEF PackageDef, LoggedInv
    <3>3. mem.packages[i].attempts <= c
      BY <3>1, <1>5 DEF Counted
    <3> HIDE DEF c
    <3>4. q.attempts <= c + 1
      BY <3>2, <3>3, <1>5
    <3>5. Comes(log', unsent', cycles', q.id)
      <4>1. PICK k \in DOMAIN unsent' : unsent'[k].type = seq[1].type
                                        /\ unsent'[k].scope = seq[1].scope
        BY <1>6 DEF Carries
      <4>2. unsent'[k].cycle = cycles + 1
        BY <1>6, <4>1 DEF Numbers
      <4> QED BY <4>1, <4>2, <1>1 DEF Comes, ResultIn
    <3>6. \A k \in DOMAIN raw' : raw'[k].at # i
      <4>1. \A k \in 1..(n - 1) : raw[k + 1].at # i
        BY <1>3, <1>4, <1>7 DEF KernelInv, InFlight
      <4> QED BY <4>1, <1>3
    <3> QED BY <2>1, <3>4, <3>5, <3>6, <1>1, <1>5 DEF Underway, c
  <2>2. CASE j # i
    <3>1. mem'.packages[j] = mem.packages[j] /\ j \in DOMAIN mem.packages
      BY <2>2, <1>5
    <3>2. CASE Counted(log, cycles, mem.packages[j])
      BY <3>1, <3>2, <1>1
    <3>3. CASE Underway(j)
      <4>1. Comes(log', unsent', cycles', mem'.packages[j].id)
        BY <3>1, <3>3, <1>1, <1>6 DEF Underway, Comes, Carries
      <4>2. \A k \in DOMAIN raw' : raw'[k].at # j
        BY <3>3, <1>3, <1>7 DEF Underway
      <4> QED BY <3>1, <3>3, <4>1, <4>2, <1>1 DEF Underway
    <3> QED BY <3>1, <3>2, <3>3 DEF LoggedInv
  <2> QED BY <2>1, <2>2
<1> QED BY <1>1, <1>6, <1>8 DEF LoggedInv

(* What an attempt and the decision about it do to the fields of a package. *)
LEMMA AttemptCounts ==
    ASSUME NEW p \in PackageDef
    PROVE  LET v == [Attempted(p) EXCEPT !.status = "verified"] IN
           /\ Attempted(p).attempts = p.attempts + 1
           /\ v.attempts = p.attempts + 1
           /\ v.phase = p.phase /\ v.depends_on = p.depends_on
           /\ \A d \in Decisions :
                 /\ Retried(Attempted(p), d).attempts = p.attempts + 1
                 /\ Retried(Attempted(p), d).phase = p.phase
                 /\ Retried(Attempted(p), d).depends_on = p.depends_on
                 /\ Retried(Attempted(p), d).status \in {"ready", "blocked", "failed"}
<1> DEFINE q == Attempted(p)
<1>1. q \in PackageDef /\ q.attempts = p.attempts + 1 /\ q.phase = p.phase
      /\ q.depends_on = p.depends_on
  BY DEF Attempted, PackageDef
<1> HIDE DEF q
<1>2. LET v == [q EXCEPT !.status = "verified"] IN
      v.attempts = q.attempts /\ v.phase = q.phase /\ v.depends_on = q.depends_on
  BY <1>1 DEF PackageDef
<1>3. ASSUME NEW d \in Decisions
      PROVE  LET w == Retried(q, d) IN
             /\ w.attempts = q.attempts /\ w.phase = q.phase /\ w.depends_on = q.depends_on
             /\ w.status \in {"ready", "blocked", "failed"}
  <2>1. StatusAfter[d.action] \in {"ready", "blocked", "failed"}
    BY DEF StatusAfter, Decisions, Actions
  <2> QED BY <1>1, <2>1 DEF Retried, PackageDef
<1> QED BY <1>1, <1>2, <1>3 DEF q

LEMMA LoggedVerify ==
    ASSUME KernelInv, LoggedInv, Verify PROVE LoggedInv'
<1> DEFINE res == Head(raw)
           p == mem.packages[res.at]
           a == Attempted(p)
           normalized == <<Event("executor_result_normalized", a.id, res.status)>>
<1>1. /\ pc = "run" /\ todo = {} /\ raw # <<>> /\ raw' = Tail(raw)
      /\ UNCHANGED <<disk, pc, command, tried, todo, patched, crashes>>
  BY DEF Verify
<1>2. p \in PackageDef /\ res.status \in {"completed", "failed"}
  <2>1. /\ mem.packages \in Seq(PackageDef) /\ raw \in Seq(ResultDef)
        /\ \A k \in DOMAIN raw : raw[k].at \in DOMAIN mem.packages
    BY DEF KernelInv, SnapshotTyped, SnapshotDef
  <2>2. 1 \in DOMAIN raw /\ res = raw[1] /\ res \in ResultDef
    BY <1>1, <2>1
  <2>3. res.at \in DOMAIN mem.packages
    BY <2>1, <2>2
  <2>4. p \in PackageDef
    BY <2>1, <2>3, ElementOfSeq, LenProperties
  <2> QED BY <2>2, <2>4 DEF ResultDef
<1>3. /\ a \in PackageDef /\ a.id = p.id
      /\ LET v == [a EXCEPT !.status = "verified"] IN
         v \in PackageDef /\ v.id = p.id /\ v.attempts = p.attempts + 1
      /\ \A d \in Decisions :
            /\ Retried(a, d) \in PackageDef
            /\ Retried(a, d).id = p.id
            /\ Retried(a, d).attempts = p.attempts + 1
  BY <1>2, AttemptTyped, AttemptCounts
<1>4. a.id \in Names
  BY <1>3 DEF PackageDef
<1>5. /\ normalized \in Seq(Shapes) /\ Len(normalized) = 1 /\ 1 \in DOMAIN normalized
      /\ normalized[1].type = "executor_result_normalized" /\ normalized[1].scope = a.id
      /\ \A d : RetryEvents(a, d) \in Seq(Shapes)
  <2>1. normalized \in Seq(Shapes) /\ \A d : RetryEvents(a, d) \in Seq(Shapes)
    BY <1>2, <1>4, ShapesTyped
  <2>2. \A e : Len(<<e>>) = 1 /\ 1 \in DOMAIN <<e>> /\ <<e>>[1] = e
    OBVIOUS
  <2>3. /\ Event("executor_result_normalized", a.id, res.status).type = "executor_result_normalized"
        /\ Event("executor_result_normalized", a.id, res.status).scope = a.id
    BY DEF Event
  <2> QED BY <2>1, <2>2, <2>3
<1>6. CASE /\ mem' = [mem EXCEPT !.packages[res.at] = [a EXCEPT !.status = "verified"]]
           /\ Emit(normalized)
  <2> DEFINE v == [a EXCEPT !.status = "verified"]
  <2>1. v \in PackageDef /\ v.id = p.id /\ v.attempts = p.attempts + 1
    BY <1>3
  <2>2. mem' = [mem EXCEPT !.packages[res.at] = v] /\ Emit(normalized)
    BY <1>6
  <2>3. a.id = v.id
    BY <1>3, <2>1
  <2> HIDE DEF v, normalized
  <2>4. /\ normalized \in Seq(Shapes) /\ 1 \in DOMAIN normalized
        /\ normalized[1].type = "executor_result_normalized" /\ normalized[1].scope = v.id
    BY <1>5, <2>3
  <2> QED BY <1>1, <2>1, <2>2, <2>4, LoggedResult
<1>7. ASSUME NEW answer \in Semantic(a, res),
             LET d == Guarded(a, res, answer) IN
             /\ mem' = [mem EXCEPT !.packages[res.at] = Retried(a, d)]
             /\ Emit(normalized \o RetryEvents(a, d))
      PROVE  LoggedInv'
  <2> DEFINE d == Guarded(a, res, answer)
             v == Retried(a, d)
             seq == normalized \o RetryEvents(a, d)
  <2>1. d \in Decisions
    BY <1>3, DecisionTyped
  <2>2. mem' = [mem EXCEPT !.packages[res.at] = v] /\ Emit(seq)
    BY <1>7
  <2>3. v \in PackageDef /\ v.id = p.id /\ v.attempts = p.attempts + 1
    BY <1>3, <2>1
  <2>4. /\ seq \in Seq(Shapes) /\ 1 \in DOMAIN seq /\ seq[1] = normalized[1]
    <3> DEFINE w == RetryEvents(a, d)
               u == normalized
    <3>1. u \in Seq(Shapes) /\ w \in Seq(Shapes) /\ Len(u) = 1
      BY <1>5
    <3> HIDE DEF u, w
    <3>2. /\ u \o w \in Seq(Shapes) /\ Len(u \o w) = 1 + Len(w) /\ Len(w) \in Nat
          /\ \A k \in 1..(1 + Len(w)) : (u \o w)[k] = IF k <= 1 THEN u[k] ELSE w[k - 1]
      <4>1. /\ u \o w \in Seq(Shapes) /\ Len(u \o w) = Len(u) + Len(w)
            /\ \A k \in 1..(Len(u) + Len(w)) :
                  (u \o w)[k] = IF k <= Len(u) THEN u[k] ELSE w[k - Len(u)]
        BY <3>1, ConcatProperties
      <4>2. Len(w) \in Nat
        BY <3>1, LenProperties
      <4> QED BY <3>1, <4>1, <4>2
    <3>3. DOMAIN (u \o w) = 1..(1 + Len(w))
      BY <3>2, LenProperties
    <3>4. 1 \in 1..(1 + Len(w))
      BY <3>2
    <3> QED BY <3>2, <3>3, <3>4 DEF u, w
  <2>5. seq[1].type = "executor_result_normalized" /\ seq[1].scope = v.id
    BY <2>3, <2>4, <1>3, <1>5
  <2> HIDE DEF v, seq
  <2> QED BY <1>1, <2>2, <2>3, <2>4, <2>5, LoggedResult
<1> QED BY <1>6, <1>7 DEF Verify

LEMMA LoggedCompleted ==
    ASSUME KernelInv, LoggedInv, CycleCompleted PROVE LoggedInv'
<1> DEFINE seq == <<Event("cycle_completed", "workspace", "none")>>
<1>1. /\ file' = file /\ cycles' = cycles /\ log' = log /\ command' = command /\ mem' = mem
      /\ todo' = todo /\ raw' = raw /\ pc = "run" /\ pc' = "append" /\ Emit(seq)
  BY DEF CycleCompleted, disk, LoggedInv
<1>2. seq \in Seq(Shapes)
  <2>1. Event("cycle_completed", "workspace", "none") \in Shapes
    BY DEF Event, Shapes, EventTypes
  <2> QED BY <2>1
<1> HIDE DEF seq
<1>3. Numbers(unsent', cycles + 1) /\ Carries(unsent', unsent, seq)
  BY <1>1, <1>2, EmittedCarries
<1>4. ASSUME NEW j \in DOMAIN mem'.packages
      PROVE  Counted(log', cycles', mem'.packages[j]) \/ Underway(j)'
  BY <1>1, <1>3 DEF LoggedInv, Underway, Comes, Carries
<1> QED BY <1>1, <1>3, <1>4 DEF LoggedInv

LEMMA LoggedAppend ==
    ASSUME KernelInv, LoggedInv, AppendEvent PROVE LoggedInv'
<1> DEFINE h == Head(unsent)
<1>1. /\ file' = file /\ cycles' = cycles /\ command' = command /\ mem' = mem
      /\ todo' = todo /\ raw' = raw /\ pc' = pc /\ pc = "append" /\ unsent # <<>>
      /\ log' = {e \in log : ~SameId(e, h)} \cup {h}
      /\ unsent' = Tail(unsent)
  BY DEF AppendEvent
<1>2. /\ unsent \in Seq(EventRecord) /\ log \subseteq EventRecord /\ cycles \in Nat
      /\ \A j \in DOMAIN mem.packages : mem.packages[j] \in PackageDef
      /\ \A j \in DOMAIN file.packages : file.packages[j] \in PackageDef
  <2>1. mem.packages \in Seq(PackageDef) /\ file.packages \in Seq(PackageDef)
    BY DEF KernelInv, SnapshotTyped, SnapshotDef
  <2> QED BY <2>1, ElementOfSeq, LenProperties, BoundsAssumption DEF KernelInv, SnapshotTyped
<1>3. /\ h \in EventRecord /\ h = unsent[1]
      /\ Len(unsent) \in Nat /\ DOMAIN unsent = 1..Len(unsent) /\ 1 \in DOMAIN unsent
      /\ DOMAIN Tail(unsent) = 1..(Len(unsent) - 1)
      /\ \A k \in 1..(Len(unsent) - 1) : Tail(unsent)[k] = unsent[k + 1]
  <2>1. /\ h \in EventRecord /\ h = unsent[1]
        /\ Tail(unsent) \in Seq(EventRecord)
        /\ Len(unsent) \in Nat /\ DOMAIN unsent = 1..Len(unsent)
        /\ Len(Tail(unsent)) = Len(unsent) - 1
        /\ \A k \in 1..(Len(unsent) - 1) : Tail(unsent)[k] = unsent[k + 1]
    BY <1>1, <1>2, HeadTailProperties, LenProperties
  <2>2. 1 \in DOMAIN unsent
    BY <1>1, <1>2, <2>1, EmptySeq
  <2>3. DOMAIN Tail(unsent) = 1..(Len(unsent) - 1)
    BY <2>1, LenProperties
  <2> QED BY <2>1, <2>2, <2>3
<1>4. h.cycle = cycles + 1
  BY <1>3 DEF LoggedInv, Numbers
<1> HIDE DEF h
<1>5. IsFiniteSet(log) /\ IsFiniteSet(log')
  <2>1. IsFiniteSet({e \in log : ~SameId(e, h)})
    BY FS_Subset DEF LoggedInv
  <2> QED BY <2>1, <1>1, FS_AddElement DEF LoggedInv
<1>6. \A e \in log : e.cycle <= cycles => e \in log'
  BY <1>1, <1>2, <1>4 DEF SameId, EventRecord
<1>7. \A p \in PackageDef : Counted(log, cycles, p) => Counted(log', cycles, p)
  BY <1>2, <1>5, <1>6, CountedGrows
<1>8. \A id : Comes(log, unsent, cycles, id) => Comes(log', unsent', cycles, id)
  <2> SUFFICES ASSUME NEW id, Comes(log, unsent, cycles, id)
               PROVE  Comes(log', unsent', cycles, id)
    OBVIOUS
  <2>1. ResultIn(h, cycles + 1, id) => Comes(log', unsent', cycles, id)
    BY <1>1 DEF Comes
  <2>2. ASSUME NEW e \in log, ResultIn(e, cycles + 1, id) PROVE Comes(log', unsent', cycles, id)
    <3>1. CASE SameId(e, h)
      BY <2>1, <2>2, <3>1 DEF SameId, ResultIn
    <3>2. CASE ~SameId(e, h)
      BY <2>2, <3>2, <1>1 DEF Comes
    <3> QED BY <3>1, <3>2
  <2>3. ASSUME NEW k \in DOMAIN unsent, ResultIn(unsent[k], cycles + 1, id)
        PROVE  Comes(log', unsent', cycles, id)
    <3>1. CASE k = 1
      BY <3>1, <2>1, <2>3, <1>3
    <3>2. CASE k # 1
      <4>1. k - 1 \in DOMAIN Tail(unsent) /\ Tail(unsent)[k - 1] = unsent[k]
        BY <3>2, <1>3
      <4> QED BY <4>1, <2>3, <1>1 DEF Comes
    <3> QED BY <3>1, <3>2
  <2> QED BY <2>2, <2>3 DEF Comes
<1>9. Numbers(unsent', cycles + 1)
  <2>1. \A k \in 1..(Len(unsent) - 1) : k + 1 \in DOMAIN unsent
    BY <1>3
  <2> QED BY <2>1, <1>1, <1>3 DEF LoggedInv, Numbers
<1>10. ASSUME NEW j \in DOMAIN mem'.packages
      PROVE  Counted(log', cycles', mem'.packages[j]) \/ Underway(j)'
  <2> DEFINE p == mem.packages[j]
             x == Cardinality(Stored(log, cycles, p.id))
             y == Cardinality(Stored(log', cycles, p.id))
  <2>1. CASE Counted(log, cycles, p)
    BY <2>1, <1>1, <1>2, <1>7
  <2>2. CASE Underway(j)
    <3>1. x <= y /\ x \in Nat /\ y \in Nat
      BY <1>2, <1>5, <1>6, StoredGrows, StoredFinite
    <3>2. p.attempts <= x + 1 /\ p.attempts \in Nat
      BY <2>2, <1>1, <1>2 DEF Underway, PackageDef
    <3> HIDE DEF x, y
    <3>3. p.attempts <= y + 1
      BY <3>1, <3>2
    <3>4. Comes(log', unsent', cycles, p.id)
      BY <2>2, <1>8 DEF Underway
    <3> QED BY <2>2, <3>3, <3>4, <1>1 DEF Underway, y
  <2> QED BY <2>1, <2>2, <1>1 DEF LoggedInv
<1>11. \A j \in DOMAIN file'.packages : Counted(log', cycles', file'.packages[j])
  BY <1>1, <1>2, <1>7 DEF LoggedInv
<1> QED BY <1>1, <1>5, <1>9, <1>10, <1>11 DEF LoggedInv

LEMMA LoggedPersist ==
    ASSUME KernelInv, LoggedInv, PersistSnapshot PROVE LoggedInv'
<1>1. /\ file' = file /\ cycles' = cycles + 1 /\ log' = log
      /\ pc = "append" /\ unsent = <<>>
  BY DEF PersistSnapshot
<1>2. /\ log \subseteq EventRecord /\ cycles \in Nat /\ IsFiniteSet(log)
      /\ \A j \in DOMAIN mem.packages : mem.packages[j] \in PackageDef
      /\ \A j \in DOMAIN file.packages : file.packages[j] \in PackageDef
  <2>1. mem.packages \in Seq(PackageDef) /\ file.packages \in Seq(PackageDef)
    BY DEF KernelInv, SnapshotTyped, SnapshotDef
  <2> QED BY <2>1, ElementOfSeq, LenProperties, BoundsAssumption
          DEF KernelInv, SnapshotTyped, LoggedInv
<1>3. \A p \in PackageDef : Counted(log, cycles, p) => Counted(log, cycles + 1, p)
  <2>1. cycles + 1 \in Nat /\ cycles <= cycles + 1
    BY <1>2
  <2> QED BY <1>2, <2>1, CountedGrows
<1>4. \A j \in DOMAIN file.packages : Counted(log, cycles + 1, file.packages[j])
  BY <1>2, <1>3 DEF LoggedInv
<1>5. ASSUME NEW j \in DOMAIN mem.packages PROVE Counted(log, cycles + 1, mem.packages[j])
  <2> DEFINE p == mem.packages[j]
             x == Cardinality(Stored(log, cycles, p.id))
             y == Cardinality(Stored(log, cycles + 1, p.id))
  <2>1. CASE Counted(log, cycles, p)
    BY <2>1, <1>2, <1>3
  <2>2. CASE Underway(j)
    <3>1. \E e \in log : ResultIn(e, cycles + 1, p.id)
      BY <2>2, <1>1 DEF Underway, Comes
    <3>2. x + 1 <= y
      BY <3>1, <1>2, StoredMore
    <3>3. x \in Nat /\ y \in Nat
      BY <1>2, StoredFinite
    <3>4. p.attempts \in Nat /\ p.attempts <= x + 1
      BY <2>2, <1>2 DEF Underway, PackageDef
    <3> HIDE DEF x, y
    <3>5. p.attempts <= y
      BY <3>2, <3>3, <3>4
    <3> QED BY <3>5 DEF Counted, y
  <2> QED BY <2>1, <2>2 DEF LoggedInv
<1>6. CASE Rest
  <2>1. mem' = file' /\ unsent' = <<>> /\ pc' = "idle"
    BY <1>6 DEF Rest
  <2>2. Numbers(unsent', cycles' + 1)
    BY <2>1 DEF Numbers
  <2> QED BY <2>1, <2>2, <1>1, <1>2, <1>4, LoggedFresh
<1>7. CASE pc' = "write" /\ UNCHANGED volatile
  <2>1. mem' = mem /\ unsent' = <<>> /\ command' = command
    BY <1>1, <1>7 DEF volatile
  <2>2. Numbers(unsent', cycles' + 1)
    BY <2>1 DEF Numbers
  <2> QED BY <2>1, <2>2, <1>1, <1>2, <1>4, <1>5 DEF LoggedInv
<1> QED BY <1>6, <1>7 DEF PersistSnapshot

(* An edit of the file leaves its packages.                                *)
LEMMA EditShape ==
    ASSUME KernelInv, Edit PROVE \E s : Edits(s) /\ s.packages = file.packages
<1>1. file \in SnapshotDef
  BY DEF KernelInv, SnapshotTyped
<1>2. ASSUME NEW r \in DOMAIN Requirements, RecordRequirement(r)
      PROVE  \E s : Edits(s) /\ s.packages = file.packages
  <2> DEFINE t == [file EXCEPT !.requirements[r] = "pending"]
  <2>1. t.packages = file.packages
    BY <1>1 DEF SnapshotDef
  <2>2. Edits(t)
    BY <1>2 DEF RecordRequirement
  <2> HIDE DEF t
  <2> QED BY <2>1, <2>2
<1>3. ASSUME NEW seam \in DOMAIN SeamStatus, NEW status,
             Edits([file EXCEPT !.seams[seam] = status])
      PROVE  \E s : Edits(s) /\ s.packages = file.packages
  <2> DEFINE t == [file EXCEPT !.seams[seam] = status]
  <2>1. t.packages = file.packages
    BY <1>1 DEF SnapshotDef
  <2>2. Edits(t)
    BY <1>3
  <2> HIDE DEF t
  <2> QED BY <2>1, <2>2
<1> QED BY <1>2, <1>3 DEF Edit, FreezeSeam, VerifySeam

(* Every step keeps it.                                                    *)
WithStores == "snapshot" \notin Commands
FirstUnattempted == \A i \in DOMAIN Packages : Packages[i].attempts = 0

LEMMA LoggedNext ==
    ASSUME WithStores, KernelInv, LoggedInv, [Next]_vars PROVE LoggedInv'
<1>1. ASSUME NEW cmd \in Commands, Begin(cmd) PROVE LoggedInv'
  <2>1. /\ file' = file /\ mem' = file' /\ cycles' = cycles /\ log' = log
        /\ command' = cmd /\ unsent' = <<>>
    BY <1>1 DEF Begin, disk
  <2>2. Stores(cmd)
    BY DEF WithStores, Stores
  <2>3. Numbers(unsent', cycles' + 1)
    BY <2>1 DEF Numbers
  <2> QED BY <2>1, <2>2, <2>3, LoggedFresh DEF LoggedInv
<1>2. ASSUME Rest, log' = log, cycles' = cycles,
             \A i \in DOMAIN file'.packages : Counted(log, cycles, file'.packages[i])
      PROVE  LoggedInv'
  <2>1. mem' = file' /\ unsent' = <<>> /\ pc' = "idle"
    BY <1>2 DEF Rest
  <2>2. Numbers(unsent', cycles' + 1)
    BY <2>1 DEF Numbers
  <2>3. IsFiniteSet(log')
    BY <1>2 DEF LoggedInv
  <2> QED BY <1>2, <2>1, <2>2, <2>3, LoggedFresh
<1>3. Keeps(mem, mem)
  BY DEF Keeps, Same
<1>4. \A i \in DOMAIN file.packages : Counted(log, cycles, file.packages[i])
  BY DEF LoggedInv
<1>5. ASSUME NEW r \in DOMAIN Requirements, ApplyRequirement(r) PROVE LoggedInv'
  <2>1. /\ file' = file /\ cycles' = cycles /\ log' = log /\ command' = command
        /\ pc = "patch" /\ r \in Pending(mem) /\ mem' = Patched(mem, r)
        /\ Emit(<<Event("requirement_patch_applied", Requirements[r].package, "none")>>)
    BY <1>5 DEF ApplyRequirement, disk
  <2>2. Requirements[r].package \in Names
    BY DEF Names
  <2>3. <<Event("requirement_patch_applied", Requirements[r].package, "none")>> \in Seq(Shapes)
    BY <2>2, ShapesTyped
  <2>4. Numbers(unsent', cycles + 1)
    BY <2>1, <2>3, EmittedCarries
  <2>5. Settled(mem)
    BY DEF KernelInv
  <2> DEFINE t == Patched(mem, r)
  <2>6. /\ \A j \in DOMAIN mem.packages : Same(t.packages[j], mem.packages[j])
        /\ \A j \in DOMAIN t.packages \ DOMAIN mem.packages : t.packages[j].attempts = 0
    BY <2>1, <2>5, PatchedShape
  <2>7. Keeps(mem, t)
    BY <2>6 DEF Keeps
  <2> HIDE DEF t
  <2> QED BY <2>1, <2>4, <2>7, LoggedCalm DEF t
<1>6. CASE AllApplied
  <2>1. /\ file' = file /\ cycles' = cycles /\ log' = log /\ command' = command
        /\ pc = "patch" /\ mem' = mem /\ unsent' = unsent
    BY <1>6 DEF AllApplied, disk, volatile
  <2>2. Numbers(unsent', cycles + 1)
    BY <2>1 DEF LoggedInv
  <2> QED BY <1>3, <2>1, <2>2, LoggedCalm
<1>7. CASE Seed
  <2>1. /\ file' = file /\ cycles' = cycles /\ log' = log /\ command' = command
        /\ pc = "select" /\ mem' = Seeder(tried + 1, mem) /\ unsent' = unsent
        /\ tried < Seeders
    BY <1>7 DEF Seed, disk
  <2>2. tried + 1 \in 1..5
    BY <2>1 DEF KernelInv, SnapshotTyped, Seeders
  <2>3. Settled(mem)
    BY DEF KernelInv
  <2> DEFINE t == Seeder(tried + 1, mem)
  <2>4. t = mem \/ Extends(mem, t) \/ Releases(mem, t)
    BY <2>2, <2>3, SeederShape
  <2> HIDE DEF t
  <2>5. Keeps(mem, t)
    <3>1. Extends(mem, t) => Keeps(mem, t)
      BY DEF Extends, Keeps, Fresh, Same
    <3>2. Releases(mem, t) => Keeps(mem, t)
      BY DEF Releases, Keeps, Same
    <3> QED BY <1>3, <2>4, <3>1, <3>2
  <2>6. Numbers(unsent', cycles + 1)
    BY <2>1 DEF LoggedInv
  <2> QED BY <2>1, <2>5, <2>6, LoggedCalm DEF t
<1>8. CASE Select
  <2>1. /\ file' = file /\ cycles' = cycles /\ log' = log /\ command' = command
        /\ pc = "select" /\ mem' = mem /\ unsent' = unsent
    BY <1>8 DEF Select, disk
  <2>2. Numbers(unsent', cycles + 1)
    BY <2>1 DEF LoggedInv
  <2> QED BY <1>3, <2>1, <2>2, LoggedCalm
<1>9. CASE OpenFile
  <2>1. /\ file' = file /\ cycles' = cycles /\ log' = log /\ command' = command
        /\ pc = "write" /\ mem' = mem /\ unsent' = unsent
    BY <1>9 DEF OpenFile, disk, volatile
  <2>2. Numbers(unsent', cycles + 1)
    BY <2>1 DEF LoggedInv
  <2> QED BY <1>3, <2>1, <2>2, LoggedCalm
<1>10. ASSUME NEW i \in todo, ExecutorNotFound(i) PROVE LoggedInv'
  BY <1>2, <1>4, <1>10 DEF ExecutorNotFound, disk
<1>11. CASE WriteFile
  <2>1. pc = "writing" /\ Rest /\ file' = mem /\ log' = log /\ cycles' = cycles
    BY <1>11 DEF WriteFile
  <2>2. \A i \in DOMAIN mem.packages : Counted(log, cycles, mem.packages[i])
    BY <2>1 DEF LoggedInv, Underway
  <2> QED BY <1>2, <2>1, <2>2
<1>12. CASE Crash
  BY <1>2, <1>4, <1>12 DEF Crash
<1>13. CASE Edit
  <2>1. PICK s : Edits(s) /\ s.packages = file.packages
    BY <1>13, EditShape
  <2>2. /\ file' = s /\ mem' = file' /\ cycles' = cycles /\ log' = log /\ pc' = pc
        /\ command' = command /\ unsent' = unsent
    BY <2>1 DEF Edits
  <2>3. Numbers(unsent', cycles' + 1) /\ IsFiniteSet(log') /\ (pc' # "idle" => Stores(command'))
    BY <2>2 DEF LoggedInv
  <2> QED BY <1>4, <2>1, <2>2, <2>3, LoggedFresh
<1>14. CASE UNCHANGED vars
  <2>1. /\ file' = file /\ cycles' = cycles /\ log' = log /\ pc' = pc /\ command' = command
        /\ mem' = mem /\ todo' = todo /\ raw' = raw /\ unsent' = unsent
    BY <1>14 DEF vars, disk, volatile
  <2> QED BY <2>1 DEF LoggedInv, Underway
<1>15. CASE Cycle
  BY <1>5, <1>6, <1>7, <1>8, <1>9, <1>10, <1>11, <1>15, LoggedDispatch, LoggedVerify,
     LoggedCompleted, LoggedAppend, LoggedPersist DEF Cycle
<1> QED BY <1>1, <1>12, <1>13, <1>14, <1>15 DEF Next

(* Every attempt that a snapshot counts can be found in the event store,   *)
(* however cycles crash, are repeated under the same number, or run        *)
(* without writing the snapshot back (run_cycle, append_event,             *)
(* _persist_snapshot): of a project whose first packages were never        *)
(* attempted, and that is run by the commands that keep stores.            *)
THEOREM AttemptsReconstructable ==
    ASSUME WithStores, FirstUnattempted PROVE Spec => []AttemptsLogged
<1>1. Init => LoggedInv
  BY LoggedInit DEF FirstUnattempted
<1>2. KernelInv /\ LoggedInv /\ [Next]_vars => LoggedInv'
  BY LoggedNext
<1>3. KernelInv /\ LoggedInv => AttemptsLogged
  <2> SUFFICES ASSUME KernelInv, LoggedInv, NEW i \in DOMAIN file.packages
               PROVE  file.packages[i].attempts <= Cardinality(Results(file.packages[i].id))
    BY DEF AttemptsLogged
  <2> DEFINE p == file.packages[i]
             x == Cardinality(Stored(log, cycles, p.id))
             y == Cardinality(Results(p.id))
  <2>1. p \in PackageDef
    <3>1. file.packages \in Seq(PackageDef)
      BY DEF KernelInv, SnapshotTyped, SnapshotDef
    <3> QED BY <3>1, ElementOfSeq, LenProperties
  <2>2. IsFiniteSet(Results(p.id)) /\ Stored(log, cycles, p.id) \subseteq Results(p.id)
    <3>1. Results(p.id) \subseteq log
      BY DEF Results
    <3>2. IsFiniteSet(Results(p.id))
      BY <3>1, FS_Subset DEF LoggedInv
    <3> QED BY <3>2 DEF Stored, Results
  <2>3. x <= y /\ x \in Nat /\ y \in Nat
    BY <2>2, FS_Subset, FS_CardinalityType
  <2>4. p.attempts <= x /\ p.attempts \in Nat
    BY <2>1 DEF LoggedInv, Counted, PackageDef
  <2> HIDE DEF x, y
  <2>5. p.attempts <= y
    BY <2>3, <2>4
  <2> QED BY <2>5 DEF y
<1> QED BY <1>1, <1>2, <1>3, KernelInvariant, PTL DEF Spec

-----------------------------------------------------------------------------
(* The ladder of an existing repository: the slices are added together,    *)
(* the regression and the acceptance when all slices are verified, and     *)
(* nothing that is verified or has finally failed is ever attempted again. *)

RegressionDone(s) ==
    \E i \in DOMAIN s.packages :
        /\ s.packages[i].id = Regression
        /\ \/ s.packages[i].status = "verified"
           \/ s.packages[i].status = "failed" /\ s.packages[i].retry = "final_fail"
SeededOnce(s) ==
    /\ \A i, j \in DOMAIN s.packages :
          s.packages[i].id = s.packages[j].id /\ s.packages[i].id \in SeededIds => i = j
    /\ \A i \in DOMAIN s.packages :
          s.packages[i].id \in SeededIds => s.packages[i].status # "completed"
SlicesTogether(s) ==
    /\ \A i \in DOMAIN s.packages :
          s.packages[i].phase = "implementation" <=> s.packages[i].id \in SliceIds
    /\ \A i \in DOMAIN s.packages :
          s.packages[i].id \in SliceIds => SliceIds \subseteq Ids(s)
ClosedBySlices(s) ==
    \A i \in DOMAIN s.packages :
        s.packages[i].id \in {Regression, Acceptance} => SlicesDone(s)
AcceptanceWaits(s) ==
    \A i \in DOMAIN s.packages :
        s.packages[i].id = Acceptance =>
            /\ \/ s.packages[i].depends_on = {Regression}
               \/ s.packages[i].depends_on = {} /\ RegressionDone(s)
            /\ s.packages[i].status # "ready" \/ s.packages[i].attempts > 0 =>
                  RegressionDone(s)
LadderIn(s) ==
    SeededOnce(s) /\ SlicesTogether(s) /\ ClosedBySlices(s) /\ AcceptanceWaits(s)

LEMMA SeededNames ==
    /\ Regression \in SeededIds /\ Acceptance \in SeededIds /\ SliceIds \subseteq SeededIds
    /\ Regression # Acceptance /\ Regression \notin SliceIds /\ Acceptance \notin SliceIds
  BY DEF Regression, Acceptance, SliceIds, SeededIds

(* Done slices are all of them, so none is added later.                    *)
LEMMA DoneIsAll ==
    ASSUME NEW s, SlicesTogether(s), SlicesDone(s)
    PROVE  SliceIds \subseteq Ids(s)
<1>1. PICK i \in DOMAIN s.packages : s.packages[i].phase = "implementation"
  BY DEF SlicesDone, Implementation
<1> QED BY <1>1 DEF SlicesTogether

LEMMA ExtendsLadder ==
    ASSUME NEW s, NEW t, LadderIn(s), Extends(s, t)
    PROVE  LadderIn(t)
<1> DEFINE a == s.packages
           b == t.packages
<1>1. /\ DOMAIN a \subseteq DOMAIN b
      /\ \A j \in DOMAIN a : b[j] = a[j]
      /\ \A j \in DOMAIN b \ DOMAIN a :
            /\ b[j].id \in SeededIds \ Ids(s) /\ Fresh(b[j])
            /\ b[j].id \in {Regression, Acceptance} => SlicesDone(s)
            /\ b[j].id \in SliceIds => SliceIds \subseteq Ids(t)
      /\ \A i, j \in DOMAIN b \ DOMAIN a : b[i].id = b[j].id => i = j
  BY DEF Extends
<1>2. \A j \in DOMAIN a : a[j].id \in Ids(s) /\ a[j].id \in Ids(t)
  BY <1>1 DEF Ids
<1>3. SeededOnce(t)
  <2>1. \A i \in DOMAIN a : \A j \in DOMAIN b \ DOMAIN a : b[i].id # b[j].id
    BY <1>1, <1>2
  <2>2. \A i, j \in DOMAIN b : b[i].id = b[j].id /\ b[i].id \in SeededIds => i = j
    BY <1>1, <2>1 DEF LadderIn, SeededOnce
  <2>3. \A i \in DOMAIN b : b[i].id \in SeededIds => b[i].status # "completed"
    BY <1>1 DEF LadderIn, SeededOnce, Fresh
  <2> QED BY <2>2, <2>3 DEF SeededOnce
<1>4. Ids(s) \subseteq Ids(t)
  BY <1>1 DEF Ids
<1>5. SlicesTogether(t)
  <2>1. \A i \in DOMAIN b : b[i].phase = "implementation" <=> b[i].id \in SliceIds
    BY <1>1 DEF LadderIn, SlicesTogether, Fresh
  <2>2. \A i \in DOMAIN b : b[i].id \in SliceIds => SliceIds \subseteq Ids(t)
    BY <1>1, <1>4 DEF LadderIn, SlicesTogether
  <2> QED BY <2>1, <2>2 DEF SlicesTogether
<1>6. RegressionDone(s) => RegressionDone(t)
  BY <1>1 DEF RegressionDone
<1>7. SlicesDone(s) => SlicesDone(t)
  <2> SUFFICES ASSUME SlicesDone(s) PROVE SlicesDone(t)
    OBVIOUS
  <2>1. SliceIds \subseteq Ids(s)
    BY DoneIsAll DEF LadderIn
  <2>2. \A j \in DOMAIN b \ DOMAIN a : b[j].phase # "implementation"
    BY <1>1, <1>5, <2>1 DEF SlicesTogether
  <2>3. Implementation(t) = Implementation(s)
    BY <1>1, <2>2 DEF Implementation
  <2>4. \A i \in Implementation(s) : b[i] = a[i]
    BY <1>1 DEF Implementation
  <2> QED BY <2>3, <2>4 DEF SlicesDone
<1>8. ClosedBySlices(t)
  BY <1>1, <1>7 DEF LadderIn, ClosedBySlices
<1>9. AcceptanceWaits(t)
  <2> SUFFICES ASSUME NEW i \in DOMAIN b, b[i].id = Acceptance
               PROVE  /\ \/ b[i].depends_on = {Regression}
                         \/ b[i].depends_on = {} /\ RegressionDone(t)
                      /\ b[i].status # "ready" \/ b[i].attempts > 0 => RegressionDone(t)
    BY DEF AcceptanceWaits
  <2>1. CASE i \in DOMAIN a
    BY <2>1, <1>1, <1>6 DEF LadderIn, AcceptanceWaits
  <2>2. CASE i \notin DOMAIN a
    BY <2>2, <1>1 DEF Fresh
  <2> QED BY <2>1, <2>2
<1> QED BY <1>3, <1>5, <1>8, <1>9 DEF LadderIn

(* One package is changed that was ready or running.                       *)
LEMMA ChangedLadder ==
    ASSUME NEW s, NEW t, LadderIn(s), NEW i \in DOMAIN s.packages,
           DOMAIN t.packages = DOMAIN s.packages,
           \A j \in DOMAIN s.packages \ {i} : t.packages[j] = s.packages[j],
           t.packages[i].id = s.packages[i].id,
           t.packages[i].phase = s.packages[i].phase,
           s.packages[i].status \in {"ready", "running"},
           t.packages[i].status # "completed",
           \/ t.packages[i].depends_on = s.packages[i].depends_on
           \/ t.packages[i].depends_on = {} /\ RegressionDone(s),
           s.packages[i].id = Acceptance =>
              \/ RegressionDone(s)
              \/ t.packages[i].status = "ready" /\ ~(t.packages[i].attempts > 0)
    PROVE  LadderIn(t)
<1> DEFINE a == s.packages
           b == t.packages
<1>1. /\ DOMAIN b = DOMAIN a /\ i \in DOMAIN a
      /\ \A j \in DOMAIN a : b[j].id = a[j].id /\ b[j].phase = a[j].phase
      /\ \A j \in DOMAIN a \ {i} : b[j] = a[j]
  OBVIOUS
<1>2. SeededOnce(t)
  BY <1>1 DEF LadderIn, SeededOnce
<1>3. Ids(t) = Ids(s) /\ Implementation(t) = Implementation(s)
  BY <1>1 DEF Ids, Implementation
<1>4. SlicesTogether(t)
  BY <1>1, <1>3 DEF LadderIn, SlicesTogether
<1>5. SlicesDone(s) => SlicesDone(t)
  <2>1. SlicesDone(s) => \A j \in Implementation(s) : j \in DOMAIN a \ {i}
    BY DEF SlicesDone, Implementation
  <2> QED BY <2>1, <1>1, <1>3 DEF SlicesDone
<1>6. RegressionDone(s) => RegressionDone(t)
  <2> SUFFICES ASSUME RegressionDone(s) PROVE RegressionDone(t)
    OBVIOUS
  <2>1. PICK j \in DOMAIN a : /\ a[j].id = Regression
                              /\ \/ a[j].status = "verified"
                                 \/ a[j].status = "failed" /\ a[j].retry = "final_fail"
    BY DEF RegressionDone
  <2>2. j # i
    BY <2>1
  <2> QED BY <2>1, <2>2, <1>1 DEF RegressionDone
<1>7. ClosedBySlices(t)
  BY <1>1, <1>5 DEF LadderIn, ClosedBySlices
<1>8. AcceptanceWaits(t)
  <2> SUFFICES ASSUME NEW j \in DOMAIN b, b[j].id = Acceptance
               PROVE  /\ \/ b[j].depends_on = {Regression}
                         \/ b[j].depends_on = {} /\ RegressionDone(t)
                      /\ b[j].status # "ready" \/ b[j].attempts > 0 => RegressionDone(t)
    BY DEF AcceptanceWaits
  <2>1. CASE j = i
    BY <2>1, <1>1, <1>6 DEF LadderIn, AcceptanceWaits
  <2>2. CASE j # i
    BY <2>2, <1>1, <1>6 DEF LadderIn, AcceptanceWaits
  <2> QED BY <2>1, <2>2
<1> QED BY <1>2, <1>4, <1>7, <1>8 DEF LadderIn

(* A requirement event that spares the seeded packages.                    *)
LEMMA PatchedLadder ==
    ASSUME NEW s, Settled(s), NEW r \in Pending(s), LadderIn(s),
           Requirements[r].affected \cap SeededIds = {}
    PROVE  LadderIn(Patched(s, r))
<1> DEFINE t == Patched(s, r)
           a == s.packages
           b == t.packages
<1>1. /\ DOMAIN a \subseteq DOMAIN b
      /\ \A j \in DOMAIN a : b[j].id = a[j].id /\ b[j].phase = a[j].phase
      /\ \A j \in DOMAIN a : a[j].id \in SeededIds => b[j] = a[j]
      /\ \A j \in DOMAIN b \ DOMAIN a : /\ b[j].id = Requirements[r].package
                                        /\ b[j].phase = "requirement_patch"
  BY PatchedShape DEF Same
<1> HIDE DEF t
<1>2. Requirements[r].package \notin SeededIds
  BY IdsAssumption DEF Pending
<1>3. \A j \in DOMAIN b : b[j].id \in SeededIds => j \in DOMAIN a /\ b[j] = a[j]
  BY <1>1, <1>2
<1>4. SeededOnce(t)
  BY <1>3 DEF LadderIn, SeededOnce
<1>5. Ids(s) \subseteq Ids(t)
  BY <1>1 DEF Ids
<1>6. SlicesTogether(t)
  BY <1>1, <1>2, <1>3, <1>5, SeededNames DEF LadderIn, SlicesTogether
<1>7. SlicesDone(s) => SlicesDone(t)
  <2>1. Implementation(t) = Implementation(s)
    BY <1>1 DEF Implementation
  <2>2. \A j \in Implementation(s) : b[j] = a[j]
    BY <1>3, <1>1, SeededNames DEF LadderIn, SlicesTogether, Implementation
  <2> QED BY <2>1, <2>2 DEF SlicesDone
<1>8. ClosedBySlices(t)
  BY <1>3, <1>7, SeededNames DEF LadderIn, ClosedBySlices
<1>9. RegressionDone(s) => RegressionDone(t)
  BY <1>1, SeededNames DEF RegressionDone
<1>10. AcceptanceWaits(t)
  BY <1>3, <1>9, SeededNames DEF LadderIn, AcceptanceWaits
<1> QED BY <1>4, <1>6, <1>8, <1>10 DEF LadderIn, t

FirstPlain ==
    /\ FirstIds \cap SeededIds = {}
    /\ \A i \in DOMAIN Packages : Packages[i].phase # "implementation"
SeededSpared ==
    \A r \in DOMAIN Requirements : Requirements[r].affected \cap SeededIds = {}
LadderInv == LadderIn(file) /\ LadderIn(mem)

LEMMA LadderInit == ASSUME FirstPlain, Init PROVE LadderInv
<1>1. file.packages = Packages /\ mem = file
  BY DEF Init
<1>2. \A i \in DOMAIN Packages : Packages[i].id \notin SeededIds
  BY DEF FirstPlain, FirstIds
<1>3. SeededOnce(file)
  BY <1>1, <1>2 DEF SeededOnce
<1>4. SlicesTogether(file)
  BY <1>1, <1>2, SeededNames DEF SlicesTogether, FirstPlain
<1>5. ClosedBySlices(file) /\ AcceptanceWaits(file)
  BY <1>1, <1>2, SeededNames DEF ClosedBySlices, AcceptanceWaits
<1> QED BY <1>1, <1>3, <1>4, <1>5 DEF LadderInv, LadderIn

(* Snapshots with the same packages.                                       *)
LEMMA SamePackages ==
    ASSUME NEW s, NEW t, t.packages = s.packages, LadderIn(s) PROVE LadderIn(t)
<1>1. Ids(t) = Ids(s) /\ (RegressionDone(t) <=> RegressionDone(s))
      /\ (SlicesDone(t) <=> SlicesDone(s))
  BY DEF Ids, RegressionDone, SlicesDone, Implementation
<1> QED BY <1>1 DEF LadderIn, SeededOnce, SlicesTogether, ClosedBySlices, AcceptanceWaits

LEMMA SeederLadder ==
    ASSUME NEW s, Settled(s), LadderIn(s), NEW k \in 1..5 PROVE LadderIn(Seeder(k, s))
<1> DEFINE t == Seeder(k, s)
<1>1. t = s \/ Extends(s, t) \/ Releases(s, t)
  BY SeederShape
<1> HIDE DEF t
<1>2. ASSUME Releases(s, t) PROVE LadderIn(t)
  <2>1. PICK a \in DOMAIN s.packages :
          /\ s.packages[a].id = Acceptance
          /\ Same(t.packages[a], s.packages[a])
          /\ t.packages[a].status = s.packages[a].status
          /\ t.packages[a].phase = s.packages[a].phase
          /\ t.packages[a].depends_on = {}
          /\ \A j \in DOMAIN s.packages \ {a} : t.packages[j] = s.packages[j]
    BY <1>2 DEF Releases
  <2>2. DOMAIN t.packages = DOMAIN s.packages /\ FinallyFailed(s, Regression)
    BY <1>2 DEF Releases
  <2>3. RegressionDone(s)
    <3>1. Regression \in Ids(s) /\ s.packages[Find(s, Regression)].status = "failed"
          /\ s.packages[Find(s, Regression)].retry = "final_fail"
      BY <2>2 DEF FinallyFailed, HasStatus
    <3>2. Find(s, Regression) \in DOMAIN s.packages
          /\ s.packages[Find(s, Regression)].id = Regression
      BY <3>1, FoundIn
    <3> QED BY <3>1, <3>2 DEF RegressionDone
  <2>4. RegressionDone(t)
    BY <2>1, <2>2, <2>3, SeededNames DEF RegressionDone
  <2>5. /\ \A j \in DOMAIN s.packages : /\ t.packages[j].id = s.packages[j].id
                                        /\ t.packages[j].phase = s.packages[j].phase
                                        /\ t.packages[j].status = s.packages[j].status
        /\ DOMAIN t.packages = DOMAIN s.packages
    BY <2>1, <2>2 DEF Same
  <2>6. Ids(t) = Ids(s) /\ Implementation(t) = Implementation(s)
    BY <2>5 DEF Ids, Implementation
  <2>7. SlicesDone(s) => SlicesDone(t)
    BY <2>5, <2>6 DEF SlicesDone, Implementation
  <2>8. SeededOnce(t)
    BY <2>5 DEF LadderIn, SeededOnce
  <2>9. SlicesTogether(t)
    BY <2>5, <2>6 DEF LadderIn, SlicesTogether
  <2>10. ClosedBySlices(t)
    BY <2>5, <2>7 DEF LadderIn, ClosedBySlices
  <2>11. AcceptanceWaits(t)
    <3>1. \A j \in DOMAIN t.packages : j = a \/ t.packages[j] = s.packages[j]
      BY <2>1, <2>5
    <3> QED BY <3>1, <2>1, <2>4, <2>5 DEF LadderIn, AcceptanceWaits
  <2> QED BY <2>8, <2>9, <2>10, <2>11 DEF LadderIn
<1> QED BY <1>1, <1>2, ExtendsLadder DEF t

LEMMA LadderDispatch ==
    ASSUME KernelInv, LadderInv, NEW i \in todo, Dispatch(i) PROVE LadderInv'
<1> DEFINE p == mem.packages[i]
           q == [p EXCEPT !.status = "running"]
<1>1. file' = file /\ mem' = [mem EXCEPT !.packages[i] = q]
  BY DEF Dispatch, disk
<1>2. mem \in SnapshotDef /\ mem.packages \in Seq(PackageDef) /\ i \in DOMAIN mem.packages
  BY DEF KernelInv, SnapshotTyped, SnapshotDef
<1>3. p \in PackageDef /\ p.status = "ready" /\ p.depends_on \subseteq DoneIds(mem)
  BY <1>2, ElementOfSeq, LenProperties DEF KernelInv, StillSelectable, IsReady
<1>4. q.id = p.id /\ q.phase = p.phase /\ q.depends_on = p.depends_on /\ q.status = "running"
  BY <1>3 DEF PackageDef
<1>5. /\ DOMAIN mem'.packages = DOMAIN mem.packages
      /\ mem'.packages[i] = q
      /\ \A j \in DOMAIN mem.packages \ {i} : mem'.packages[j] = mem.packages[j]
  BY <1>1, <1>2 DEF SnapshotDef
<1>6. p.id = Acceptance => RegressionDone(mem)
  <2> SUFFICES ASSUME p.id = Acceptance, p.depends_on = {Regression}
               PROVE  RegressionDone(mem)
    BY <1>2 DEF LadderInv, LadderIn, AcceptanceWaits
  <2>1. Regression \in DoneIds(mem)
    BY <1>3
  <2>2. PICK j \in DOMAIN mem.packages : /\ mem.packages[j].id = Regression
                                         /\ mem.packages[j].status \in {"completed", "verified"}
    BY <2>1 DEF DoneIds
  <2>3. mem.packages[j].status # "completed"
    BY <2>2, SeededNames DEF LadderInv, LadderIn, SeededOnce
  <2> QED BY <2>2, <2>3 DEF RegressionDone
<1> HIDE DEF q
<1>7. LadderIn(mem')
  <2> DEFINE t == mem'
  <2>1. /\ DOMAIN t.packages = DOMAIN mem.packages
        /\ \A j \in DOMAIN mem.packages \ {i} : t.packages[j] = mem.packages[j]
        /\ t.packages[i].id = mem.packages[i].id
        /\ t.packages[i].phase = mem.packages[i].phase
        /\ mem.packages[i].status \in {"ready", "running"}
        /\ t.packages[i].status # "completed"
        /\ t.packages[i].depends_on = mem.packages[i].depends_on
        /\ mem.packages[i].id = Acceptance => RegressionDone(mem)
    BY <1>3, <1>4, <1>5, <1>6
  <2>2. LadderIn(mem)
    BY DEF LadderInv
  <2> HIDE DEF t
  <2>3. LadderIn(t)
    BY <1>2, <2>1, <2>2, ChangedLadder
  <2> QED BY <2>3 DEF t
<1> QED BY <1>1, <1>7 DEF LadderInv

LEMMA LadderVerify ==
    ASSUME KernelInv, LadderInv, Verify PROVE LadderInv'
<1> DEFINE i == Head(raw).at
           p == mem.packages[i]
           a == Attempted(p)
<1>1. file' = file
  BY DEF Verify, disk
<1>2. /\ mem \in SnapshotDef /\ i \in DOMAIN mem.packages /\ p \in PackageDef
      /\ p.status = "running"
  <2>1. /\ mem \in SnapshotDef /\ mem.packages \in Seq(PackageDef) /\ raw \in Seq(ResultDef)
        /\ \A k \in DOMAIN raw : raw[k].at \in DOMAIN mem.packages
    BY DEF KernelInv, SnapshotTyped, SnapshotDef
  <2>2. 1 \in DOMAIN raw /\ i = raw[1].at
    BY <2>1 DEF Verify
  <2>3. i \in DOMAIN mem.packages
    BY <2>1, <2>2
  <2>4. p.status = "running"
    BY <2>2, <2>3 DEF KernelInv, InFlight
  <2> QED BY <2>1, <2>3, <2>4, ElementOfSeq, LenProperties
<1>3. a \in PackageDef
  BY <1>2, AttemptTyped
<1>4. \E q : /\ mem' = [mem EXCEPT !.packages[i] = q]
             /\ q.id = p.id /\ q.phase = p.phase /\ q.depends_on = p.depends_on
             /\ q.status # "completed"
  <2>1. CASE mem' = [mem EXCEPT !.packages[i] = [a EXCEPT !.status = "verified"]]
    <3> DEFINE v == [a EXCEPT !.status = "verified"]
    <3>1. v.id = p.id /\ v.phase = p.phase /\ v.depends_on = p.depends_on
          /\ v.status = "verified"
      BY <1>2, AttemptTyped, AttemptCounts
    <3> HIDE DEF v
    <3> QED BY <2>1, <3>1 DEF v
  <2>2. ASSUME NEW answer \in Semantic(a, Head(raw)),
               mem' = [mem EXCEPT !.packages[i] = Retried(a, Guarded(a, Head(raw), answer))]
        PROVE  \E q : /\ mem' = [mem EXCEPT !.packages[i] = q]
                      /\ q.id = p.id /\ q.phase = p.phase /\ q.depends_on = p.depends_on
                      /\ q.status # "completed"
    <3> DEFINE d == Guarded(a, Head(raw), answer)
               v == Retried(a, d)
    <3>1. d \in Decisions
      BY <1>3, DecisionTyped
    <3>2. v.id = p.id /\ v.phase = p.phase /\ v.depends_on = p.depends_on
          /\ v.status # "completed"
      <4> HIDE DEF d
      <4> QED BY <1>2, <3>1, AttemptTyped, AttemptCounts
    <3>3. mem' = [mem EXCEPT !.packages[i] = v]
      BY <2>2
    <3> HIDE DEF v
    <3> QED BY <3>2, <3>3
  <2> QED BY <2>1, <2>2 DEF Verify
<1>5. PICK q : /\ mem' = [mem EXCEPT !.packages[i] = q]
               /\ q.id = p.id /\ q.phase = p.phase /\ q.depends_on = p.depends_on
               /\ q.status # "completed"
  BY <1>4
<1> HIDE DEF i
<1>6. /\ DOMAIN mem'.packages = DOMAIN mem.packages
      /\ mem'.packages[i] = q
      /\ \A j \in DOMAIN mem.packages \ {i} : mem'.packages[j] = mem.packages[j]
  BY <1>2, <1>5 DEF SnapshotDef
<1>7. p.id = Acceptance => RegressionDone(mem)
  BY <1>2 DEF LadderInv, LadderIn, AcceptanceWaits
<1>8. LadderIn(mem')
  <2> DEFINE t == mem'
  <2>1. /\ DOMAIN t.packages = DOMAIN mem.packages
        /\ \A j \in DOMAIN mem.packages \ {i} : t.packages[j] = mem.packages[j]
        /\ t.packages[i].id = mem.packages[i].id
        /\ t.packages[i].phase = mem.packages[i].phase
        /\ mem.packages[i].status \in {"ready", "running"}
        /\ t.packages[i].status # "completed"
        /\ t.packages[i].depends_on = mem.packages[i].depends_on
        /\ mem.packages[i].id = Acceptance => RegressionDone(mem)
    BY <1>2, <1>5, <1>6, <1>7
  <2>2. LadderIn(mem)
    BY DEF LadderInv
  <2> HIDE DEF t
  <2>3. LadderIn(t)
    BY <1>2, <2>1, <2>2, ChangedLadder
  <2> QED BY <2>3 DEF t
<1> QED BY <1>1, <1>8 DEF LadderInv

LEMMA LadderNext ==
    ASSUME SeededSpared, KernelInv, LadderInv, [Next]_vars PROVE LadderInv'
<1>1. ASSUME mem' = mem \/ mem' = file', file' = file \/ file' = mem PROVE LadderInv'
  BY <1>1 DEF LadderInv
<1>2. ASSUME NEW cmd \in Commands, Begin(cmd) PROVE LadderInv'
  BY <1>1, <1>2 DEF Begin, disk
<1>3. ASSUME NEW r \in DOMAIN Requirements, ApplyRequirement(r) PROVE LadderInv'
  <2>1. file' = file /\ r \in Pending(mem) /\ mem' = Patched(mem, r)
    BY <1>3 DEF ApplyRequirement, disk
  <2>2. LadderIn(Patched(mem, r))
    BY <2>1, PatchedLadder DEF SeededSpared, KernelInv, LadderInv
  <2> QED BY <2>1, <2>2 DEF LadderInv
<1>4. CASE Seed
  <2>1. file' = file /\ mem' = Seeder(tried + 1, mem) /\ tried < Seeders
    BY <1>4 DEF Seed, disk
  <2>2. tried + 1 \in 1..5
    BY <2>1 DEF KernelInv, SnapshotTyped, Seeders
  <2>3. LadderIn(Seeder(tried + 1, mem))
    BY <2>2, SeederLadder DEF KernelInv, LadderInv
  <2> QED BY <2>1, <2>3 DEF LadderInv
<1>5. CASE AllApplied \/ Select \/ CycleCompleted \/ AppendEvent \/ OpenFile
  BY <1>1, <1>5 DEF AllApplied, Select, CycleCompleted, AppendEvent, OpenFile, disk, volatile
<1>6. ASSUME NEW i \in todo, ExecutorNotFound(i) PROVE LadderInv'
  BY <1>1, <1>6 DEF ExecutorNotFound, Rest, disk
<1>7. CASE PersistSnapshot
  BY <1>1, <1>7 DEF PersistSnapshot, Rest, volatile
<1>8. CASE WriteFile \/ Crash
  BY <1>1, <1>8 DEF WriteFile, Crash, Rest
<1>9. CASE Edit
  <2>1. PICK s : Edits(s) /\ s.packages = file.packages
    BY <1>9, EditShape
  <2>2. LadderIn(s)
    BY <2>1, SamePackages DEF LadderInv
  <2> QED BY <2>1, <2>2 DEF Edits, LadderInv
<1>10. CASE UNCHANGED vars
  BY <1>1, <1>10 DEF vars, disk, volatile
<1>11. CASE Cycle
  BY <1>3, <1>4, <1>5, <1>6, <1>7, <1>8, <1>11, LadderDispatch, LadderVerify DEF Cycle
<1> QED BY <1>2, <1>8, <1>9, <1>10, <1>11 DEF Next

(* The self-hosting acceptance is attempted only when all implementation   *)
(* slices are verified and the regression is verified or has used up its   *)
(* executors (seed_validation_workset,                                     *)
(* seed_exhausted_regression_acceptance), whatever executors answer and    *)
(* wherever cycles crash: in a project that starts without implementation  *)
(* packages and without packages named like the seeded ones, and whose     *)
(* requirement events leave the seeded packages alone.                     *)
THEOREM AcceptanceComesLast ==
    ASSUME FirstPlain, SeededSpared PROVE Spec => []AcceptanceLast
<1>1. Init => LadderInv
  BY LadderInit
<1>2. KernelInv /\ LadderInv /\ [Next]_vars => LadderInv'
  BY LadderNext
<1>3. LadderInv => AcceptanceLast
  <2> SUFFICES ASSUME LadderIn(file), Acceptance \in Ids(file),
                      file.packages[Find(file, Acceptance)].attempts > 0
               PROVE  /\ \A k \in DOMAIN Slices : HasStatus(file, Slices[k].id, "verified")
                      /\ \/ HasStatus(file, Regression, "verified")
                         \/ FinallyFailed(file, Regression)
    BY DEF AcceptanceLast, LadderInv, Acceptance, Regression
  <2> DEFINE i == Find(file, Acceptance)
  <2>1. i \in DOMAIN file.packages /\ file.packages[i].id = Acceptance
    BY FoundIn
  <2> HIDE DEF i
  <2>2. SlicesDone(file) /\ RegressionDone(file)
    BY <2>1 DEF LadderIn, ClosedBySlices, AcceptanceWaits, i
  <2>3. ASSUME NEW id \in SliceIds PROVE HasStatus(file, id, "verified")
    <3>1. id \in Ids(file)
      BY <2>2, DoneIsAll DEF LadderIn
    <3>2. Find(file, id) \in DOMAIN file.packages /\ file.packages[Find(file, id)].id = id
      BY <3>1, FoundIn
    <3>3. Find(file, id) \in Implementation(file)
      BY <3>2 DEF LadderIn, SlicesTogether, Implementation
    <3> QED BY <3>1, <3>3, <2>2 DEF SlicesDone, HasStatus
  <2>4. \A k \in DOMAIN Slices : Slices[k].id \in SliceIds
    <3>1. \A id, priority, deps : Slice(id, priority, deps).id = id
      BY DEF Slice, Package
    <3> DEFINE a == Slice("wp-runtime-state-persistence", 95, {"wp-initial-work-plan"})
               b == Slice("wp-executor-live-adapters", 90, {"wp-runtime-state-persistence"})
               c == Slice("wp-onboarding-entry-flow", 85, {"wp-runtime-state-persistence"})
    <3>2. a.id \in SliceIds /\ b.id \in SliceIds /\ c.id \in SliceIds
      BY <3>1 DEF SliceIds
    <3>3. Slices = <<a, b, c>>
      BY DEF Slices
    <3> HIDE DEF a, b, c
    <3> QED BY <3>2, <3>3
  <2>5. PICK j \in DOMAIN file.packages :
            /\ file.packages[j].id = Regression
            /\ \/ file.packages[j].status = "verified"
               \/ file.packages[j].status = "failed" /\ file.packages[j].retry = "final_fail"
    BY <2>2 DEF RegressionDone
  <2>6. Regression \in Ids(file)
    BY <2>5 DEF Ids
  <2>7. Find(file, Regression) = j
    <3>1. Find(file, Regression) \in DOMAIN file.packages
          /\ file.packages[Find(file, Regression)].id = Regression
      BY <2>6, FoundIn
    <3> QED BY <3>1, <2>5, SeededNames DEF LadderIn, SeededOnce
  <2> QED BY <2>3, <2>4, <2>5, <2>6, <2>7 DEF HasStatus, FinallyFailed
<1> QED BY <1>1, <1>2, <1>3, KernelInvariant, PTL DEF Spec
=============================================================================
