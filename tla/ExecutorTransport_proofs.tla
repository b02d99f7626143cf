---------------------- MODULE ExecutorTransport_proofs ----------------------
(***************************************************************************)
(* For all packages, behaviours, capacities and bounds: types, no executor *)
(* left unwatched, truthful verdicts and a bound on launches.              *)
(***************************************************************************)
EXTENDS ExecutorTransport, SequenceTheorems, FiniteSetTheorems, TLAPS

\* The package has a result in this cycle, or its executor is being polled.
Begun(p) == \/ \E r \in raw : r.package = p
            \/ pc = "waiting" /\ procs[Awaited].package = p

\* A cycle deals with each selected package once.
Once ==
  /\ pc = "idle" => raw = {} /\ todo = {}
  /\ pc = "verifying" => todo = {}
  /\ \A r \in raw : r.package \notin todo
  /\ \A r, s \in raw : r.package = s.package => r = s
  /\ pc = "waiting" => /\ procs[Awaited].package \notin todo
                       /\ \A r \in raw : r.package # procs[Awaited].package

\* What is selected, being run or answered has an attempt left.
Budget ==
  \A p \in Package :
    /\ ledger[p].attempts <= MaxAttempts
    /\ ledger[p].status = "ready" => ledger[p].attempts < MaxAttempts
    /\ p \in todo \/ Begun(p) => ledger[p].attempts < MaxAttempts

\* Every launch was counted as an attempt, is of this cycle, or was lost.
Counted ==
  \A p \in Package :
    /\ IsFiniteSet(LaunchesOf(p))
    /\ Cardinality(LaunchesOf(p)) <=
         ledger[p].attempts + lost + (IF Begun(p) THEN 1 ELSE 0)

\* Answered executions are not polled again, and one that was given up was late.
Answered ==
  \A r \in raw :
    /\ r.exec <= Len(procs)
    /\ pc = "waiting" => r.exec < Len(procs)
    /\ r.exec \in Execs /\ ~r.ok /\ Alive(r.exec) => r.at > Timeout

\* Only what fits into a pipe exits with 0; the executor polled is not signalled.
Fits ==
  /\ \A e \in Execs : procs[e].code = "zero" => procs[e].does.output <= Capacity
  /\ pc = "waiting" => procs[Awaited].fate = "watched"

TransportInv ==
  /\ TransportTyped
  /\ Once
  /\ Budget
  /\ Counted
  /\ Answered
  /\ Fits
  /\ LiveAreWatched
  /\ VerdictFits

-----------------------------------------------------------------------------
LEMMA ProcTyped ==
  ASSUME procs \in Seq(Proc)
  PROVE  /\ Len(procs) \in Nat
         /\ Execs = 1 .. Len(procs)
         /\ procs \in [1 .. Len(procs) -> Proc]
         /\ \A e \in Execs : procs[e] \in Proc
BY LenProperties DEF Execs

\* What every step but Submit does to the processes: they keep package and
\* behaviour, one that has ended stays as it is, and one that ends with 0 fits.
Touched ==
  /\ procs' \in Seq(Proc)
  /\ Len(procs') = Len(procs)
  /\ \A e \in Execs :
       /\ procs'[e].package = procs[e].package
       /\ procs'[e].does = procs[e].does
       /\ ~Alive(e) => procs'[e].code = procs[e].code
       /\ procs'[e].code = "zero" /\ Alive(e) => procs[e].does.output <= Capacity

LEMMA UnchangedTouches ==
  ASSUME TransportInv, procs' = procs
  PROVE  Touched
<1>. procs \in Seq(Proc) /\ Execs = 1 .. Len(procs) /\ \A e \in Execs : procs[e] \in Proc
  BY ProcTyped DEF TransportInv, TransportTyped
<1>. QED  BY DEF Touched, TransportInv, Fits, Alive

LEMMA TouchedKeepsLaunches ==
  ASSUME TransportInv, Touched
  PROVE  /\ Execs' = Execs
         /\ Awaited' = Awaited
         /\ \A p \in Package : LaunchesOf(p)' = LaunchesOf(p)
<1>1. Execs = 1 .. Len(procs) /\ procs \in Seq(Proc)
  BY ProcTyped DEF TransportInv, TransportTyped
<1>2. Execs' = 1 .. Len(procs')
  BY LenProperties DEF Execs, Touched
<1>3. Execs' = Execs
  BY <1>1, <1>2 DEF Touched
<1>4. \A e \in Execs : procs'[e].package = procs[e].package
  BY DEF Touched
<1>5. Awaited' = Awaited
  BY DEF Awaited, Touched
<1>. QED  BY <1>3, <1>4, <1>5 DEF LaunchesOf

\* A lost cycle: nothing is in progress, and the launches it made are paid for
\* by the lost cycle itself.
LEMMA LostKeeps ==
  ASSUME TransportInv, Lost, Touched,
         \A e \in Execs : Alive(e)' => procs'[e].fate # "watched"
  PROVE  TransportInv'
<1>. USE DEF TransportInv
<1>1. Execs = 1 .. Len(procs) /\ Execs' = Execs
      /\ \A p \in Package : LaunchesOf(p)' = LaunchesOf(p)
  BY TouchedKeepsLaunches, ProcTyped DEF TransportTyped
<1>2. TransportTyped'
  BY DEF TransportTyped, Lost, Touched
<1>3. Once'
  BY DEF Once, Lost
<1>4. Budget'
  BY DEF Budget, Lost, Begun
<1>5. Counted'
  <2>1. \A p \in Package : ~Begun(p)'
    BY DEF Lost, Begun
  <2>2. \A p \in Package : Cardinality(LaunchesOf(p)) <= ledger[p].attempts + lost + 1
    <3>. TAKE p \in Package
    <3>1. Cardinality(LaunchesOf(p)) \in Nat
      BY FS_CardinalityType DEF Counted
    <3>2. ledger[p].attempts \in Nat /\ lost \in Nat
      BY DEF TransportTyped, Entry
    <3>. QED  BY <3>1, <3>2 DEF Counted
  <2>3. ledger' = ledger /\ lost' = lost + 1 /\ lost \in Nat /\ \A p \in Package : ledger[p].attempts \in Nat
    BY DEF Lost, TransportTyped, Entry
  <2>. QED  BY <1>1, <2>1, <2>2, <2>3 DEF Counted
<1>6. Answered' /\ VerdictFits'
  BY DEF Answered, VerdictFits, Lost
<1>7. Fits'
  <2>1. \A e \in Execs : procs'[e].code = "zero" => procs'[e].does.output <= Capacity
    BY DEF Fits, Touched
  <2>. QED  BY <2>1, <1>1 DEF Fits, Lost
<1>8. LiveAreWatched'
  BY <1>1 DEF LiveAreWatched
<1>. QED  BY <1>2, <1>3, <1>4, <1>5, <1>6, <1>7, <1>8

-----------------------------------------------------------------------------
(* The cycle *)

\* What a step that loses the cycle and leaves the processes alone satisfies.
LEMMA LosingKeeps ==
  ASSUME TransportInv, Lost, UNCHANGED procs,
         pc = "waiting" => ~Alive(Awaited)
  PROVE  TransportInv'
<1>1. Touched
  BY UnchangedTouches
<1>2. \A e \in Execs : Alive(e)' => procs'[e].fate # "watched"
  BY DEF TransportInv, LiveAreWatched, Waiting, Alive
<1>. QED  BY <1>1, <1>2, LostKeeps

LEMMA BeginKeeps ==
  ASSUME TransportInv, Begin
  PROVE  TransportInv'
<1>. USE DEF TransportInv
<1>1. /\ raw = {} /\ raw' = {} /\ pc' = "dispatching" /\ todo' \subseteq Ready
      /\ procs' = procs /\ ledger' = ledger /\ lost' = lost /\ age' = age
      /\ pc = "idle"
  BY DEF Begin, Once
<1>2. TransportTyped'
  BY <1>1 DEF TransportTyped, Ready
<1>3. Once'
  BY <1>1 DEF Once
<1>4. \A p \in Package : ~Begun(p) /\ ~Begun(p)'
  BY <1>1 DEF Begun
<1>5. Budget'
  BY <1>1, <1>4 DEF Budget, Ready
<1>6. Counted'
  BY <1>1, <1>4 DEF Counted, LaunchesOf, Execs
<1>7. Answered' /\ VerdictFits'
  BY <1>1 DEF Answered, VerdictFits
<1>8. Fits' /\ LiveAreWatched'
  BY <1>1 DEF Fits, LiveAreWatched, Execs, Alive, Waiting
<1>. QED  BY <1>2, <1>3, <1>5, <1>6, <1>7, <1>8

LEMMA NotConfiguredKeeps ==
  ASSUME TransportInv, NEW p \in Package, NotConfigured(p)
  PROVE  TransportInv'
<1>. USE DEF TransportInv
<1>. DEFINE a == Answer(p, 0, FALSE, FALSE)
<1>1. /\ p \in todo /\ todo' = todo \ {p} /\ raw' = raw \union {a}
      /\ pc = "dispatching" /\ pc' = pc /\ procs' = procs /\ age' = age
      /\ ledger' = ledger /\ lost' = lost
  BY DEF NotConfigured
<1>2. a.package = p /\ a.exec = 0 /\ a.ok = FALSE /\ (age \in Nat => a \in Result)
  BY DEF Answer, Result
<1>. HIDE DEF a
<1>3. procs \in Seq(Proc) /\ Execs = 1 .. Len(procs) /\ Len(procs) \in Nat
  BY ProcTyped DEF TransportTyped
<1>4. TransportTyped'
  BY <1>1, <1>2 DEF TransportTyped
<1>5. Once'
  BY <1>1, <1>2 DEF Once
<1>6. \A q \in Package : Begun(q)' <=> Begun(q) \/ q = p
  BY <1>1, <1>2 DEF Begun
<1>7. Budget'
  BY <1>1, <1>6 DEF Budget
<1>8. Counted'
  <2>1. \A q \in Package : LaunchesOf(q)' = LaunchesOf(q)
    BY <1>1 DEF LaunchesOf, Execs
  <2>2. \A q \in Package : /\ Cardinality(LaunchesOf(q)) \in Nat
                           /\ ledger[q].attempts \in Nat /\ lost \in Nat
    BY FS_CardinalityType DEF Counted, TransportTyped, Entry
  <2>. QED  BY <1>1, <1>6, <2>1, <2>2 DEF Counted
<1>9. Answered' /\ VerdictFits'
  BY <1>1, <1>2, <1>3 DEF Answered, VerdictFits, Execs, Alive
<1>10. Fits' /\ LiveAreWatched'
  BY <1>1 DEF Fits, LiveAreWatched, Execs, Alive, Waiting
<1>. QED  BY <1>4, <1>5, <1>7, <1>8, <1>9, <1>10

LEMMA SubmitKeeps ==
  ASSUME TransportInv, NEW p \in Package, Submit(p)
  PROVE  TransportInv'
<1>. USE DEF TransportInv
<1>1. PICK b \in Behaviour :
        procs' = Append(procs, [package |-> p, does |-> b, code |-> "none",
                                fate |-> "watched"])
  BY DEF Submit
<1>. DEFINE new == [package |-> p, does |-> b, code |-> "none", fate |-> "watched"]
<1>2. /\ new \in Proc /\ new.package = p /\ new.code = "none" /\ new.fate = "watched"
      /\ new.does = b
  BY DEF Proc
<1>. HIDE DEF new
<1>3. /\ p \in todo /\ todo' = todo \ {p} /\ raw' = raw /\ age' = 0
      /\ pc = "dispatching" /\ pc' = "waiting" /\ ledger' = ledger /\ lost' = lost
      /\ procs' = Append(procs, new)
  BY <1>1 DEF Submit, new
<1>4. /\ procs \in Seq(Proc) /\ Len(procs) \in Nat /\ Execs = 1 .. Len(procs)
      /\ \A e \in Execs : procs[e] \in Proc
  BY ProcTyped DEF TransportTyped
<1>5. /\ procs' \in Seq(Proc) /\ procs' # << >> /\ Len(procs') = Len(procs) + 1
      /\ Execs' = 1 .. Len(procs) + 1
      /\ \A e \in Execs : procs'[e] = procs[e]
      /\ procs'[Len(procs) + 1] = new
  BY <1>2, <1>3, <1>4, AppendProperties, LenProperties DEF Execs
<1>6. Awaited' = Len(procs) + 1
  BY <1>5 DEF Awaited
<1>7. TransportTyped'
  BY <1>3, <1>5 DEF TransportTyped
<1>8. Once'
  BY <1>2, <1>3, <1>5, <1>6 DEF Once
<1>9. \A q \in Package : /\ Begun(q)' <=> Begun(q) \/ q = p
                         /\ ~Begun(p)
  BY <1>2, <1>3, <1>5, <1>6 DEF Begun, Once
<1>10. Budget'
  BY <1>3, <1>9 DEF Budget
<1>11. Counted'
  <2>1. \A q \in Package :
          LaunchesOf(q)' = IF q = p THEN LaunchesOf(q) \union {Len(procs) + 1}
                           ELSE LaunchesOf(q)
    BY <1>2, <1>4, <1>5 DEF LaunchesOf
  <2>2. \A q \in Package : /\ Cardinality(LaunchesOf(q)) \in Nat
                           /\ ledger[q].attempts \in Nat /\ lost \in Nat
                           /\ IsFiniteSet(LaunchesOf(q))
    BY FS_CardinalityType DEF Counted, TransportTyped, Entry
  <2>3. Len(procs) + 1 \notin LaunchesOf(p)
    BY <1>4 DEF LaunchesOf
  <2>4. /\ IsFiniteSet(LaunchesOf(p)')
        /\ Cardinality(LaunchesOf(p)') = Cardinality(LaunchesOf(p)) + 1
    BY <2>1, <2>2, <2>3, FS_AddElement
  <2>5. \A q \in Package : q # p => LaunchesOf(q)' = LaunchesOf(q)
    BY <2>1
  <2>. HIDE DEF LaunchesOf
  <2>6. Cardinality(LaunchesOf(p)') <= ledger'[p].attempts + lost' + 1
    BY <1>3, <1>9, <2>2, <2>4 DEF Counted
  <2>7. \A q \in Package : q # p =>
          /\ IsFiniteSet(LaunchesOf(q)')
          /\ Cardinality(LaunchesOf(q)') <=
               ledger'[q].attempts + lost' + (IF Begun(q)' THEN 1 ELSE 0)
    BY <1>3, <1>9, <2>2, <2>5 DEF Counted
  <2>. QED  BY <1>9, <2>4, <2>6, <2>7 DEF Counted
<1>12. Answered' /\ VerdictFits'
  BY <1>2, <1>3, <1>4, <1>5, <1>6 DEF Answered, VerdictFits, Alive, Result, TransportTyped
<1>13. Fits'
  BY <1>2, <1>3, <1>4, <1>5, <1>6 DEF Fits
<1>14. LiveAreWatched'
  BY <1>2, <1>3, <1>4, <1>5, <1>6 DEF LiveAreWatched, Alive, Waiting
<1>. QED  BY <1>7, <1>8, <1>10, <1>11, <1>12, <1>13, <1>14

LEMMA SleepKeeps ==
  ASSUME TransportInv, Sleep \/ DispatchDone
  PROVE  TransportInv'
<1>1. /\ procs' = procs /\ todo' = todo /\ raw' = raw /\ ledger' = ledger /\ lost' = lost
      /\ \/ pc' = pc
         \/ pc' = "verifying" /\ pc = "dispatching" /\ todo = {}
      /\ age \in Nat => age' \in Nat
  <2>1. CASE Sleep
    BY <2>1 DEF Sleep
  <2>2. CASE DispatchDone
    BY <2>2 DEF DispatchDone
  <2>. QED  BY <2>1, <2>2
<1>. USE DEF TransportInv
<1>2. TransportTyped'
  BY <1>1 DEF TransportTyped
<1>3. Once'
  BY <1>1 DEF Once, Awaited
<1>4. \A p \in Package : Begun(p)' <=> Begun(p)
  BY <1>1 DEF Begun, Awaited
<1>5. Budget'
  BY <1>1, <1>4 DEF Budget
<1>6. Counted'
  BY <1>1, <1>4 DEF Counted, LaunchesOf, Execs
<1>7. Answered' /\ VerdictFits'
  BY <1>1 DEF Answered, VerdictFits, Execs, Alive
<1>8. Fits' /\ LiveAreWatched'
  BY <1>1 DEF Fits, LiveAreWatched, Execs, Alive, Waiting, Awaited
<1>. QED  BY <1>2, <1>3, <1>5, <1>6, <1>7, <1>8

\* A poll that ends the waiting: the result is of the execution polled, and
\* tells the truth about it, or comes late.
LEMMA AnsweredKeeps ==
  ASSUME TransportInv, NEW ok \in BOOLEAN, NEW malformed \in BOOLEAN,
         pc = "waiting", pc' = "dispatching", age' = 0,
         raw' = raw \union {Answer(procs[Awaited].package, Awaited, ok, malformed)},
         UNCHANGED <<todo, ledger, lost>>,
         Touched,
         ok => /\ procs'[Awaited].code = "zero" /\ procs'[Awaited].fate = "watched"
         ,
         ~ok => age > Timeout \/ procs'[Awaited].code = "nonzero",
         Alive(Awaited)' => procs'[Awaited].fate # "watched",
         \A e \in Execs : e # Awaited => procs'[e] = procs[e]
  PROVE  TransportInv'
<1>. USE DEF TransportInv
<1>. DEFINE p == procs[Awaited].package
            a == Answer(p, Awaited, ok, malformed)
<1>1. /\ procs \in Seq(Proc) /\ Len(procs) \in Nat /\ Execs = 1 .. Len(procs)
      /\ Awaited = Len(procs) /\ Awaited \in Execs /\ procs[Awaited] \in Proc
      /\ \A e \in Execs : procs[e] \in Proc
  <2>1. procs # << >> /\ procs \in Seq(Proc)
    BY DEF TransportTyped
  <2>2. Len(procs) # 0
    BY <2>1, EmptySeq
  <2>. QED  BY <2>1, <2>2, ProcTyped DEF Awaited
<1>2. /\ p \in Package /\ a.package = p /\ a.exec = Awaited /\ a.ok = ok /\ a.at = age
      /\ a \in Result
  BY <1>1 DEF Answer, Result, TransportTyped, Proc
<1>. HIDE DEF a
<1>3. raw' = raw \union {a}
  BY DEF a
<1>4. /\ Execs' = Execs /\ Awaited' = Awaited /\ Len(procs') = Len(procs)
      /\ \A q \in Package : LaunchesOf(q)' = LaunchesOf(q)
      /\ \A e \in Execs : procs'[e].package = procs[e].package
  BY TouchedKeepsLaunches DEF Touched
<1>5. TransportTyped'
  BY <1>2, <1>3 DEF TransportTyped, Touched
<1>6. Once'
  BY <1>2, <1>3 DEF Once
<1>7. \A q \in Package : Begun(q)' <=> Begun(q)
  BY <1>2, <1>3 DEF Begun
<1>8. Budget'
  BY <1>7 DEF Budget
<1>9. Counted'
  BY <1>4, <1>7 DEF Counted
<1>10. \A e \in Execs : procs'[e].code = "zero" => procs'[e].does.output <= Capacity
  BY DEF Fits, Touched
<1>11. \A r \in raw : r.exec # Awaited
  BY <1>1 DEF Answered, TransportTyped, Result
<1>12. Answered'
  <2>1. \A r \in raw : /\ r.exec <= Len(procs')
                       /\ r.exec \in Execs /\ ~r.ok /\ Alive(r.exec)' => r.at > Timeout
    BY <1>4, <1>11 DEF Answered, Alive
  <2>2. /\ a.exec <= Len(procs')
        /\ ~a.ok /\ procs'[a.exec].code = "none" => a.at > Timeout
    BY <1>1, <1>2, <1>4
  <2>3. \A r \in raw' : /\ r.exec <= Len(procs')
                        /\ r.exec \in Execs /\ ~r.ok /\ Alive(r.exec)' => r.at > Timeout
    BY <1>3, <2>1, <2>2 DEF Alive
  <2>. QED  BY <1>4, <2>3 DEF Answered
<1>13. VerdictFits'
  <2>1. ok => procs'[Awaited].does.output <= Capacity
    BY <1>1, <1>10
  <2>2. ~ok /\ procs'[Awaited].code = "zero" => age > Timeout
    OBVIOUS
  <2>3. \A r \in raw : r.exec \in Execs => procs'[r.exec] = procs[r.exec]
    BY <1>11
  <2>. QED  BY <1>1, <1>2, <1>3, <1>4, <2>1, <2>2, <2>3 DEF VerdictFits
<1>14. Fits'
  BY <1>4, <1>10 DEF Fits
<1>15. LiveAreWatched'
  BY <1>1, <1>4 DEF LiveAreWatched, Alive, Waiting
<1>. QED  BY <1>5, <1>6, <1>8, <1>9, <1>12, <1>13, <1>14, <1>15

LEMMA WaitedFor ==
  ASSUME TransportInv, pc = "waiting"
  PROVE  /\ Awaited \in Execs /\ Awaited = Len(procs) /\ Execs = 1 .. Len(procs)
         /\ procs \in Seq(Proc) /\ \A e \in Execs : procs[e] \in Proc
         /\ procs[Awaited].fate = "watched"
<1>1. procs # << >> /\ procs \in Seq(Proc)
  BY DEF TransportInv, TransportTyped
<1>2. Len(procs) # 0
  BY <1>1, EmptySeq
<1>. QED  BY <1>1, <1>2, ProcTyped DEF Awaited, TransportInv, Fits

\* Changing the fate or the exit code of one running process.
LEMMA OneTouched ==
  ASSUME TransportInv, NEW e \in Execs, NEW new \in Proc,
         procs' = [procs EXCEPT ![e] = new],
         new.package = procs[e].package, new.does = procs[e].does,
         Alive(e) \/ new.code = procs[e].code,
         new.code = "zero" => new.does.output <= Capacity
  PROVE  /\ Touched
         /\ procs'[e] = new
         /\ \A f \in Execs : f # e => procs'[f] = procs[f]
<1>1. procs \in Seq(Proc) /\ Execs = 1 .. Len(procs)
  BY ProcTyped DEF TransportInv, TransportTyped
<1>2. /\ procs' \in Seq(Proc) /\ Len(procs') = Len(procs)
      /\ \A f \in Execs : procs'[f] = IF f = e THEN new ELSE procs[f]
  BY <1>1, ExceptSeq
<1>3. \A f \in Execs : procs'[f].code = "zero" /\ Alive(f) => procs[f].does.output <= Capacity
  BY <1>2 DEF Alive
<1>. QED  BY <1>2, <1>3 DEF Touched

LEMMA TimedOutKeeps ==
  ASSUME TransportInv, TimedOut
  PROVE  TransportInv'
<1>. DEFINE new == [procs[Awaited] EXCEPT !.fate = "signalled"]
<1>1. /\ Awaited \in Execs /\ procs[Awaited] \in Proc /\ procs[Awaited].fate = "watched"
      /\ Awaited = Len(procs) /\ Execs = 1 .. Len(procs)
  BY WaitedFor DEF TimedOut
<1>2. /\ new \in Proc /\ new.package = procs[Awaited].package
      /\ new.does = procs[Awaited].does /\ new.code = procs[Awaited].code
      /\ new.fate = "signalled"
  BY <1>1 DEF Proc
<1>3. procs' = [procs EXCEPT ![Awaited] = new]
  BY DEF TimedOut
<1>. HIDE DEF new
<1>4. new.code = "zero" => new.does.output <= Capacity
  BY <1>1, <1>2 DEF TransportInv, Fits
<1>5. /\ Touched /\ procs'[Awaited] = new
      /\ \A f \in Execs : f # Awaited => procs'[f] = procs[f]
  BY <1>1, <1>2, <1>3, <1>4, OneTouched
<1>. QED  BY <1>1, <1>2, <1>5, AnsweredKeeps DEF TimedOut

LEMMA CollectedKeeps ==
  ASSUME TransportInv, Collected
  PROVE  TransportInv'
<1>. DEFINE ok == procs[Awaited].code = "zero"
<1>1. /\ Awaited \in Execs /\ procs[Awaited] \in Proc /\ procs[Awaited].fate = "watched"
  BY WaitedFor DEF Collected
<1>2. ok \in BOOLEAN /\ procs[Awaited].does.malformed \in BOOLEAN
  BY <1>1, TransportAssumption DEF Proc, Behaviours
<1>3. /\ Touched /\ procs' = procs
  BY UnchangedTouches DEF Collected
<1>4. ~ok => procs[Awaited].code = "nonzero"
  BY <1>1 DEF Collected, Alive, Proc
<1>5. ~Alive(Awaited)' /\ procs'[Awaited] = procs[Awaited]
  BY <1>3 DEF Collected, Alive, Awaited
<1>. QED  BY <1>1, <1>2, <1>3, <1>4, <1>5, AnsweredKeeps DEF Collected

LEMMA RaisedKeeps ==
  ASSUME TransportInv,
         PipeHeld \/ NormalizeRaises \/ \E p \in Package : ExecutorNotFound(p)
  PROVE  TransportInv'
BY LosingKeeps DEF PipeHeld, NormalizeRaises, ExecutorNotFound

LEMMA VerifyKeeps ==
  ASSUME TransportInv, Verify
  PROVE  TransportInv'
<1>. USE DEF TransportInv
<1>1. /\ pc = "verifying" /\ pc' = "idle" /\ todo = {} /\ raw' = {}
      /\ procs' = procs /\ todo' = todo /\ age' = age /\ lost' = lost
  BY DEF Verify, Once
<1>. DEFINE of(p) == CHOOSE r \in raw : r.package = p
<1>2. \A p \in Package : Begun(p) =>
        of(p) \in raw /\ of(p).package = p
  BY <1>1 DEF Begun
<1>3. /\ lost \in Nat /\ MaxAttempts \in Nat
      /\ \A p \in Package : /\ ledger[p] \in Entry /\ ledger[p].attempts \in Nat
                            /\ ledger[p].attempts <= MaxAttempts
                            /\ ledger[p].status = "ready" => ledger[p].attempts < MaxAttempts
                            /\ Begun(p) => ledger[p].attempts < MaxAttempts
  BY TransportAssumption DEF TransportTyped, Budget, Entry
<1>4. /\ ledger' = [p \in Package |-> IF Begun(p) THEN Settled(of(p)) ELSE ledger[p]]
      /\ \A p \in Package : ~Begun(p)'
  BY <1>1 DEF Verify, Begun
<1>. HIDE DEF of
<1>5. \A p \in Package : Begun(p) =>
        /\ Settled(of(p)) \in Entry
        /\ Settled(of(p)).attempts = ledger[p].attempts + 1
        /\ Settled(of(p)).status = "ready" => ledger[p].attempts + 1 < MaxAttempts
  BY <1>2, <1>3 DEF Settled, Entry
<1>6. \A p \in Package :
        /\ ledger'[p] \in Entry
        /\ ledger'[p].attempts = ledger[p].attempts + (IF Begun(p) THEN 1 ELSE 0)
        /\ ledger'[p].attempts <= MaxAttempts
        /\ ledger'[p].status = "ready" => ledger'[p].attempts < MaxAttempts
  BY <1>3, <1>4, <1>5
<1>7. TransportTyped'
  BY <1>1, <1>4, <1>6 DEF TransportTyped
<1>8. Once'
  BY <1>1 DEF Once
<1>9. Budget'
  BY <1>1, <1>4, <1>6 DEF Budget
<1>10. Counted'
  <2>1. \A p \in Package : LaunchesOf(p)' = LaunchesOf(p)
    BY <1>1 DEF LaunchesOf, Execs
  <2>2. \A p \in Package : Cardinality(LaunchesOf(p)) \in Nat
    BY FS_CardinalityType DEF Counted
  <2>. QED  BY <1>1, <1>3, <1>4, <1>6, <2>1, <2>2 DEF Counted
<1>11. Answered' /\ VerdictFits'
  BY <1>1 DEF Answered, VerdictFits
<1>12. Fits' /\ LiveAreWatched'
  BY <1>1 DEF Fits, LiveAreWatched, Execs, Alive, Waiting
<1>. QED  BY <1>7, <1>8, <1>9, <1>10, <1>11, <1>12

LEMMA CrashKeeps ==
  ASSUME TransportInv, Crash
  PROVE  TransportInv'
<1>1. /\ procs \in Seq(Proc) /\ Execs = 1 .. Len(procs) /\ Len(procs) \in Nat
      /\ \A e \in Execs : procs[e] \in Proc
  BY ProcTyped DEF TransportInv, TransportTyped
<1>. DEFINE left(e) == IF Alive(e) /\ procs[e].fate = "watched"
                       THEN [procs[e] EXCEPT !.fate = "orphan"] ELSE procs[e]
<1>2. \A e \in Execs :
        /\ left(e) \in Proc /\ left(e).package = procs[e].package
        /\ left(e).does = procs[e].does /\ left(e).code = procs[e].code
        /\ Alive(e) => left(e).fate # "watched"
  BY <1>1 DEF Proc
<1>. HIDE DEF left
<1>3. procs' = [e \in 1 .. Len(procs) |-> left(e)]
  BY <1>1 DEF Crash, left
<1>4. /\ procs' \in Seq(Proc) /\ Len(procs') = Len(procs)
      /\ \A e \in Execs : procs'[e] = left(e)
  <2>1. procs' \in [1 .. Len(procs) -> Proc]
    BY <1>1, <1>2, <1>3
  <2>2. procs' \in Seq(Proc)
    BY <1>1, <2>1, SeqDef
  <2>3. DOMAIN procs' = 1 .. Len(procs')  /\ Len(procs') \in Nat
    BY <2>2, LenProperties
  <2>4. 1 .. Len(procs') = 1 .. Len(procs)
    BY <1>3, <2>3
  <2>5. Len(procs') = Len(procs)
    BY <1>1, <2>3, <2>4
  <2>. QED  BY <1>1, <1>3, <2>2, <2>5
<1>5. Touched
  BY <1>2, <1>4 DEF Touched, Alive
<1>6. \A e \in Execs : Alive(e)' => procs'[e].fate # "watched"
  BY <1>2, <1>4 DEF Alive
<1>. QED  BY <1>5, <1>6, LostKeeps DEF Crash

-----------------------------------------------------------------------------
(* The executors *)

\* A running executor ends: its result, if it has one by now, was late.
LEMMA EndedKeeps ==
  ASSUME TransportInv, NEW e \in Execs, NEW code \in {"zero", "nonzero"},
         Alive(e),
         code = "zero" => procs[e].does.output <= Capacity,
         procs' = [procs EXCEPT ![e].code = code],
         UNCHANGED <<pc, todo, age, raw, ledger, lost>>
  PROVE  TransportInv'
<1>. USE DEF TransportInv
<1>. DEFINE new == [procs[e] EXCEPT !.code = code]
<1>1. /\ procs \in Seq(Proc) /\ Execs = 1 .. Len(procs) /\ Len(procs) \in Nat
      /\ \A f \in Execs : procs[f] \in Proc
  BY ProcTyped DEF TransportTyped
<1>2. /\ new \in Proc /\ new.package = procs[e].package /\ new.fate = procs[e].fate
      /\ new.does = procs[e].does /\ new.code = code
  BY <1>1 DEF Proc
<1>3. procs' = [procs EXCEPT ![e] = new]
  OBVIOUS
<1>. HIDE DEF new
<1>4. /\ Touched /\ procs'[e] = new
      /\ \A f \in Execs : f # e => procs'[f] = procs[f]
  BY <1>2, <1>3, OneTouched
<1>5. /\ Execs' = Execs /\ Awaited' = Awaited /\ Len(procs') = Len(procs)
      /\ \A q \in Package : LaunchesOf(q)' = LaunchesOf(q)
      /\ \A f \in Execs : procs'[f].package = procs[f].package
                          /\ procs'[f].fate = procs[f].fate
                          /\ procs'[f].does = procs[f].does
  BY <1>2, <1>4, TouchedKeepsLaunches DEF Touched
<1>6. pc = "waiting" => Awaited \in Execs
  BY WaitedFor
<1>7. TransportTyped'
  <2>1. procs # << >> => procs' # << >>
    BY <1>1, <1>5, EmptySeq DEF Touched
  <2>. QED  BY <1>4, <2>1 DEF TransportTyped, Touched
<1>8. Once'
  BY <1>5, <1>6 DEF Once
<1>9. \A q \in Package : Begun(q)' <=> Begun(q)
  BY <1>5, <1>6 DEF Begun
<1>10. Budget'
  BY <1>9 DEF Budget
<1>11. Counted'
  BY <1>5, <1>9 DEF Counted
<1>12. Fits'
  <2>1. \A f \in Execs : procs'[f].code = "zero" => procs'[f].does.output <= Capacity
    BY <1>2, <1>4 DEF Fits
  <2>. QED  BY <1>5, <1>6, <2>1 DEF Fits
<1>13. Answered'
  <2>1. \A f \in Execs : Alive(f)' => Alive(f)
    BY <1>2, <1>4 DEF Alive
  <2>. QED  BY <1>5, <2>1 DEF Answered
<1>14. VerdictFits'
  <2>1. \A r \in raw : r.ok => /\ r.exec \in Execs /\ r.exec # e
    BY DEF VerdictFits, Alive
  <2>2. \A r \in raw : r.exec = e => ~r.ok /\ r.at > Timeout
    BY <2>1 DEF Answered
  <2>. QED  BY <1>4, <1>5, <2>1, <2>2 DEF VerdictFits
<1>15. LiveAreWatched'
  BY <1>2, <1>4, <1>5 DEF LiveAreWatched, Alive, Waiting
<1>. QED  BY <1>7, <1>8, <1>10, <1>11, <1>12, <1>13, <1>14, <1>15

LEMMA ExecutorKeeps ==
  ASSUME TransportInv, NEW e \in Execs, Executor(e)
  PROVE  TransportInv'
<1>1. CASE Exits(e)
  BY <1>1, EndedKeeps DEF Exits
<1>2. CASE Terminated(e)
  BY <1>2, EndedKeeps DEF Terminated
<1>. QED  BY <1>1, <1>2 DEF Executor

-----------------------------------------------------------------------------
LEMMA InitInv == Init => TransportInv
<1>. SUFFICES ASSUME Init PROVE TransportInv
  OBVIOUS
<1>1. /\ procs = << >> /\ procs \in Seq(Proc) /\ Len(procs) = 0 /\ Execs = {}
      /\ pc = "idle" /\ todo = {} /\ age = 0 /\ raw = {} /\ lost = 0
  BY EmptySeq DEF Init, Execs
<1>2. TransportTyped
  BY <1>1 DEF Init, TransportTyped, Entry
<1>3. Once /\ Answered /\ VerdictFits /\ Fits /\ LiveAreWatched
  BY <1>1 DEF Once, Answered, VerdictFits, Fits, LiveAreWatched
<1>4. \A p \in Package : ~Begun(p) /\ ledger[p].attempts = 0
  BY <1>1 DEF Begun, Init
<1>5. Budget
  BY <1>1, <1>4, TransportAssumption DEF Budget
<1>6. Counted
  <2>. SUFFICES ASSUME NEW p \in Package
                PROVE  /\ IsFiniteSet(LaunchesOf(p))
                       /\ Cardinality(LaunchesOf(p)) <=
                            ledger[p].attempts + lost + (IF Begun(p) THEN 1 ELSE 0)
    BY DEF Counted
  <2>1. LaunchesOf(p) = {}
    BY <1>1 DEF LaunchesOf
  <2>2. IsFiniteSet(LaunchesOf(p)) /\ Cardinality(LaunchesOf(p)) = 0
    BY <2>1, FS_EmptySet
  <2>3. ledger[p].attempts = 0 /\ lost = 0 /\ ~Begun(p)
    BY <1>1, <1>4
  <2>. QED  BY <2>2, <2>3
<1>. QED  BY <1>2, <1>3, <1>5, <1>6 DEF TransportInv

LEMMA NextKeeps ==
  ASSUME TransportInv, [Next]_vars
  PROVE  TransportInv'
<1>1. CASE Begin
  BY <1>1, BeginKeeps
<1>2. CASE Cycle
  <2>1. CASE \E p \in Package : Dispatch(p)
    BY <2>1, NotConfiguredKeeps, RaisedKeeps, SubmitKeeps DEF Dispatch
  <2>2. CASE Poll
    BY <2>2, TimedOutKeeps, CollectedKeeps, RaisedKeeps DEF Poll
  <2>3. CASE DispatchDone
    BY <2>3, SleepKeeps
  <2>4. CASE Verify
    BY <2>4, VerifyKeeps
  <2>5. CASE NormalizeRaises
    BY <2>5, RaisedKeeps
  <2>. QED  BY <1>2, <2>1, <2>2, <2>3, <2>4, <2>5 DEF Cycle
<1>3. CASE Sleep
  BY <1>3, SleepKeeps
<1>4. CASE Crash
  BY <1>4, CrashKeeps
<1>5. CASE \E e \in Execs : Executor(e)
  BY <1>5, ExecutorKeeps
<1>6. CASE UNCHANGED vars
  BY <1>6 DEF vars, TransportInv, TransportTyped, Once, Budget, Counted, Answered,
              Fits, LiveAreWatched, VerdictFits, Begun, LaunchesOf, Execs, Alive,
              Awaited, Waiting
<1>. QED  BY <1>1, <1>2, <1>3, <1>4, <1>5, <1>6 DEF Next

LEMMA AlwaysTransportInv == Spec => []TransportInv
BY InitInv, NextKeeps, PTL DEF Spec

-----------------------------------------------------------------------------
(* The theorems *)

\* Every variable keeps its type.
THEOREM TransportTypeCorrect == Spec => []TransportTyped
BY AlwaysTransportInv, PTL DEF TransportInv

\* An executor that still runs is polled, was sent SIGTERM by poll's deadline,
\* or survived a crash of devforge: no path through _run_subprocess_request
\* forgets one.
THEOREM ExecutorsWatched == Spec => []LiveAreWatched
BY AlwaysTransportInv, PTL DEF TransportInv

\* A package is never completed on the exit code of another process, of one
\* that was signalled, or of one whose output a pipe cannot hold; an exit code
\* of 0 is reported as a failure only after the deadline.
THEOREM VerdictsTrue == Spec => []VerdictFits
BY AlwaysTransportInv, PTL DEF TransportInv

\* max_attempts bounds the processes a package costs, but for lost cycles,
\* whose attempts no one has counted.
THEOREM LaunchesAreBounded == Spec => []LaunchesBounded
<1>1. TransportInv => LaunchesBounded
  <2>. SUFFICES ASSUME TransportInv, NEW p \in Package
                PROVE  Cardinality(LaunchesOf(p)) <= MaxAttempts + lost
    BY DEF LaunchesBounded
  <2>1. /\ Cardinality(LaunchesOf(p)) \in Nat /\ lost \in Nat
        /\ ledger[p].attempts \in Nat /\ MaxAttempts \in Nat
    BY FS_CardinalityType, TransportAssumption DEF TransportInv, Counted, TransportTyped, Entry
  <2>2. /\ ledger[p].attempts <= MaxAttempts
        /\ Begun(p) => ledger[p].attempts < MaxAttempts
        /\ Cardinality(LaunchesOf(p)) <=
             ledger[p].attempts + lost + (IF Begun(p) THEN 1 ELSE 0)
    BY DEF TransportInv, Budget, Counted
  <2>. QED  BY <2>1, <2>2
<1>. QED  BY <1>1, AlwaysTransportInv, PTL

=============================================================================
