-------------------------- MODULE MetaGraph_proofs --------------------------
(***************************************************************************)
(* For all designs, language-model answers and call orders: the search for *)
(* dependency cycles is right, design_valid is about the design that was   *)
(* validated last, and what the nodes write has its type, the number of    *)
(* closures included.                                                      *)
(***************************************************************************)
EXTENDS MetaGraph, SequenceTheorems, TLAPS

SearchTyped ==
  /\ Known \subseteq Domain
  /\ adj \in [Known -> SUBSET Domain]
  /\ colour \in [Known -> {"white", "grey", "black"}]
  /\ stack \in Seq(Known)
  /\ rest \in [Known -> SUBSET Domain]
  /\ \A v \in Known : rest[v] \subseteq adj[v]

\* The grey domains are those in stack, each once.
GreyOnStack ==
  /\ \A i \in 1 .. Len(stack) : colour[stack[i]] = "grey"
  /\ \A v \in Known : colour[v] = "grey" => \E i \in 1 .. Len(stack) : stack[i] = v
  /\ \A i, j \in 1 .. Len(stack) : stack[i] = stack[j] => i = j

\* stack is a path of dependencies.
Path == \A i \in 1 .. Len(stack) - 1 : stack[i + 1] \in adj[stack[i]]

Untouched == \A v \in Known : colour[v] = "white" => rest[v] = adj[v]

\* What is reported is a cycle.
Reported ==
  \A c \in cycles : /\ c # {}
                    /\ \A x \in c : \E y \in c : y \in adj[x]
                    /\ c \subseteq Known

\* While nothing was reported, a dependency that had its turn is black, or is
\* being visited next on the path.
Handled ==
  cycles = {} =>
    /\ \A v \in Known : colour[v] = "black" =>
         \A w \in adj[v] \cap Known : colour[w] = "black"
    /\ \A i \in 1 .. Len(stack) :
         \A w \in (adj[stack[i]] \ rest[stack[i]]) \cap Known :
           colour[w] = "black" \/ (i < Len(stack) /\ w = stack[i + 1])

Black == {v \in Known : colour[v] = "black"}

\* While nothing was reported, the black domains have no cycle among them.
BlackAcyclic ==
  cycles = {} => \A T \in SUBSET Black : T # {} => \E t \in T : adj[t] \cap T = {}

SearchInv ==
  /\ SearchTyped
  /\ GreyOnStack
  /\ Path
  /\ Untouched
  /\ Reported
  /\ Handled
  /\ BlackAcyclic

-----------------------------------------------------------------------------
(* The search *)

LEMMA StackTyped ==
  ASSUME SearchTyped
  PROVE  /\ Len(stack) \in Nat
         /\ \A i \in 1 .. Len(stack) : stack[i] \in Known
         /\ stack # << >> => Len(stack) \in 1 .. Len(stack) /\ Top \in Known
<1>1. stack \in Seq(Known) /\ Len(stack) \in Nat
  BY LenProperties DEF SearchTyped
<1>2. \A i \in 1 .. Len(stack) : stack[i] \in Known
  BY <1>1, ElementOfSeq
<1>3. stack # << >> => Len(stack) # 0
  BY <1>1, EmptySeq
<1>. QED  BY <1>1, <1>2, <1>3 DEF Top

LEMMA SearchStarts ==
  ASSUME NEW g \in DomainGraphs, Search(g)
  PROVE  SearchInv'
<1>1. PICK K \in SUBSET Domain : g \in [K -> SUBSET Domain]
  BY DEF DomainGraphs
<1>2. /\ adj' = g /\ Known' = K /\ rest' = g /\ cycles' = {} /\ stack' = << >>
      /\ colour' = [d \in K |-> "white"] /\ Len(stack') = 0 /\ stack' \in Seq(K)
  BY <1>1, EmptySeq DEF Search, Known
<1>3. SearchTyped'
  BY <1>1, <1>2 DEF SearchTyped
<1>4. GreyOnStack' /\ Path' /\ Untouched' /\ Reported' /\ Handled'
  BY <1>1, <1>2 DEF GreyOnStack, Path, Untouched, Reported, Handled
<1>5. Black' = {}
  BY <1>1, <1>2 DEF Black
<1>6. BlackAcyclic'
  BY <1>5 DEF BlackAcyclic
<1>. QED  BY <1>3, <1>4, <1>6 DEF SearchInv

\* A white domain is pushed: a root, or a neighbour of the last one.
LEMMA EnterKeeps ==
  ASSUME SearchInv, NEW v \in Known, colour[v] = "white", Enter(v),
         UNCHANGED <<adj, cycles>>,
         \/ stack = << >> /\ rest' = rest
         \/ /\ stack # << >> /\ v \in rest[Top]
            /\ rest' = [rest EXCEPT ![Top] = @ \ {v}]
  PROVE  SearchInv'
<1>. USE DEF SearchInv
<1>. DEFINE n == Len(stack)
<1>1. /\ n \in Nat /\ \A i \in 1 .. n : stack[i] \in Known
      /\ stack # << >> => n \in 1 .. n /\ Top \in Known
  BY StackTyped
<1>2. /\ stack \in Seq(Known) /\ adj \in [Known -> SUBSET Domain] /\ Known \subseteq Domain
      /\ colour \in [Known -> {"white", "grey", "black"}]
      /\ rest \in [Known -> SUBSET Domain]
      /\ \A u \in Known : rest[u] \subseteq adj[u]
  BY DEF SearchTyped
<1>3. adj' = adj /\ cycles' = cycles /\ Known' = Known
  BY DEF Known
<1>4. /\ stack' \in Seq(Known) /\ Len(stack') = n + 1 /\ stack'[n + 1] = v
      /\ \A i \in 1 .. n : stack'[i] = stack[i]
  BY <1>2, AppendProperties DEF Enter
<1>5. /\ colour' \in [Known -> {"white", "grey", "black"}] /\ colour'[v] = "grey"
      /\ \A u \in Known : u # v => colour'[u] = colour[u]
  BY <1>2 DEF Enter
<1>6. /\ rest' \in [Known -> SUBSET Domain]
      /\ \A u \in Known : rest'[u] \subseteq rest[u]
      /\ \A u \in Known : (n = 0 \/ u # stack[n]) => rest'[u] = rest[u]
      /\ n # 0 => v \in adj[stack[n]] /\ rest'[stack[n]] = rest[stack[n]] \ {v}
  <2>1. CASE stack = << >> /\ rest' = rest
    <3>1. n = 0
      BY <2>1
    <3>. QED  BY <1>2, <2>1, <3>1
  <2>2. CASE /\ stack # << >> /\ v \in rest[Top]
             /\ rest' = [rest EXCEPT ![Top] = @ \ {v}]
    BY <1>1, <1>2, <2>2 DEF Top
  <2>. QED  BY <2>1, <2>2
<1>7. \A i \in 1 .. n : stack[i] # v
  BY DEF GreyOnStack
<1>. HIDE DEF n
<1>8. SearchTyped'
  BY <1>2, <1>3, <1>4, <1>5, <1>6 DEF SearchTyped
<1>9. GreyOnStack'
  <2>1. \A i \in 1 .. n : colour[stack[i]] = "grey"
    BY DEF GreyOnStack, n
  <2>2. \A u \in Known : colour[u] = "grey" => \E i \in 1 .. n : stack[i] = u
    BY DEF GreyOnStack, n
  <2>3. \A i, j \in 1 .. n : stack[i] = stack[j] => i = j
    BY DEF GreyOnStack, n
  <2>4. \A i \in 1 .. n + 1 : colour'[stack'[i]] = "grey"
    BY <1>1, <1>4, <1>5, <1>7, <2>1
  <2>5. \A u \in Known : colour'[u] = "grey" => \E i \in 1 .. n + 1 : stack'[i] = u
    <3>. SUFFICES ASSUME NEW u \in Known, colour'[u] = "grey"
                  PROVE  \E i \in 1 .. n + 1 : stack'[i] = u
      OBVIOUS
    <3>1. CASE u = v
      BY <3>1, <1>1, <1>4
    <3>2. CASE u # v
      <4>1. PICK i \in 1 .. n : stack[i] = u
        BY <3>2, <1>5, <2>2
      <4>. QED  BY <4>1, <1>1, <1>4
    <3>. QED  BY <3>1, <3>2
  <2>6. \A i, j \in 1 .. n + 1 : stack'[i] = stack'[j] => i = j
    BY <1>1, <1>4, <1>7, <2>3
  <2>. QED  BY <1>3, <1>4, <2>4, <2>5, <2>6 DEF GreyOnStack
<1>10. Path'
  <2>1. \A i \in 1 .. n - 1 : stack[i + 1] \in adj[stack[i]]
    BY DEF Path, n
  <2>2. \A i \in 1 .. n : stack'[i + 1] \in adj[stack'[i]]
    BY <1>1, <1>4, <1>6, <2>1
  <2>. QED  BY <1>1, <1>3, <1>4, <2>2 DEF Path
<1>11. Untouched'
  <2>1. \A u \in Known : colour[u] = "white" => rest[u] = adj[u]
    BY DEF Untouched
  <2>2. n # 0 => colour[stack[n]] = "grey" /\ n \in 1 .. n
    BY <1>1 DEF GreyOnStack, n
  <2>3. \A u \in Known : colour'[u] = "white" => rest'[u] = adj[u]
    BY <1>5, <1>6, <2>1, <2>2
  <2>. QED  BY <1>3, <2>3 DEF Untouched
<1>12. Reported'
  BY <1>3 DEF Reported
<1>13. Black' = Black
  BY <1>3, <1>5 DEF Black
<1>14. Handled'
  <2>. SUFFICES ASSUME cycles = {} PROVE Handled'
    BY <1>3 DEF Handled
  <2>1. \A u \in Known : colour'[u] = "black" <=> colour[u] = "black"
    BY <1>5
  <2>2. \A u \in Known : colour[u] = "black" =>
          \A w \in adj[u] \cap Known : colour[w] = "black"
    BY DEF Handled
  <2>3. \A i \in 1 .. n : \A w \in (adj[stack[i]] \ rest[stack[i]]) \cap Known :
          colour[w] = "black" \/ (i < n /\ w = stack[i + 1])
    BY DEF Handled, n
  <2>4. \A i \in 1 .. n + 1 : \A w \in (adj[stack'[i]] \ rest'[stack'[i]]) \cap Known :
          colour[w] = "black" \/ (i < n + 1 /\ w = stack'[i + 1])
    <3>. SUFFICES ASSUME NEW i \in 1 .. n + 1,
                         NEW w \in (adj[stack'[i]] \ rest'[stack'[i]]) \cap Known
                  PROVE  colour[w] = "black" \/ (i < n + 1 /\ w = stack'[i + 1])
      OBVIOUS
    <3>1. CASE i = n + 1
      <4>1. rest'[v] = rest[v]
        <5>1. n # 0 => n \in 1 .. n
          BY <1>1
        <5>. QED  BY <1>6, <1>7, <5>1
      <4>2. rest[v] = adj[v]
        BY DEF Untouched
      <4>. QED  BY <3>1, <1>4, <4>1, <4>2
    <3>2. CASE i \in 1 .. n /\ i # n
      <4>1. n # 0 /\ stack[n] # stack[i] /\ n \in 1 .. n
        BY <1>1, <3>2 DEF GreyOnStack, n
      <4>2. rest'[stack[i]] = rest[stack[i]] /\ stack'[i] = stack[i]
        BY <1>1, <1>4, <1>6, <3>2, <4>1
      <4>3. i + 1 \in 1 .. n /\ i < n
        BY <1>1, <3>2
      <4>4. stack'[i + 1] = stack[i + 1]
        BY <1>4, <4>3
      <4>. QED  BY <1>1, <2>3, <3>2, <4>2, <4>3, <4>4
    <3>3. CASE i \in 1 .. n /\ i = n
      <4>1. stack'[i] = stack[n] /\ rest'[stack[n]] = rest[stack[n]] \ {v} /\ stack'[i + 1] = v
        BY <1>1, <1>4, <1>6, <3>3
      <4>2. CASE w = v
        BY <1>1, <3>3, <4>1, <4>2
      <4>3. CASE w # v
        <5>1. w \in (adj[stack[i]] \ rest[stack[i]]) \cap Known
          BY <3>3, <4>1, <4>3
        <5>. QED  BY <1>1, <2>3, <3>3, <5>1
      <4>. QED  BY <4>2, <4>3
    <3>. QED  BY <1>1, <3>1, <3>2, <3>3
  <2>5. \A i \in 1 .. n + 1 : stack'[i] \in Known
    BY <1>1, <1>4
  <2>. QED  BY <1>3, <1>4, <2>1, <2>2, <2>4 DEF Handled
<1>15. BlackAcyclic'
  BY <1>3, <1>13 DEF BlackAcyclic
<1>. QED  BY <1>8, <1>9, <1>10, <1>11, <1>12, <1>14, <1>15

\* A neighbour is passed over, or closes a cycle that is reported.
LEMMA PassKeeps ==
  ASSUME SearchInv, NEW w \in Domain, stack # << >>, w \in rest[Top],
         rest' = [rest EXCEPT ![Top] = @ \ {w}],
         UNCHANGED <<adj, colour, stack>>,
         \/ (w \in Known => colour[w] = "black") /\ cycles' = cycles
         \/ w \in Known /\ colour[w] = "grey" /\ cycles' = cycles \union {Segment(w)}
  PROVE  SearchInv'
<1>. USE DEF SearchInv
<1>. DEFINE n == Len(stack)
<1>1. /\ n \in Nat /\ \A i \in 1 .. n : stack[i] \in Known
      /\ n \in 1 .. n /\ Top \in Known /\ Top = stack[n]
  BY StackTyped DEF Top
<1>2. /\ adj' = adj /\ colour' = colour /\ stack' = stack /\ Known' = Known /\ Black' = Black
  BY DEF Known, Black
<1>3. /\ rest \in [Known -> SUBSET Domain]
      /\ \A u \in Known : rest[u] \subseteq adj[u]
      /\ adj \in [Known -> SUBSET Domain]
  BY DEF SearchTyped
<1>4. /\ rest' \in [Known -> SUBSET Domain]
      /\ \A u \in Known : rest'[u] \subseteq rest[u]
      /\ \A u \in Known : u # Top => rest'[u] = rest[u]
      /\ rest'[Top] = rest[Top] \ {w}
  BY <1>1, <1>3
<1>5. SearchTyped'
  BY <1>2, <1>3, <1>4 DEF SearchTyped
<1>6. GreyOnStack' /\ Path'
  BY <1>2 DEF GreyOnStack, Path
<1>7. Untouched'
  <2>1. colour[Top] = "grey"
    BY <1>1 DEF GreyOnStack
  <2>. QED  BY <1>2, <1>4, <2>1 DEF Untouched
<1>8. CASE (w \in Known => colour[w] = "black") /\ cycles' = cycles
  <2>1. Reported' /\ BlackAcyclic'
    BY <1>2, <1>8 DEF Reported, BlackAcyclic
  <2>2. Handled'
    <3>1. \A i \in 1 .. n : \A x \in (adj[stack[i]] \ rest'[stack[i]]) \cap Known :
            x \in (adj[stack[i]] \ rest[stack[i]]) \/ colour[x] = "black"
      BY <1>1, <1>4, <1>8
    <3>. QED  BY <1>2, <1>8, <3>1 DEF Handled
  <2>. QED  BY <1>5, <1>6, <1>7, <2>1, <2>2
<1>9. CASE w \in Known /\ colour[w] = "grey" /\ cycles' = cycles \union {Segment(w)}
  <2>. DEFINE c == Segment(w)
  <2>1. PICK i \in 1 .. n : stack[i] = w
    BY <1>9 DEF GreyOnStack
  <2>2. \A x : x \in c <=> \E j \in 1 .. n : x = stack[j] /\ \E k \in 1 .. j : stack[k] = w
    BY DEF Segment
  <2>3. w \in c
    BY <1>1, <2>1, <2>2
  <2>4. c \subseteq Known
    BY <1>1, <2>2
  <2>5. ASSUME NEW x \in c PROVE \E y \in c : y \in adj[x]
    <3>1. PICK j \in 1 .. n : x = stack[j] /\ \E k \in 1 .. j : stack[k] = w
      BY <2>2
    <3>2. CASE j = n
      <4>1. w \in adj[x]
        BY <1>1, <1>3, <3>1, <3>2
      <4>. QED  BY <2>3, <4>1
    <3>3. CASE j # n
      <4>1. j \in 1 .. n - 1 /\ j + 1 \in 1 .. n
        BY <1>1, <3>3
      <4>2. stack[j + 1] \in adj[x]
        BY <3>1, <4>1 DEF Path
      <4>3. PICK k \in 1 .. j : stack[k] = w
        BY <3>1
      <4>4. k \in 1 .. j + 1
        BY <4>1, <4>3
      <4>5. stack[j + 1] \in c
        BY <2>2, <4>1, <4>3, <4>4
      <4>. QED  BY <4>2, <4>5
    <3>. QED  BY <3>2, <3>3
  <2>. HIDE DEF c
  <2>6. cycles' = cycles \union {c}
    BY <1>9 DEF c
  <2>7. Reported'
    BY <1>2, <2>3, <2>4, <2>5, <2>6 DEF Reported
  <2>8. cycles' # {}
    BY <2>6
  <2>9. Handled' /\ BlackAcyclic'
    BY <2>8 DEF Handled, BlackAcyclic
  <2>. QED  BY <1>5, <1>6, <1>7, <2>7, <2>9
<1>. QED  BY <1>8, <1>9

LEMMA NeighbourKeeps ==
  ASSUME SearchInv, NEW w \in Domain, Neighbour(w)
  PROVE  SearchInv'
<1>1. /\ stack # << >> /\ w \in rest[Top] /\ rest' = [rest EXCEPT ![Top] = @ \ {w}]
      /\ adj' = adj
  BY DEF Neighbour
<1>2. CASE /\ w \in Known => colour[w] = "black"
           /\ UNCHANGED <<colour, stack, cycles>>
  BY <1>1, <1>2, PassKeeps
<1>3. CASE /\ w \in Known /\ colour[w] = "grey"
           /\ cycles' = cycles \union {Segment(w)}
           /\ UNCHANGED <<colour, stack>>
  BY <1>1, <1>3, PassKeeps
<1>4. CASE /\ w \in Known /\ colour[w] = "white"
           /\ Enter(w)
           /\ UNCHANGED cycles
  BY <1>1, <1>4, EnterKeeps
<1>. QED  BY <1>2, <1>3, <1>4 DEF Neighbour

\* The last domain of the path is done: with nothing reported, it depends on
\* black domains only, and so is on no cycle of black ones.
LEMMA LeaveKeeps ==
  ASSUME SearchInv, Leave
  PROVE  SearchInv'
<1>. USE DEF SearchInv
<1>. DEFINE n == Len(stack)
            v == stack[n]
<1>1. /\ n \in Nat /\ \A i \in 1 .. n : stack[i] \in Known
      /\ n \in 1 .. n /\ v \in Known /\ Top = v
  BY StackTyped DEF Leave, Top
<1>2. /\ stack' = SubSeq(stack, 1, n - 1) /\ colour' = [colour EXCEPT ![v] = "black"]
      /\ adj' = adj /\ rest' = rest /\ cycles' = cycles /\ Known' = Known
      /\ rest[v] = {}
  BY <1>1 DEF Leave, Known
<1>3. /\ colour \in [Known -> {"white", "grey", "black"}] /\ stack \in Seq(Known)
      /\ adj \in [Known -> SUBSET Domain]
  BY DEF SearchTyped
<1>4. /\ stack' \in Seq(Known) /\ Len(stack') = n - 1
      /\ \A i \in 1 .. n - 1 : stack'[i] = stack[i]
  <2>1. n - 1 \in Int /\ \A i \in 1 .. n - 1 : stack[i] \in Known
    BY <1>1
  <2>2. /\ SubSeq(stack, 1, n - 1) \in Seq(Known)
        /\ Len(SubSeq(stack, 1, n - 1)) = IF 1 <= n - 1 THEN n - 1 - 1 + 1 ELSE 0
        /\ \A i \in 1 .. n - 1 - 1 + 1 : SubSeq(stack, 1, n - 1)[i] = stack[1 + i - 1]
    BY <2>1, SubSeqProperties
  <2>. HIDE DEF n
  <2>. QED  BY <1>1, <1>2, <2>2
<1>5. /\ colour' \in [Known -> {"white", "grey", "black"}] /\ colour'[v] = "black"
      /\ \A u \in Known : u # v => colour'[u] = colour[u]
  BY <1>1, <1>2, <1>3
<1>6. /\ \A i \in 1 .. n : colour[stack[i]] = "grey"
      /\ \A u \in Known : colour[u] = "grey" => \E i \in 1 .. n : stack[i] = u
      /\ \A i, j \in 1 .. n : stack[i] = stack[j] => i = j
  BY DEF GreyOnStack
<1>7. \A i \in 1 .. n - 1 : i \in 1 .. n /\ stack[i] # v
  BY <1>1, <1>6
<1>. HIDE DEF n, v
<1>8. SearchTyped'
  BY <1>2, <1>4, <1>5 DEF SearchTyped
<1>9. GreyOnStack'
  <2>1. \A i \in 1 .. n - 1 : colour'[stack'[i]] = "grey"
    BY <1>1, <1>4, <1>5, <1>6, <1>7
  <2>2. \A u \in Known : colour'[u] = "grey" => \E i \in 1 .. n - 1 : stack'[i] = u
    <3>. SUFFICES ASSUME NEW u \in Known, colour'[u] = "grey"
                  PROVE  \E i \in 1 .. n - 1 : stack'[i] = u
      OBVIOUS
    <3>1. u # v /\ colour[u] = "grey"
      BY <1>5
    <3>2. PICK i \in 1 .. n : stack[i] = u
      BY <1>6, <3>1
    <3>3. i \in 1 .. n - 1
      BY <1>1, <3>1, <3>2 DEF v
    <3>. QED  BY <1>4, <3>2, <3>3
  <2>3. \A i, j \in 1 .. n - 1 : stack'[i] = stack'[j] => i = j
    BY <1>4, <1>6, <1>7
  <2>. QED  BY <1>2, <1>4, <2>1, <2>2, <2>3 DEF GreyOnStack
<1>10. Path'
  <2>1. \A i \in 1 .. n - 1 : stack[i + 1] \in adj[stack[i]]
    BY DEF Path, n
  <2>2. \A i \in 1 .. n - 1 - 1 : i \in 1 .. n - 1 /\ i + 1 \in 1 .. n - 1
    BY <1>1
  <2>3. \A i \in 1 .. n - 1 - 1 : stack'[i + 1] \in adj[stack'[i]]
    BY <1>4, <2>1, <2>2
  <2>. QED  BY <1>2, <1>4, <2>3 DEF Path
<1>11. Untouched'
  BY <1>2, <1>5 DEF Untouched
<1>12. Reported'
  BY <1>2 DEF Reported
<1>13. CASE cycles # {}
  BY <1>2, <1>8, <1>9, <1>10, <1>11, <1>12, <1>13 DEF Handled, BlackAcyclic
<1>14. CASE cycles = {}
  <2>1. \A u \in Known : colour[u] = "black" =>
          \A w \in adj[u] \cap Known : colour[w] = "black"
    BY <1>14 DEF Handled
  <2>2. \A i \in 1 .. n : \A w \in (adj[stack[i]] \ rest[stack[i]]) \cap Known :
          colour[w] = "black" \/ (i < n /\ w = stack[i + 1])
    BY <1>14 DEF Handled, n
  <2>3. \A w \in adj[v] \cap Known : colour[w] = "black"
    BY <1>1, <1>2, <2>2 DEF v
  <2>4. colour[v] # "black"
    BY <1>1, <1>6 DEF v
  <2>5. Handled'
    <3>1. \A u \in Known : colour'[u] = "black" =>
            \A w \in adj[u] \cap Known : colour'[w] = "black"
      BY <1>5, <2>1, <2>3
    <3>2. \A i \in 1 .. n - 1 : \A w \in (adj[stack'[i]] \ rest[stack'[i]]) \cap Known :
            colour'[w] = "black" \/ (i < n - 1 /\ w = stack'[i + 1])
      <4>. SUFFICES ASSUME NEW i \in 1 .. n - 1,
                           NEW w \in (adj[stack[i]] \ rest[stack[i]]) \cap Known
                    PROVE  colour'[w] = "black" \/ (i < n - 1 /\ w = stack'[i + 1])
        BY <1>4
      <4>1. colour[w] = "black" \/ w = stack[i + 1]
        BY <1>7, <2>2
      <4>2. CASE colour[w] = "black"
        BY <1>5, <2>4, <4>2
      <4>3. CASE w = stack[i + 1] /\ i + 1 = n
        BY <1>5, <4>3 DEF v
      <4>4. CASE w = stack[i + 1] /\ i + 1 # n
        <5>1. i + 1 \in 1 .. n - 1 /\ i < n - 1
          BY <1>1, <4>4
        <5>. QED  BY <1>4, <4>4, <5>1
      <4>. QED  BY <4>1, <4>2, <4>3, <4>4
    <3>. QED  BY <1>2, <1>4, <3>1, <3>2 DEF Handled
  <2>6. \A u : u \in Black' <=> u \in Black \/ u = v
    BY <1>1, <1>2, <1>5 DEF Black
  <2>7. ASSUME NEW T \in SUBSET Black', T # {} PROVE \E t \in T : adj[t] \cap T = {}
    <3>1. CASE T \cap Black = {}
      <4>1. T = {v}
        BY <2>6, <2>7, <3>1
      <4>2. v \notin adj[v]
        BY <1>1, <2>3, <2>4
      <4>. QED  BY <4>1, <4>2
    <3>2. CASE T \cap Black # {}
      <4>1. PICK t \in T \cap Black : adj[t] \cap (T \cap Black) = {}
        BY <1>14, <3>2 DEF BlackAcyclic
      <4>2. \A w \in adj[t] \cap T : w \in Black
        <5>1. T \subseteq Known
          BY <1>1, <2>6 DEF Black
        <5>. QED  BY <2>1, <5>1 DEF Black
      <4>. QED  BY <4>1, <4>2
    <3>. QED  BY <3>1, <3>2
  <2>8. BlackAcyclic'
    BY <1>2, <2>7 DEF BlackAcyclic
  <2>. QED  BY <1>8, <1>9, <1>10, <1>11, <1>12, <2>5, <2>8
<1>. QED  BY <1>13, <1>14

LEMMA SearchKeeps ==
  ASSUME SearchInv, SearchStep
  PROVE  SearchInv'
<1>1. CASE \E v \in Known : Root(v)
  BY <1>1, EnterKeeps DEF Root
<1>2. CASE \E w \in Domain : Neighbour(w)
  BY <1>2, NeighbourKeeps
<1>3. CASE Leave
  BY <1>3, LeaveKeeps
<1>. QED  BY <1>1, <1>2, <1>3 DEF SearchStep

LEMMA SearchUnchanged ==
  ASSUME SearchInv, UNCHANGED searchVars
  PROVE  SearchInv'
<1>1. Known' = Known /\ Black' = Black
  BY DEF searchVars, Known, Black
<1>. QED  BY <1>1 DEF searchVars, SearchInv, SearchTyped, GreyOnStack, Path, Untouched,
             Reported, Handled, BlackAcyclic

LEMMA SearchInitInv == SearchInit => SearchInv
<1>. SUFFICES ASSUME SearchInit PROVE SearchInv
  OBVIOUS
<1>1. /\ Known = {} /\ stack = << >> /\ Len(stack) = 0 /\ cycles = {} /\ Black = {}
      /\ stack \in Seq(Known)
  BY EmptySeq DEF SearchInit, Known, Black
<1>2. SearchTyped
  BY <1>1 DEF SearchInit, SearchTyped
<1>. QED  BY <1>1, <1>2 DEF SearchInv, GreyOnStack, Path, Untouched, Reported, Handled,
             BlackAcyclic

\* What the search has found when it has ended.
LEMMA VerdictRight ==
  ASSUME SearchInv
  PROVE  CycleVerdict
<1>. USE DEF SearchInv
<1>1. \A c \in cycles : c # {} /\ \A x \in c : \E y \in c : y \in adj[x]
  BY DEF Reported
<1>2. ASSUME Searched, cycles = {} PROVE Acyclic(adj)
  <2>1. Black = Known
    BY <1>2 DEF Searched, Black
  <2>. QED  BY <1>2, <2>1 DEF BlackAcyclic, Acyclic, Known
<1>3. ASSUME cycles # {} PROVE ~Acyclic(adj)
  <2>1. PICK c \in cycles : TRUE
    BY <1>3
  <2>2. c \in SUBSET DOMAIN adj /\ c # {} /\ \A t \in c : adj[t] \cap c # {}
    BY <2>1 DEF Reported, Known
  <2>. QED  BY <2>2 DEF Acyclic
<1>. QED  BY <1>1, <1>2, <1>3 DEF CycleVerdict

-----------------------------------------------------------------------------
(* The review of a design *)

Validating == pc \in {"design_validation", "design_validation_with_xv"}

\* A search under way is about the design that is there.
ReviewInv ==
  /\ design \in Design \union {NoDesign}
  /\ validated \in Design \union {NoDesign}
  /\ design = NoDesign => validated = NoDesign
  /\ Validating => design # NoDesign /\ adj = design.adj
  /\ VerdictOnDesign

MetaInv == SearchInv /\ ReviewInv

\* A step that leaves the review alone, and does not start to validate.
LEMMA ReviewUntouched ==
  ASSUME MetaInv, UNCHANGED <<searchVars, review>>, Validating' => Validating
  PROVE  MetaInv'
<1>1. SearchInv'
  BY SearchUnchanged DEF MetaInv
<1>2. ReviewInv'
  BY DEF MetaInv, ReviewInv, review, searchVars, VerdictOnDesign, Sound, Acyclic
<1>. QED  BY <1>1, <1>2 DEF MetaInv

LEMMA ProductDesignKeeps ==
  ASSUME MetaInv, ProductDesign
  PROVE  MetaInv'
<1>1. SearchInv'
  BY SearchUnchanged DEF MetaInv, ProductDesign
<1>2. ReviewInv'
  <2>1. /\ design' \in Design /\ UNCHANGED <<valid, issues, validated>> /\ pc' = "idle"
        /\ design' # NoDesign
    BY MetaAssumption DEF ProductDesign, Call
  <2>. QED  BY <2>1 DEF MetaInv, ReviewInv, Validating, VerdictOnDesign, Sound, Acyclic
<1>. QED  BY <1>1, <1>2 DEF MetaInv

\* Without a design nothing was ever validated.
LEMMA ValidateNothingKeeps ==
  ASSUME MetaInv, ValidateNothing
  PROVE  MetaInv'
<1>1. SearchInv'
  BY SearchUnchanged DEF MetaInv, ValidateNothing
<1>2. ReviewInv'
  <2>1. /\ UNCHANGED <<design, issues, validated>> /\ pc' = "idle"
        /\ validated = NoDesign
    BY DEF ValidateNothing, Call, MetaInv, ReviewInv
  <2>. QED  BY <2>1 DEF MetaInv, ReviewInv, Validating, VerdictOnDesign
<1>. QED  BY <1>1, <1>2 DEF MetaInv

LEMMA DesignValidationKeeps ==
  ASSUME MetaInv, NEW node \in {"design_validation", "design_validation_with_xv"},
         DesignValidation(node)
  PROVE  MetaInv'
<1>1. design \in Design /\ design # NoDesign /\ Search(design.adj)
      /\ UNCHANGED <<design, valid, issues, validated>>
  BY DEF DesignValidation, MetaInv, ReviewInv, review
<1>2. design.adj \in DomainGraphs
  BY <1>1, MetaAssumption DEF DesignType
<1>3. SearchInv'
  BY <1>1, <1>2, SearchStarts
<1>4. ReviewInv'
  BY <1>1 DEF MetaInv, ReviewInv, Search, VerdictOnDesign, Sound, Acyclic
<1>. QED  BY <1>3, <1>4 DEF MetaInv

LEMMA SearchingKeeps ==
  ASSUME MetaInv, Searching
  PROVE  MetaInv'
<1>1. SearchInv'
  BY SearchKeeps DEF MetaInv, Searching
<1>2. adj' = adj
  BY DEF Searching, SearchStep, Root, Neighbour, Leave
<1>3. ReviewInv'
  BY <1>2 DEF MetaInv, ReviewInv, Searching, review, Validating, VerdictOnDesign, Sound,
              Acyclic
<1>. QED  BY <1>1, <1>3 DEF MetaInv

LEMMA ValidatedKeeps ==
  ASSUME MetaInv, Validated
  PROVE  MetaInv'
<1>1. SearchInv'
  BY SearchUnchanged DEF MetaInv, Validated
<1>2. /\ design # NoDesign /\ design \in Design /\ adj = design.adj
      /\ validated' = design /\ design' = design /\ pc' = "idle"
      /\ valid' = IF issues' = {} THEN "valid" ELSE "invalid"
  BY DEF MetaInv, ReviewInv, Validated, Validating
<1>3. PICK critical \in Audits : issues' = StructuralIssues \union critical
  BY DEF Validated
<1>4. critical \subseteq XVDomain
  BY DEF Audits
<1>5. cycles = {} <=> Acyclic(design.adj)
  BY <1>2, VerdictRight DEF MetaInv, CycleVerdict, Validated
<1>6. design.tasks \in Nat /\ design.flows \in BOOLEAN
  BY <1>2, MetaAssumption DEF DesignType
<1>7. StructuralIssues = {} <=> Sound(design)
  BY <1>5, <1>6 DEF StructuralIssues, Sound
<1>8. StructuralIssues \subseteq StructuralTypes
  BY DEF StructuralIssues, StructuralTypes
<1>9. StructuralIssues = {} <=> issues' \subseteq XVDomain
  BY <1>3, <1>4, <1>8, MetaAssumption
<1>. HIDE DEF Validated
<1>10. Sound(validated)' <=> Sound(design)
  BY <1>2 DEF Sound, Acyclic
<1>11. VerdictOnDesign'
  BY <1>2, <1>7, <1>9, <1>10 DEF VerdictOnDesign
<1>12. ReviewInv'
  BY <1>2, <1>11 DEF ReviewInv, Validating
<1>. QED  BY <1>1, <1>12 DEF MetaInv

LEMMA NextKeeps ==
  ASSUME MetaInv, [Next]_vars
  PROVE  MetaInv'
<1>1. CASE Invoke
  BY <1>1, ReviewUntouched DEF Invoke, Call, Validating
<1>2. CASE ProductDesign
  BY <1>2, ProductDesignKeeps
<1>3. CASE ValidateNothing
  BY <1>3, ValidateNothingKeeps
<1>4. CASE \E node \in {"design_validation", "design_validation_with_xv"} :
             DesignValidation(node)
  BY <1>4, DesignValidationKeeps
<1>5. CASE ClosureExpansion
  BY <1>5, ReviewUntouched DEF ClosureExpansion, Call, Validating
<1>6. CASE Acceptance
  BY <1>6, ReviewUntouched DEF Acceptance, Call, Validating
<1>7. CASE Graph
  <2>1. ASSUME NEW a, NEW b, At(a, b), b \in GraphNodes \union {"idle"} PROVE MetaInv'
    BY <2>1, ReviewUntouched DEF At, Validating, GraphNodes
  <2>2. CASE ProjectScheduler
    BY <2>1, <2>2 DEF ProjectScheduler, GraphNodes
  <2>3. CASE RequirementPatch
    BY <2>1, <2>3 DEF RequirementPatch, GraphNodes
  <2>4. CASE ConceptCollection
    BY <2>1, <2>4 DEF ConceptCollection, GraphNodes
  <2>5. CASE PlanningAndShaping
    BY <2>1, <2>5 DEF PlanningAndShaping, GraphNodes
  <2>6. CASE GraphValidation
    BY <2>6, ReviewUntouched DEF GraphValidation, At, Validating
  <2>7. CASE BatchDispatch
    BY <2>1, <2>7 DEF BatchDispatch, GraphNodes
  <2>8. CASE BatchVerification
    BY <2>1, <2>8 DEF BatchVerification, GraphNodes
  <2>. QED  BY <1>7, <2>2, <2>3, <2>4, <2>5, <2>6, <2>7, <2>8 DEF Graph
<1>8. CASE Searching
  BY <1>8, SearchingKeeps
<1>9. CASE Validated
  BY <1>9, ValidatedKeeps
<1>10. CASE Expansion
  <2>1. CASE ExpandRing
    BY <2>1, ReviewUntouched DEF ExpandRing, Validating
  <2>2. CASE ExpansionStops
    BY <2>2, ReviewUntouched DEF ExpansionStops, Validating
  <2>. QED  BY <1>10, <2>1, <2>2 DEF Expansion
<1>11. CASE UNCHANGED vars
  BY <1>11, ReviewUntouched DEF vars, Validating
<1>. QED  BY <1>1, <1>2, <1>3, <1>4, <1>5, <1>6, <1>7, <1>8, <1>9, <1>10, <1>11
          DEF Next, Caller, Node

LEMMA InitInv == Init => MetaInv
<1>. SUFFICES ASSUME Init PROVE MetaInv
  OBVIOUS
<1>1. SearchInv
  BY SearchInitInv DEF Init
<1>2. ReviewInv
  BY DEF Init, ReviewInv, Validating, VerdictOnDesign
<1>. QED  BY <1>1, <1>2 DEF MetaInv

LEMMA AlwaysMetaInv == Spec => []MetaInv
BY InitInv, NextKeeps, PTL DEF Spec

-----------------------------------------------------------------------------
(* The theorems *)

\* _detect_cycles reports a cycle if and only if the dependencies have one,
\* whatever the iteration order of the set and of the dependencies.
THEOREM CyclesDetected == Spec => []CycleVerdict
<1>1. MetaInv => CycleVerdict
  BY VerdictRight DEF MetaInv
<1>. QED  BY <1>1, AlwaysMetaInv, PTL

\* design_valid and its issues tell the truth about the design validated last.
THEOREM VerdictTrue == Spec => []VerdictOnDesign
<1>1. MetaInv => VerdictOnDesign
  BY DEF MetaInv, ReviewInv
<1>. QED  BY <1>1, AlwaysMetaInv, PTL

-----------------------------------------------------------------------------
(* Types, and the closures of an expansion *)

\* Beyond ring 1, the closures so far and one more ring of the last budget
\* are together no more than those of ring 1: the budget halves.
Converges ==
  \/ ring = 1 /\ scale = 1 /\ closures = [first |-> 0, more |-> 0]
  \/ /\ ring > 1
     /\ closures.first = sources * Templates
     /\ \E h \in Nat \ {0} :
           /\ scale = 2 * h
           /\ closures.more + (sources \div h) * Templates <= closures.first

TypedInv == MetaTyped /\ (pc = "closure_expansion" => Converges)

LEMMA HalfBudget ==
  ASSUME NEW s \in Nat, NEW h \in Nat \ {0}
  PROVE  s \div (2 * h) \in Nat /\ 2 * (s \div (2 * h)) <= s \div h
<1>. DEFINE q == s \div (2 * h)
            r == s % (2 * h)
<1>1. h \in Nat /\ h > 0
  OBVIOUS
<1>2. s = (2 * h) * q + r /\ 0 <= r /\ q \in Nat
  BY <1>1
<1>. HIDE DEF q, r
<1>3. s = h * (2 * q) + r
  BY <1>1, <1>2
<1>. QED  BY <1>1, <1>2, <1>3

\* However the gaps are ranked, the node to reenter is one of the reasons.
LEMMA ReentryIsReason ==
  ASSUME NEW gaps \in {<< >>} \union {<<g>> : g \in Gap} \union (Gap \X Gap)
  PROVE  ReentryPoint(gaps) \in Reasons
<1>. DEFINE rank(i) == CHOOSE n \in 1 .. 3 : Severity[n] = gaps[i].severity
            first(i) == \A j \in DOMAIN gaps :
                           rank(j) < rank(i) \/ (rank(j) = rank(i) /\ i <= j)
            highest == CHOOSE i \in DOMAIN gaps : first(i)
<1>1. CASE gaps = << >>
  BY <1>1 DEF ReentryPoint, Reasons
<1>2. CASE gaps # << >>
  <2>1. \/ DOMAIN gaps = {1} /\ gaps[1] \in Gap
        \/ DOMAIN gaps = {1, 2} /\ gaps[1] \in Gap /\ gaps[2] \in Gap
    <3>1. ASSUME NEW g \in Gap, gaps = <<g>> PROVE DOMAIN gaps = {1} /\ gaps[1] \in Gap
      BY <3>1
    <3>2. ASSUME gaps \in Gap \X Gap
          PROVE  DOMAIN gaps = {1, 2} /\ gaps[1] \in Gap /\ gaps[2] \in Gap
      BY <3>2
    <3>. QED  BY <1>2, <3>1, <3>2
  <2>2. \A i \in DOMAIN gaps : rank(i) \in 1 .. 3
    <3>. SUFFICES ASSUME NEW i \in DOMAIN gaps PROVE rank(i) \in 1 .. 3
      OBVIOUS
    <3>1. gaps[i].severity \in {"low", "medium", "high"}
      BY <2>1, MetaAssumption DEF GapType
    <3>2. \E n \in 1 .. 3 : Severity[n] = gaps[i].severity
      BY <3>1 DEF Severity
    <3>. QED  BY <3>2
  <2>. HIDE DEF rank
  <2>3. \E i \in DOMAIN gaps : first(i)
    <3>1. CASE DOMAIN gaps = {1}
      BY <2>2, <3>1
    <3>2. CASE DOMAIN gaps = {1, 2} /\ rank(2) > rank(1)
      <4>1. first(2)
        BY <2>2, <3>2
      <4>. QED  BY <3>2, <4>1
    <3>3. CASE DOMAIN gaps = {1, 2} /\ rank(2) <= rank(1)
      <4>1. first(1)
        BY <2>2, <3>3
      <4>. QED  BY <3>3, <4>1
    <3>4. DOMAIN gaps = {1, 2} => rank(1) \in 1 .. 3 /\ rank(2) \in 1 .. 3
      BY <2>2
    <3>. QED  BY <2>1, <3>1, <3>2, <3>3, <3>4
  <2>. HIDE DEF first
  <2>4. highest \in DOMAIN gaps
    BY <2>3
  <2>. HIDE DEF highest
  <2>5. gaps[highest] \in Gap
    BY <2>1, <2>4
  <2>6. gaps[highest].target \in DOMAIN Reentry
    BY <2>5, MetaAssumption DEF GapType, Reentry
  <2>7. Reentry[gaps[highest].target] \in Reasons
    BY <2>6 DEF Reasons, Range
  <2>8. ReentryPoint(gaps) = Reentry[gaps[highest].target]
    BY <1>2 DEF ReentryPoint, highest, first, rank
  <2>. QED  BY <2>7, <2>8
<1>. QED  BY <1>1, <1>2

LEMMA RingConverges ==
  ASSUME TypedInv, ExpandRing
  PROVE  Converges' /\ closures' \in [first : Nat, more : Nat]
         /\ closures'.more <= closures'.first /\ scale' \in Nat \ {0} /\ ring' \in Nat
<1>1. /\ ring \in Nat /\ sources \in Nat /\ scale \in Nat \ {0} /\ Converges
      /\ closures \in [first : Nat, more : Nat] /\ closures.more <= closures.first
  BY DEF TypedInv, MetaTyped, ExpandRing
<1>2. ring' = ring + 1 /\ scale' = 2 * scale /\ sources' = sources
      /\ scale' \in Nat \ {0}
  BY <1>1 DEF ExpandRing
<1>3. CASE ring = 1
  <2>1. /\ scale = 1 /\ closures.more = 0
    BY <1>1, <1>3 DEF Converges
  <2>2. Budget = sources
    BY <1>1, <2>1 DEF Budget
  <2>3. closures' \in [first : Nat, more : Nat]
        /\ closures'.first = sources * Templates /\ closures'.more = 0
    BY <1>1, <1>3, <2>1, <2>2 DEF ExpandRing, Templates
  <2>4. sources \div 1 = sources
    BY <1>1
  <2>5. closures'.more + (sources' \div 1) * Templates <= closures'.first
    BY <1>1, <1>2, <2>3, <2>4 DEF Templates
  <2>6. scale' = 2 * 1 /\ 1 \in Nat \ {0}
    BY <1>2, <2>1
  <2>7. ring' > 1 /\ closures'.first = sources' * Templates
    BY <1>1, <1>2, <1>3, <2>3
  <2>8. Converges'
    BY <2>5, <2>6, <2>7 DEF Converges
  <2>. QED  BY <1>1, <1>2, <2>3, <2>8 DEF Templates
<1>4. CASE ring # 1
  <2>1. ring > 1 /\ closures.first = sources * Templates
    BY <1>1, <1>4 DEF Converges
  <2>2. PICK h \in Nat \ {0} :
           /\ scale = 2 * h
           /\ closures.more + (sources \div h) * Templates <= closures.first
    BY <1>1, <1>4 DEF Converges
  <2>3. Budget \in Nat /\ 2 * Budget <= sources \div h /\ sources \div h \in Nat
    <3>1. sources \div h \in Nat
      BY <1>1
    <3>. QED  BY <1>1, <2>2, <3>1, HalfBudget DEF Budget
  <2>4. closures' \in [first : Nat, more : Nat]
        /\ closures'.first = closures.first
        /\ closures'.more = closures.more + Budget * Templates
    BY <1>1, <1>4, <2>3 DEF ExpandRing, Templates
  <2>5. Budget = sources' \div scale
    BY <1>2 DEF Budget
  <2>6. closures'.more + Budget * Templates <= closures'.first
    BY <1>1, <2>2, <2>3, <2>4 DEF Templates
  <2>7. Converges'
    BY <1>1, <1>2, <2>1, <2>4, <2>5, <2>6 DEF Converges
  <2>. QED  BY <1>1, <1>2, <2>3, <2>4, <2>6, <2>7 DEF Templates
<1>. QED  BY <1>3, <1>4

\* Calls and graph nodes that leave the expansion alone.
LEMMA TypedUntouched ==
  ASSUME TypedInv, UNCHANGED expansion, pc' # "closure_expansion"
  PROVE  /\ sources' \in Nat /\ closures' \in [first : Nat, more : Nat]
         /\ closures'.more <= closures'.first /\ ring' \in Nat /\ scale' \in Nat \ {0}
         /\ (pc' = "closure_expansion" => Converges')
BY DEF TypedInv, MetaTyped, expansion

LEMMA TypedNext ==
  ASSUME TypedInv, [Next]_vars
  PROVE  TypedInv'
<1>. USE DEF TypedInv
<1>1. CASE Invoke
  BY <1>1, TypedUntouched DEF Invoke, Call, MetaTyped, GraphNodes, review
<1>2. CASE ProductDesign
  BY <1>2, TypedUntouched DEF ProductDesign, Call, MetaTyped, runtime
<1>3. CASE ValidateNothing
  BY <1>3, TypedUntouched DEF ValidateNothing, Call, MetaTyped, Reasons
<1>4. ASSUME NEW node \in {"design_validation", "design_validation_with_xv"},
             DesignValidation(node)
      PROVE  TypedInv'
  BY <1>4, TypedUntouched DEF DesignValidation, Call, MetaTyped, runtime, review
<1>5. CASE ClosureExpansion
  <2>1. Tasks \in Nat
    BY MetaAssumption DEF Tasks, MetaTyped, DesignType
  <2>2. /\ sources' \in Nat /\ ring' = 1 /\ scale' = 1
        /\ closures' = [first |-> 0, more |-> 0]
        /\ calls' \in Nat /\ pc' = "closure_expansion" /\ UNCHANGED <<runtime, review>>
    BY <1>5, <2>1 DEF ClosureExpansion, Call, MetaTyped
  <2>3. Converges'
    BY <2>2 DEF Converges
  <2>. QED  BY <2>2, <2>3 DEF MetaTyped, runtime, review
<1>6. CASE Acceptance
  <2>1. replan' \in Reasons /\ termination' \in BOOLEAN
    BY <1>6, ReentryIsReason DEF Acceptance, MetaTyped
  <2>. QED  BY <1>6, <2>1, TypedUntouched DEF Acceptance, Call, MetaTyped, review
<1>7. CASE Graph
  <2>1. ASSUME NEW a, NEW b, At(a, b), b \in GraphNodes \union {"idle"},
               workset' \subseteq Work, pending' \subseteq Event, running' \subseteq Work,
               verified' \subseteq Work, replan' \in Reasons
        PROVE  TypedInv'
    <3>1. pc' = b /\ b # "closure_expansion" /\ UNCHANGED <<termination, review, expansion, calls>>
      BY <2>1 DEF At, GraphNodes
    <3>. QED  BY <2>1, <3>1, TypedUntouched DEF MetaTyped, review
  <2>2. CASE ProjectScheduler
    BY <2>1, <2>2 DEF ProjectScheduler, GraphNodes, MetaTyped
  <2>3. CASE RequirementPatch
    BY <2>1, <2>3 DEF RequirementPatch, GraphNodes, MetaTyped, Reasons
  <2>4. CASE ConceptCollection
    BY <2>1, <2>4 DEF ConceptCollection, GraphNodes, MetaTyped
  <2>5. CASE PlanningAndShaping
    BY <2>1, <2>5 DEF PlanningAndShaping, GraphNodes, MetaTyped, Reasons, Selections
  <2>6. CASE GraphValidation
    <3>. DEFINE next == IF replan' # "none" THEN "project_scheduler" ELSE "batch_dispatch"
    <3>1. At("graph_validation", next) /\ next \in GraphNodes \union {"idle"}
      BY <2>6 DEF GraphValidation, GraphNodes
    <3>2. replan' \in Reasons /\ UNCHANGED <<workset, pending, running, verified>>
      BY <2>6 DEF GraphValidation, MetaTyped, Reasons
    <3>. HIDE DEF next
    <3>. QED  BY <2>1, <3>1, <3>2 DEF MetaTyped
  <2>7. CASE BatchDispatch
    BY <2>1, <2>7 DEF BatchDispatch, GraphNodes, MetaTyped
  <2>8. CASE BatchVerification
    BY <2>1, <2>8 DEF BatchVerification, GraphNodes, MetaTyped
  <2>. QED  BY <1>7, <2>2, <2>3, <2>4, <2>5, <2>6, <2>7, <2>8 DEF Graph
<1>8. CASE Searching
  BY <1>8, TypedUntouched DEF Searching, MetaTyped, runtime, review
<1>9. CASE Validated
  <2>1. issues' \subseteq StructuralTypes \union XVDomain
    BY <1>9 DEF Validated, StructuralIssues, StructuralTypes, Audits
  <2>2. /\ valid' \in {"unknown", "valid", "invalid"} /\ replan' \in Reasons
        /\ validated' = design /\ pc' = "idle"
        /\ UNCHANGED <<workset, pending, running, verified, termination, design,
                       expansion, calls>>
    BY <1>9 DEF Validated, MetaTyped, Reasons
  <2>. QED  BY <2>1, <2>2, TypedUntouched DEF MetaTyped
<1>10. CASE ExpandRing
  <2>1. /\ UNCHANGED <<pc, sources, runtime, review, calls>>
    BY <1>10 DEF ExpandRing
  <2>. QED  BY <1>10, <2>1, RingConverges DEF MetaTyped, runtime, review
<1>11. CASE ExpansionStops
  BY <1>11, TypedUntouched DEF ExpansionStops, MetaTyped, runtime, review
<1>12. CASE UNCHANGED vars
  BY <1>12 DEF vars, MetaTyped, Converges, runtime, review, expansion
<1>. QED  BY <1>1, <1>2, <1>3, <1>4, <1>5, <1>6, <1>7, <1>8, <1>9, <1>10, <1>11, <1>12
          DEF Next, Caller, Node, Expansion

\* The runtime state keeps its types, a replan reason is always one the code
\* knows, and closure_expansion never accepts more closures beyond ring 1 than
\* in it (_CONVERGENCE_FACTOR), for any number of sources and any max_ring.
THEOREM MetaTypeCorrect == Spec => []MetaTyped
<1>1. ASSUME Init PROVE TypedInv
  <2>1. /\ sources \in Nat /\ closures \in [first : Nat, more : Nat]
        /\ closures.more <= closures.first /\ ring \in Nat /\ scale \in Nat \ {0}
    BY <1>1 DEF Init
  <2>2. replan \in Reasons
    BY <1>1 DEF Init, Reasons
  <2>3. pc = "idle"
    BY <1>1 DEF Init
  <2>. QED  BY <1>1, <2>1, <2>2, <2>3 DEF Init, TypedInv, MetaTyped
<1>2. TypedInv => MetaTyped
  BY DEF TypedInv
<1>. QED  BY <1>1, <1>2, TypedNext, PTL DEF Spec

=============================================================================
