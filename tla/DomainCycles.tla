---------------------------- MODULE DomainCycles ----------------------------
(***************************************************************************)
(* _detect_cycles of planning/design_validator.py: a depth-first search    *)
(* with three colours over the dependencies of a design's domains.         *)
(* known_ids is a set of strings, so the roots come in any order; the      *)
(* dependencies of a domain are visited in any order too.                  *)
(***************************************************************************)
EXTENDS Naturals, Sequences

CONSTANT Domain  \* domain ids a design may define or name as a dependency

VARIABLES
  adj,     \* dependencies of each domain the design defines
  colour,  \* white, grey (in stack) or black (done)
  stack,   \* the path from the root to the domain being visited
  rest,    \* neighbours whose turn in the for loop has not come
  cycles   \* reported_cycles: the set of domains of each cycle found

searchVars == <<adj, colour, stack, rest, cycles>>

\* A dependency may name a domain the design does not define.
DomainGraphs == UNION {[K -> SUBSET Domain] : K \in SUBSET Domain}

Known == DOMAIN adj

Top == stack[Len(stack)]

Search(g) ==
  /\ adj' = g
  /\ colour' = [d \in DOMAIN g |-> "white"]
  /\ stack' = << >>
  /\ rest' = g
  /\ cycles' = {}

Enter(v) ==
  /\ colour' = [colour EXCEPT ![v] = "grey"]
  /\ stack' = Append(stack, v)

Root(v) ==
  /\ stack = << >>
  /\ colour[v] = "white"
  /\ Enter(v)
  /\ UNCHANGED <<adj, rest, cycles>>

\* stack[cycle_start:], as the set it is reported by.
Segment(w) ==
  {stack[j] : j \in {j \in 1 .. Len(stack) :
                       \E i \in 1 .. j : stack[i] = w}}

Neighbour_twoColours(w) ==
  /\ stack # << >>
  /\ w \in rest[Top]
  /\ rest' = [rest EXCEPT ![Top] = @ \ {w}]
  /\ \/ /\ w \notin Known
        /\ UNCHANGED <<colour, stack, cycles>>
     \/ /\ w \in Known /\ colour[w] # "white"
        /\ cycles' = cycles \union {Segment(w)}
        /\ UNCHANGED <<colour, stack>>
     \/ /\ w \in Known /\ colour[w] = "white"
        /\ Enter(w)
        /\ UNCHANGED cycles
  /\ UNCHANGED adj

Neighbour(w) ==
  /\ stack # << >>
  /\ w \in rest[Top]
  /\ rest' = [rest EXCEPT ![Top] = @ \ {w}]
  /\ \/ /\ w \in Known => colour[w] = "black"
        /\ UNCHANGED <<colour, stack, cycles>>
     \/ /\ w \in Known /\ colour[w] = "grey"
        /\ cycles' = cycles \union {Segment(w)}
        /\ UNCHANGED <<colour, stack>>
     \/ /\ w \in Known /\ colour[w] = "white"
        /\ Enter(w)
        /\ UNCHANGED cycles
  /\ UNCHANGED adj

Leave ==
  /\ stack # << >>
  /\ rest[Top] = {}
  /\ stack' = SubSeq(stack, 1, Len(stack) - 1)
  /\ colour' = [colour EXCEPT ![Top] = "black"]
  /\ UNCHANGED <<adj, rest, cycles>>

SearchStep ==
  \/ \E v \in Known : Root(v)
  \/ \E w \in Domain : Neighbour(w)
  \/ Leave

Searched == stack = << >> /\ \A v \in Known : colour[v] = "black"

SearchInit ==
  /\ adj \in [{} -> SUBSET Domain]
  /\ colour = [d \in {} |-> "white"]
  /\ stack = << >>
  /\ rest = adj
  /\ cycles = {}

-----------------------------------------------------------------------------
(* Properties *)

\* No set of domains each of which depends on another (or itself) in the set.
Acyclic(g) ==
  \A T \in SUBSET DOMAIN g : T # {} => \E t \in T : g[t] \cap T = {}

\* Whatever order the search takes, it reports a cycle if and only if the
\* dependencies have one, and each set it reports is one.
CycleVerdict ==
  /\ Searched => (cycles = {} <=> Acyclic(adj))
  /\ \A c \in cycles : c # {} /\ \A x \in c : \E y \in c : y \in adj[x]

=============================================================================
