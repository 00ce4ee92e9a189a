--------------------------- MODULE Closure_proofs ---------------------------
(***************************************************************************)
(* Theorems about Closure that hold for every system of equations, with    *)
(* proofs checked by TLAPS: Tarjan's algorithm, as the code runs it, hands *)
(* over whole strongly connected components, those that a set depends on   *)
(* first.                                                                  *)
(***************************************************************************)
EXTENDS Closure, CommonLemmas, FiniteSetTheorems, SequenceTheorems, TLAPS

(***************************************************************************)
(* Reachability in a graph that is given as the sequences of edges of its  *)
(* vertices: w can be reached from v if it lies in every set with v that   *)
(* no edge leaves.                                                         *)
(***************************************************************************)
IsGraph(g) == \A u \in DOMAIN g : g[u] \in Seq(DOMAIN g)

NoEdgeLeaves(g, S) == \A u \in S : \A j \in DOMAIN g[u] : g[u][j] \in S

Least(g, S) == { w \in DOMAIN g : \A D \in SUBSET DOMAIN g : S \subseteq D /\ NoEdgeLeaves(g, D) => w \in D }

Reaches(g, v, w) == \A D \in SUBSET DOMAIN g : v \in D /\ NoEdgeLeaves(g, D) => w \in D

LEMMA ReachesRefl == \A g, v : Reaches(g, v, v)
BY DEF Reaches

LEMMA ReachesTrans == \A g, u, v, w : Reaches(g, u, v) /\ Reaches(g, v, w) => Reaches(g, u, w)
BY DEF Reaches

LEMMA ReachesEdge == \A g, v : \A j \in DOMAIN g[v] : Reaches(g, v, g[v][j])
BY DEF Reaches, NoEdgeLeaves

LEMMA ReachesStays ==
  ASSUME NEW g, NEW v, NEW w, NEW D \in SUBSET DOMAIN g, v \in D, NoEdgeLeaves(g, D), Reaches(g, v, w)
  PROVE  w \in D
BY DEF Reaches

\* A larger set of the same members and successors has the same least closed set.
LEMMA LeastOfMore ==
  ASSUME NEW g, NEW S, NEW more, S \subseteq more,
         \A D \in SUBSET DOMAIN g : S \subseteq D /\ NoEdgeLeaves(g, D) => more \subseteq D
  PROVE  Least(g, S) = Least(g, more)
BY DEF Least

-----------------------------------------------------------------------------
(***************************************************************************)
(* The graph of the equations.                                             *)
(***************************************************************************)
V == DOMAIN nodes
Graph == [v \in V |-> nodes[v].edges]

\* The positions of the edges of v that have been followed.
IsSeen(v, j) == j \in DOMAIN Graph[v] /\ \A i \in DOMAIN calls : calls[i].v = v => j < calls[i].k

\* The equations are numbered from one on.
WellFormed ==
  /\ \E n \in Nat : V = 1 .. n
  /\ nodes = [v \in V |-> nodes[v]]
  /\ \A v \in V : nodes[v] = [op |-> nodes[v].op, edges |-> nodes[v].edges,
                              inverse |-> nodes[v].inverse, set |-> nodes[v].set]
  /\ IsGraph(Graph)

Expand(S) == S \union UNION { Edges(w) : w \in S }

LEMMA EdgesOfGraph ==
  ASSUME NEW v \in V
  PROVE  Edges(v) = { Graph[v][j] : j \in DOMAIN Graph[v] }
BY DEF Edges, Graph, Range

LEMMA ExpandInside ==
  ASSUME WellFormed, NEW S \in SUBSET V
  PROVE  Expand(S) \in SUBSET V
<1>1. ASSUME NEW w \in S PROVE Edges(w) \subseteq V
  <2>1. w \in V /\ Graph[w] \in Seq(V) /\ DOMAIN Graph = V
    BY DEF WellFormed, IsGraph, Graph
  <2>2. Graph[w] \in [1 .. Len(Graph[w]) -> V]
    BY <2>1
  <2> QED
    BY <2>1, <2>2, EdgesOfGraph
<1> QED
  BY <1>1 DEF Expand

LEMMA ExpandClosed ==
  ASSUME WellFormed, NEW S \in SUBSET V, NEW D, NoEdgeLeaves(Graph, D), S \subseteq D
  PROVE  Expand(S) \subseteq D
<1>1. ASSUME NEW w \in S PROVE Edges(w) \subseteq D
  BY EdgesOfGraph DEF NoEdgeLeaves
<1> QED
  BY <1>1 DEF Expand

LEMMA ExpandedClosed ==
  ASSUME NEW S \in SUBSET V, Expand(S) = S
  PROVE  NoEdgeLeaves(Graph, S)
<1>1. ASSUME NEW w \in S, NEW j \in DOMAIN Graph[w] PROVE Graph[w][j] \in S
  <2>1. Graph[w][j] \in Edges(w)
    BY EdgesOfGraph
  <2> QED
    BY <2>1 DEF Expand
<1> QED
  BY <1>1 DEF NoEdgeLeaves

\* The definition that TLC evaluates means what it should.
LEMMA ReachableIsReaches ==
  ASSUME WellFormed, NEW v \in V
  PROVE  Reachable(v) = { w \in V : Reaches(Graph, v, w) }
<1> DEFINE Sets == SUBSET V
           nx == [S \in Sets |-> Expand(S)]
           Stop == { S \in Sets : Expand(S) = S }
           val == [S \in Sets |-> S]
           IsReach(f) == f = [S \in Sets |-> IF Expand(S) = S THEN S ELSE f[Expand(S)]]
           reach == CHOOSE f : IsReach(f)
<1>1. nx \in [Sets -> Sets]
  BY ExpandInside
<1>2. \E f : IsReach(f)
  <2>1. PICK f : IsLoop(f, Sets, Stop, nx, val)
    <3> HIDE DEF Sets, Stop, nx, val
    <3> QED
      BY <1>1, LoopExists
  <2>2. f = [S \in Sets |-> IF S \in Stop THEN val[S] ELSE f[nx[S]]]
    BY <2>1 DEF IsLoop
  <2>3. IsReach(f)
    BY <2>2
  <2> QED
    BY <2>3
<1>3. IsReach(reach)
  <2> HIDE DEF IsReach
  <2> QED
    BY <1>2
<1>4. Reachable(v) = reach[{ v }]
  BY DEF Reachable, Expand, V
<1>5. DOMAIN Graph = V /\ IsFiniteSet(V)
  <2>1. PICK n \in Nat : V = 1 .. n
    BY DEF WellFormed
  <2>2. 1 \in Int /\ n \in Int
    OBVIOUS
  <2>3. IsFiniteSet(1 .. n)
    BY ONLY <2>2, FS_Interval
  <2> QED
    BY <2>1, <2>3 DEF Graph
<1> HIDE DEF reach
<1>6. ASSUME NEW S \in Sets PROVE reach[S] = IF Expand(S) = S THEN S ELSE reach[Expand(S)]
  BY <1>3
<1> HIDE DEF IsReach
<1> DEFINE Bad == { S \in Sets : reach[S] # Least(Graph, S) }
           Sizes == { Cardinality(S) : S \in Bad }
           n == Cardinality(V)
<1>7. \A S \in Sets : IsFiniteSet(S) /\ Cardinality(S) \in Nat /\ Cardinality(S) <= n
  BY <1>5, FS_Subset, FS_CardinalityType
<1>8. Bad = {}
  <2> SUFFICES ASSUME Bad # {} PROVE FALSE
    OBVIOUS
  <2>1. Sizes \subseteq 0 .. n /\ Sizes # {} /\ n \in Nat
    <3>1. n \in Nat
      BY <1>5, FS_CardinalityType
    <3> QED
      BY <1>7, <3>1
  <2>2. Max(Sizes) \in Sizes /\ \A y \in Sizes : y <= Max(Sizes)
    <3> HIDE DEF Sizes, n
    <3> QED
      BY <2>1, MaxOfSet
  <2>3. PICK S \in Bad : \A T \in Bad : Cardinality(T) <= Cardinality(S)
    BY <2>2
  <2> DEFINE more == Expand(S)
  <2>4. S \in Sets /\ more \in Sets /\ S \subseteq more
    BY ExpandInside DEF Expand
  <2>5. CASE more = S
    <3>1. NoEdgeLeaves(Graph, S)
      BY <2>4, <2>5, ExpandedClosed
    <3>2. Least(Graph, S) = S
      BY <3>1, <2>4, <1>5 DEF Least
    <3>3. reach[S] = S
      BY <1>6, <2>4, <2>5
    <3> QED
      BY <3>2, <3>3
  <2>6. CASE more # S
    <3>1. Cardinality(S) # Cardinality(more) /\ Cardinality(S) <= Cardinality(more)
      <4>1. IsFiniteSet(more) /\ S \in SUBSET more
        BY <1>7, <2>4
      <4> HIDE DEF more
      <4> QED
        BY <4>1, <2>6, FS_Subset
    <3>2. more \notin Bad
      <4> SUFFICES ASSUME more \in Bad PROVE FALSE
        OBVIOUS
      <4>1. Cardinality(more) <= Cardinality(S)
        BY <2>3
      <4>2. Cardinality(more) \in Nat /\ Cardinality(S) \in Nat
        BY <1>7, <2>4
      <4> QED
        BY <3>1, <4>1, <4>2
    <3>3. reach[more] = Least(Graph, more)
      BY <3>2, <2>4
    <3>4. Least(Graph, S) = Least(Graph, more)
      <4>1. \A D \in SUBSET V : S \subseteq D /\ NoEdgeLeaves(Graph, D) => more \subseteq D
        BY <2>4, ExpandClosed
      <4> HIDE DEF more
      <4> QED
        BY <4>1, <1>5, <2>4, LeastOfMore
    <3>5. reach[S] = reach[more]
      BY <1>6, <2>4, <2>6
    <3> QED
      BY <3>3, <3>4, <3>5
  <2> QED
    BY <2>5, <2>6
<1>9. reach[{ v }] = Least(Graph, { v })
  BY <1>8
<1>10. Least(Graph, { v }) = { w \in V : Reaches(Graph, v, w) }
  <2>1. \A D : { v } \subseteq D <=> v \in D
    OBVIOUS
  <2> QED
    BY <1>5, <2>1 DEF Least, Reaches
<1> QED
  BY <1>4, <1>9, <1>10

-----------------------------------------------------------------------------
(***************************************************************************)
(* The invariant of the search.                                            *)
(***************************************************************************)
FrameSet == [v : V, k : Nat \ {0}]

Types ==
  /\ index \in [V -> Int] /\ lowLink \in [V -> Int] /\ curr \in Nat
  /\ stack \in Seq(V) /\ calls \in Seq(FrameSet)

\* The vertices that were visited have different numbers.
Numbered ==
  /\ \A v \in V : index[v] = -1 \/ index[v] \in 0 .. curr - 1
  /\ \A v, w \in V : index[v] = index[w] /\ index[v] # -1 => v = w

StackSorted ==
  /\ \A i \in DOMAIN stack : index[stack[i]] # -1
  /\ \A i, j \in DOMAIN stack : i < j => index[stack[i]] < index[stack[j]]

CallsSorted ==
  /\ \A i \in DOMAIN calls : calls[i].v \in OnStack
  /\ \A i, j \in DOMAIN calls : i < j => index[calls[i].v] < index[calls[j].v]

\* A call was made for the edge that its caller is at.
CallsChain ==
  \A i \in DOMAIN calls : i < Len(calls) =>
    /\ calls[i].k \in DOMAIN Graph[calls[i].v]
    /\ Graph[calls[i].v][calls[i].k] = calls[i + 1].v

SeenVisited ==
  \A v \in V : index[v] # -1 => \A j : IsSeen(v, j) => index[Graph[v][j]] # -1

\* What left the stack has only edges to what left the stack.
FinishedClosed ==
  \A v \in V : index[v] # -1 /\ v \notin OnStack =>
    \A j \in DOMAIN Graph[v] : index[Graph[v][j]] # -1 /\ Graph[v][j] \notin OnStack

\* An active call reaches what lies above it, and everything on the stack reaches
\* an active call below it.
CallsReach ==
  \A i \in DOMAIN calls : \A y \in OnStack :
    index[calls[i].v] <= index[y] => Reaches(Graph, calls[i].v, y)

StackReaches ==
  \A y \in OnStack : \E i \in DOMAIN calls :
    index[calls[i].v] <= index[y] /\ Reaches(Graph, y, calls[i].v)

\* lowLink is as low as the edges seen from the call's part of the stack ask for,
\* and is the number of something that the call reaches.
LowEnough ==
  \A i \in DOMAIN calls : \A x \in OnStack :
    /\ index[calls[i].v] <= index[x]
    /\ \A j \in DOMAIN calls : j > i => index[x] < index[calls[j].v]
    => \A e : IsSeen(x, e) /\ Graph[x][e] \in OnStack => lowLink[calls[i].v] <= index[Graph[x][e]]

LowReached ==
  \A i \in DOMAIN calls :
    /\ lowLink[calls[i].v] <= index[calls[i].v]
    /\ \E w \in OnStack : index[w] = lowLink[calls[i].v] /\ Reaches(Graph, calls[i].v, w)

Searching ==
  /\ Types /\ Numbered /\ StackSorted
  /\ CallsSorted /\ CallsChain /\ SeenVisited /\ FinishedClosed
  /\ CallsReach /\ StackReaches /\ LowEnough /\ LowReached

\* The edges are those of well-formed equations and stay what they are.
SameGraph == WellFormed /\ WellFormed' /\ V' = V /\ Graph' = Graph

LEMMA EdgeInside ==
  ASSUME WellFormed, NEW v \in V, NEW j \in DOMAIN Graph[v]
  PROVE  Graph[v][j] \in V
<1>1. Graph[v] \in Seq(V) /\ DOMAIN Graph = V
  BY DEF WellFormed, IsGraph, Graph
<1> QED
  BY <1>1

LEMMA OnStackInside ==
  ASSUME Types, NEW y \in OnStack
  PROVE  y \in V
BY DEF Types, OnStack, Range

LEMMA CallInside ==
  ASSUME Types, NEW i \in DOMAIN calls
  PROVE  calls[i].v \in V /\ calls[i].k \in Nat \ {0} /\ i \in 1 .. Len(calls)
<1>1. calls[i] \in FrameSet /\ i \in 1 .. Len(calls)
  BY DEF Types
<1> QED
  BY <1>1 DEF FrameSet

-----------------------------------------------------------------------------
(***************************************************************************)
(* strongConnect is called.                                                *)
(***************************************************************************)
LEMMA EnterKeeps ==
  ASSUME Searching, SameGraph, NEW u \in V, index[u] = -1, Enter(u),
         calls # << >> => /\ Frame.k \in DOMAIN Graph[Frame.v]
                          /\ Graph[Frame.v][Frame.k] = u
  PROVE  Searching'
<1> DEFINE n == Len(calls)
<1>1. Types
  BY DEF Searching
<1>2. n \in Nat /\ DOMAIN calls = 1 .. n /\ (calls # << >> <=> n > 0)
  BY <1>1, EmptySeq, LenProperties DEF Types
<1>3. /\ calls' = Append(calls, [v |-> u, k |-> 1])
      /\ Len(calls') = n + 1 /\ DOMAIN calls' = 1 .. n + 1
      /\ \A i \in 1 .. n : calls'[i] = calls[i]
      /\ calls'[n + 1] = [v |-> u, k |-> 1]
  BY <1>1, <1>2 DEF Enter, Types
<1>4. calls'[n + 1].v = u /\ calls'[n + 1].k = 1
  BY <1>3
<1>5. /\ index' = [index EXCEPT ![u] = curr] /\ lowLink' = [lowLink EXCEPT ![u] = curr]
      /\ curr' = curr + 1 /\ stack' = Append(stack, u)
  BY DEF Enter
<1>6. /\ index'[u] = curr /\ lowLink'[u] = curr
      /\ \A w \in V : w # u => index'[w] = index[w] /\ lowLink'[w] = lowLink[w]
  BY <1>1, <1>5 DEF Types
<1> DEFINE m == Len(stack)
<1>6a. /\ m \in Nat /\ DOMAIN stack = 1 .. m /\ DOMAIN stack' = 1 .. m + 1
       /\ \A i \in 1 .. m : stack'[i] = stack[i]
       /\ stack'[m + 1] = u
  <2>1. stack \in Seq(V) /\ stack' = Append(stack, u)
    BY <1>1, <1>5 DEF Types
  <2>2. stack' \in Seq(V) /\ Len(stack') = m + 1
    BY <2>1, AppendProperties
  <2>3. m \in Nat /\ DOMAIN stack = 1 .. m /\ DOMAIN stack' = 1 .. m + 1
    BY <2>1, <2>2, LenProperties
  <2> QED
    BY <2>1, <2>3, AppendProperties
<1> HIDE DEF m
<1>7. OnStack' = OnStack \union { u }
  <2>1. OnStack = { stack[i] : i \in 1 .. m } /\ OnStack' = { stack'[i] : i \in 1 .. m + 1 }
    BY <1>6a DEF OnStack, Range
  <2>2. 1 .. m + 1 = (1 .. m) \union { m + 1 }
    BY <1>6a
  <2> QED
    BY <2>1, <2>2, <1>6a
<1>8. u \notin OnStack
  BY DEF Searching, StackSorted, OnStack, Range
<1>9. \A y \in OnStack : y \in V /\ y # u /\ index[y] \in 0 .. curr - 1
  BY <1>1, <1>8, OnStackInside DEF Searching, Numbered, StackSorted, OnStack, Range
<1>10. \A i \in 1 .. n : calls[i].v \in OnStack /\ calls[i].v # u
  BY <1>2, <1>8 DEF Searching, CallsSorted
<1>11. curr \in Nat /\ index \in [V -> Int] /\ lowLink \in [V -> Int]
  BY <1>1 DEF Types
<1>12. WellFormed /\ V' = V /\ Graph' = Graph
  BY DEF SameGraph
\* Nothing is seen that was not seen before.
<1>13. \A v \in V : \A j : IsSeen(v, j)' => IsSeen(v, j) /\ v # u
  <2> TAKE v \in V
  <2> TAKE j
  <2> HAVE IsSeen(v, j)'
  <2>1. j \in DOMAIN Graph[v] /\ \A i \in 1 .. n + 1 : calls'[i].v = v => j < calls'[i].k
    BY <1>3, <1>12 DEF IsSeen
  <2>2. \A i \in DOMAIN calls : calls[i].v = v => j < calls[i].k
    BY <2>1, <1>2, <1>3
  <2>3. j \in 1 .. Len(Graph[v])
    BY <2>1, <1>12 DEF WellFormed, IsGraph, Graph
  <2>4. v # u
    BY <2>1, <2>3, <1>2, <1>4
  <2> QED
    BY <2>1, <2>2, <2>4 DEF IsSeen
<1>14. Types'
  <2>1. FrameSet' = FrameSet
    BY <1>12 DEF FrameSet
  <2>2. [v |-> u, k |-> 1] \in FrameSet
    BY DEF FrameSet
  <2>3. calls' \in Seq(FrameSet)
    BY <1>1, <1>3, <2>2, AppendProperties DEF Types
  <2>4. stack' \in Seq(V)
    BY <1>1, <1>5, AppendProperties DEF Types
  <2>5. index' \in [V -> Int] /\ lowLink' \in [V -> Int] /\ curr' \in Nat
    BY <1>5, <1>11
  <2> QED
    BY <2>1, <2>3, <2>4, <2>5, <1>12 DEF Types
<1>15. Numbered'
  <2>1. \A v \in V : index[v] = -1 \/ index[v] \in 0 .. curr - 1
    BY DEF Searching, Numbered
  <2>2. \A v, w \in V : index[v] = index[w] /\ index[v] # -1 => v = w
    BY DEF Searching, Numbered
  <2>3. \A v \in V : index'[v] = -1 \/ index'[v] \in 0 .. curr' - 1
    BY <2>1, <1>5, <1>6, <1>11
  <2>4. \A v, w \in V : index'[v] = index'[w] /\ index'[v] # -1 => v = w
    BY <2>1, <2>2, <1>6, <1>11
  <2> QED
    BY <2>3, <2>4, <1>12 DEF Numbered
<1>16. StackSorted'
  <2>1. \A i \in 1 .. m : stack'[i] = stack[i] /\ stack[i] \in OnStack
    BY <1>6a DEF OnStack, Range
  <2>2. \A i \in 1 .. m : index'[stack'[i]] = index[stack[i]] /\ index[stack[i]] \in 0 .. curr - 1
    BY <2>1, <1>6, <1>9
  <2>3. \A i, j \in 1 .. m : i < j => index[stack[i]] < index[stack[j]]
    BY <1>6a DEF Searching, StackSorted
  <2>4. index'[stack'[m + 1]] = curr
    BY <1>6a, <1>6
  <2>5. \A i \in 1 .. m + 1 : index'[stack'[i]] # -1
    <3>1. \A i \in 1 .. m : index'[stack'[i]] # -1
      BY <2>2, <1>11
    <3>2. index'[stack'[m + 1]] # -1
      BY <2>4, <1>11
    <3>3. \A i \in 1 .. m + 1 : i \in 1 .. m \/ i = m + 1
      BY <1>6a
    <3> QED
      BY <3>1, <3>2, <3>3
  <2>6. \A i, j \in 1 .. m + 1 : i < j => index'[stack'[i]] < index'[stack'[j]]
    <3> TAKE i, j \in 1 .. m + 1
    <3> HAVE i < j
    <3>1. i \in 1 .. m
      BY <1>6a
    <3>2. CASE j \in 1 .. m
      BY <3>1, <3>2, <2>2, <2>3
    <3>3. CASE j = m + 1
      BY <3>1, <3>3, <2>2, <2>4, <1>11
    <3> QED
      BY <3>2, <3>3, <1>6a
  <2> QED
    BY <1>6a, <2>5, <2>6 DEF StackSorted
<1>17. \A i \in 1 .. n : /\ calls'[i].v = calls[i].v
                         /\ index'[calls'[i].v] = index[calls[i].v]
                         /\ lowLink'[calls'[i].v] = lowLink[calls[i].v]
                         /\ index[calls[i].v] \in 0 .. curr - 1
  BY <1>3, <1>6, <1>9, <1>10
<1>18. CallsSorted'
  <2>1. \A i \in 1 .. n + 1 : calls'[i].v \in OnStack'
    BY <1>2, <1>4, <1>7, <1>10, <1>17
  <2>2. \A i, j \in 1 .. n + 1 : i < j => index'[calls'[i].v] < index'[calls'[j].v]
    <3> TAKE i, j \in 1 .. n + 1
    <3> HAVE i < j
    <3>1. i \in 1 .. n
      BY <1>2
    <3>2. CASE j \in 1 .. n
      BY <3>1, <3>2, <1>2, <1>17 DEF Searching, CallsSorted
    <3>3. CASE j = n + 1
      BY <3>1, <3>3, <1>4, <1>6, <1>11, <1>17
    <3> QED
      BY <3>2, <3>3, <1>2
  <2> QED
    BY <2>1, <2>2, <1>3 DEF CallsSorted
<1>19. CallsChain'
  <2> SUFFICES ASSUME NEW i \in 1 .. n
               PROVE  /\ calls'[i].k \in DOMAIN Graph[calls'[i].v]
                      /\ Graph[calls'[i].v][calls'[i].k] = calls'[i + 1].v
    BY <1>2, <1>3, <1>12 DEF CallsChain
  <2>1. CASE i < n
    <3>1. calls'[i] = calls[i] /\ calls'[i + 1] = calls[i + 1]
      BY <1>2, <1>3, <2>1
    <3> QED
      BY <2>1, <3>1, <1>2 DEF Searching, CallsChain
  <2>2. CASE i = n
    <3>1. calls'[i] = Frame /\ calls # << >>
      BY <1>2, <1>3, <2>2 DEF Frame, Last
    <3> QED
      BY <3>1, <2>2, <1>4
  <2> QED
    BY <2>1, <2>2, <1>2
<1>20. SeenVisited'
  <2> SUFFICES ASSUME NEW v \in V, NEW j, IsSeen(v, j)', index'[v] # -1
               PROVE  index'[Graph[v][j]] # -1
    BY <1>12 DEF SeenVisited
  <2>1. IsSeen(v, j) /\ index[v] # -1
    BY <1>6, <1>13
  <2>2. index[Graph[v][j]] # -1 /\ Graph[v][j] \in V
    BY <2>1, <1>12, EdgeInside DEF Searching, SeenVisited, IsSeen
  <2> QED
    BY <2>2, <1>6
<1>21. FinishedClosed'
  <2> SUFFICES ASSUME NEW v \in V, index'[v] # -1, v \notin OnStack', NEW j \in DOMAIN Graph[v]
               PROVE  index'[Graph[v][j]] # -1 /\ Graph[v][j] \notin OnStack'
    BY <1>12 DEF FinishedClosed
  <2>1. index[v] # -1 /\ v \notin OnStack
    BY <1>6, <1>7
  <2>2. index[Graph[v][j]] # -1 /\ Graph[v][j] \notin OnStack /\ Graph[v][j] \in V
    BY <2>1, <1>12, EdgeInside DEF Searching, FinishedClosed
  <2> QED
    BY <2>2, <1>6, <1>7
\* All active calls reach the new vertex.
<1>22. \A i \in 1 .. n : Reaches(Graph, calls[i].v, u)
  <2> TAKE i \in 1 .. n
  <2>1. n \in 1 .. n /\ calls # << >> /\ Frame = calls[n]
    BY <1>2 DEF Frame, Last
  <2>2. index[calls[i].v] <= index[calls[n].v]
    BY <2>1, <1>2, <1>17 DEF Searching, CallsSorted
  <2>3. Reaches(Graph, calls[i].v, calls[n].v)
    BY <2>1, <2>2, <1>2, <1>10 DEF Searching, CallsReach
  <2>4. Reaches(Graph, calls[n].v, u)
    BY <2>1, ReachesEdge
  <2> QED
    BY <2>3, <2>4, ReachesTrans
<1>23. CallsReach'
  <2> SUFFICES ASSUME NEW i \in 1 .. n + 1, NEW y \in OnStack', index'[calls'[i].v] <= index'[y]
               PROVE  Reaches(Graph, calls'[i].v, y)
    BY <1>3, <1>12 DEF CallsReach
  <2>1. CASE y = u
    BY <2>1, <1>2, <1>4, <1>17, <1>22, ReachesRefl
  <2>2. CASE y \in OnStack /\ i \in 1 .. n
    <3>1. index[calls[i].v] <= index[y]
      BY <2>2, <1>6, <1>9, <1>17
    <3> QED
      BY <2>2, <3>1, <1>2, <1>17 DEF Searching, CallsReach
  <2>3. CASE y \in OnStack /\ i = n + 1
    BY <2>3, <1>4, <1>6, <1>9, <1>11
  <2> QED
    BY <2>1, <2>2, <2>3, <1>2, <1>7
<1>24. StackReaches'
  <2> SUFFICES ASSUME NEW y \in OnStack'
               PROVE  \E i \in 1 .. n + 1 : index'[calls'[i].v] <= index'[y] /\ Reaches(Graph, y, calls'[i].v)
    BY <1>3, <1>12 DEF StackReaches
  <2>1. CASE y = u
    <3>1. n + 1 \in 1 .. n + 1 /\ index'[calls'[n + 1].v] <= index'[y]
      BY <2>1, <1>2, <1>4, <1>6, <1>11
    <3> QED
      BY <2>1, <3>1, <1>4, ReachesRefl
  <2>2. CASE y \in OnStack
    <3>1. PICK i \in 1 .. n : index[calls[i].v] <= index[y] /\ Reaches(Graph, y, calls[i].v)
      BY <2>2, <1>2 DEF Searching, StackReaches
    <3>2. i \in 1 .. n + 1 /\ index'[calls'[i].v] <= index'[y] /\ Reaches(Graph, y, calls'[i].v)
      BY <2>2, <3>1, <1>2, <1>6, <1>9, <1>17
    <3> QED
      BY <3>2
  <2> QED
    BY <2>1, <2>2, <1>7
<1>25. LowEnough'
  <2> SUFFICES ASSUME NEW i \in 1 .. n + 1, NEW x \in OnStack',
                      index'[calls'[i].v] <= index'[x],
                      \A j \in 1 .. n + 1 : j > i => index'[x] < index'[calls'[j].v],
                      NEW e, IsSeen(x, e)', Graph[x][e] \in OnStack'
               PROVE  lowLink'[calls'[i].v] <= index'[Graph[x][e]]
    BY <1>3, <1>12 DEF LowEnough
  <2>1. x \in V /\ x # u /\ IsSeen(x, e)
    BY <1>7, <1>9, <1>13
  <2>2. x \in OnStack /\ index[x] \in 0 .. curr - 1 /\ index'[x] = index[x]
    BY <2>1, <1>6, <1>7, <1>9
  <2>3. Graph[x][e] \in OnStack
    <3>1. index[Graph[x][e]] # -1
      BY <2>1, <2>2, <1>11 DEF Searching, SeenVisited
    <3> QED
      BY <3>1, <1>7
  <2>4. i \in 1 .. n
    BY <2>2, <1>2, <1>4, <1>6, <1>11
  <2>5. index[calls[i].v] <= index[x] /\ \A j \in 1 .. n : j > i => index[x] < index[calls[j].v]
    BY <2>2, <2>4, <1>2, <1>17
  <2>6. lowLink[calls[i].v] <= index[Graph[x][e]]
    BY <2>1, <2>2, <2>3, <2>4, <2>5, <1>2 DEF Searching, LowEnough
  <2> QED
    BY <2>3, <2>4, <2>6, <1>6, <1>9, <1>17
<1>26. LowReached'
  <2> SUFFICES ASSUME NEW i \in 1 .. n + 1
               PROVE  /\ lowLink'[calls'[i].v] <= index'[calls'[i].v]
                      /\ \E w \in OnStack' : index'[w] = lowLink'[calls'[i].v] /\ Reaches(Graph, calls'[i].v, w)
    BY <1>3, <1>12 DEF LowReached
  <2>1. CASE i = n + 1
    BY <2>1, <1>4, <1>6, <1>7, <1>11, ReachesRefl
  <2>2. CASE i \in 1 .. n
    <3>1. PICK w \in OnStack : index[w] = lowLink[calls[i].v] /\ Reaches(Graph, calls[i].v, w)
      BY <2>2, <1>2 DEF Searching, LowReached
    <3>2. lowLink[calls[i].v] <= index[calls[i].v]
      BY <2>2, <1>2 DEF Searching, LowReached
    <3>3. w \in OnStack' /\ index'[w] = index[w]
      BY <3>1, <1>6, <1>7, <1>9
    <3> QED
      BY <2>2, <3>1, <3>2, <3>3, <1>17
  <2> QED
    BY <2>1, <2>2, <1>2
<1> QED
  BY <1>14, <1>15, <1>16, <1>18, <1>19, <1>20, <1>21, <1>23, <1>24, <1>25, <1>26 DEF Searching

-----------------------------------------------------------------------------
(***************************************************************************)
(* A call goes on to its next edge: the m-th call, which is the last one,  *)
(* or the one below a last call that has seen all its edges and returns.   *)
(***************************************************************************)
AllSeen(i) == calls[i].k > Len(Graph[calls[i].v])

GoesOn(m) ==
  /\ calls' = [i \in 1 .. m |-> [v |-> calls[i].v, k |-> IF i = m THEN calls[i].k + 1 ELSE calls[i].k]]
  /\ m = Len(calls) \/ (m = Len(calls) - 1 /\ AllSeen(Len(calls)))
  /\ m > 0 => /\ calls[m].k \in DOMAIN Graph[calls[m].v]
              /\ index[Graph[calls[m].v][calls[m].k]] # -1
  /\ index' = index /\ curr' = curr
  /\ OnStack' \subseteq OnStack /\ \A i \in 1 .. m : calls[i].v \in OnStack'

SeenNow(m, v, j) == m > 0 /\ v = calls[m].v /\ j = calls[m].k

LEMMA AdvanceMeans ==
  ASSUME NEW F \in Seq(FrameSet), F # << >>
  PROVE  Advance(F) = [i \in 1 .. Len(F) |-> [v |-> F[i].v, k |-> IF i = Len(F) THEN F[i].k + 1 ELSE F[i].k]]
<1> DEFINE n == Len(F)
           G == [i \in 1 .. n |-> [v |-> F[i].v, k |-> IF i = n THEN F[i].k + 1 ELSE F[i].k]]
<1>1. n \in Nat /\ n > 0 /\ DOMAIN F = 1 .. n /\ n \in 1 .. n
  BY EmptySeq, LenProperties
<1>2. F = [i \in 1 .. n |-> F[i]]
  BY <1>1
<1>3. ASSUME NEW i \in 1 .. n PROVE F[i] = [v |-> F[i].v, k |-> F[i].k]
  <2>1. F[i] \in FrameSet
    BY <1>1
  <2> QED
    BY <2>1 DEF FrameSet
<1>4. Advance(F) = [F EXCEPT ![n] = [F[n] EXCEPT !.k = F[n].k + 1]]
  BY <1>1 DEF Advance
<1>5. [F[n] EXCEPT !.k = F[n].k + 1] = [v |-> F[n].v, k |-> F[n].k + 1]
  BY <1>1, <1>3
<1>6. Advance(F) = [i \in 1 .. n |-> IF i = n THEN [v |-> F[n].v, k |-> F[n].k + 1] ELSE F[i]]
  <2> HIDE DEF n
  <2> QED
    BY <1>1, <1>2, <1>4, <1>5
<1>7. \A i \in 1 .. n : (IF i = n THEN [v |-> F[n].v, k |-> F[n].k + 1] ELSE F[i]) = G[i]
  BY <1>3
<1> QED
  BY <1>6, <1>7

LEMMA GoOn ==
  ASSUME Searching, SameGraph, NEW m \in Nat, GoesOn(m)
  PROVE  /\ calls' \in Seq(FrameSet)' /\ DOMAIN calls' = 1 .. m /\ Len(calls') = m
         /\ \A i \in 1 .. m : i \in DOMAIN calls /\ calls'[i].v = calls[i].v
         /\ \A v \in V : \A j : IsSeen(v, j)' => IsSeen(v, j) \/ SeenNow(m, v, j)
         /\ Numbered' /\ CallsSorted' /\ CallsChain' /\ SeenVisited' /\ CallsReach'
<1> DEFINE n == Len(calls)
<1>1. Types /\ WellFormed /\ V' = V /\ Graph' = Graph
  BY DEF Searching, SameGraph
<1>2. n \in Nat /\ DOMAIN calls = 1 .. n /\ m <= n
  BY <1>1, LenProperties DEF Types, GoesOn
<1>3. \A i \in 1 .. n : calls[i].v \in V /\ calls[i].k \in Nat \ {0}
  BY <1>1, <1>2, CallInside
<1>4. /\ DOMAIN calls' = 1 .. m
      /\ \A i \in 1 .. m : calls'[i] = [v |-> calls[i].v, k |-> IF i = m THEN calls[i].k + 1 ELSE calls[i].k]
  BY DEF GoesOn
<1>5. \A i \in 1 .. m : i \in 1 .. n /\ calls'[i].v = calls[i].v
                        /\ calls'[i].k = IF i = m THEN calls[i].k + 1 ELSE calls[i].k
  BY <1>2, <1>4
<1>6. calls' \in Seq(FrameSet)' /\ Len(calls') = m
  <2>1. FrameSet' = FrameSet
    BY <1>1 DEF FrameSet
  <2>2. \A i \in 1 .. m : calls'[i] \in FrameSet
    BY <1>2, <1>3, <1>4 DEF FrameSet
  <2>3. calls' = [i \in 1 .. m |-> calls'[i]]
    BY <1>4 DEF GoesOn
  <2>4. calls' \in [1 .. m -> FrameSet]
    BY <2>2, <2>3
  <2>5. calls' \in Seq(FrameSet)
    BY <2>4, SeqDef
  <2> QED
    BY <1>4, <2>1, <2>5, LenProperties
<1>7. ASSUME NEW v \in V, NEW j, IsSeen(v, j)'
      PROVE  IsSeen(v, j) \/ SeenNow(m, v, j)
  <2>1. j \in DOMAIN Graph[v] /\ \A i \in 1 .. m : calls'[i].v = v => j < calls'[i].k
    BY <1>1, <1>4, <1>7 DEF IsSeen
  <2>2. j \in 1 .. Len(Graph[v]) /\ Len(Graph[v]) \in Nat
    BY <1>1, <2>1 DEF WellFormed, IsGraph, Graph
  <2>3. ASSUME NEW i \in 1 .. n, calls[i].v = v, ~ SeenNow(m, v, j)
        PROVE  j < calls[i].k
    <3>1. CASE i \in 1 .. m
      <4>1. j < calls'[i].k
        BY <2>1, <2>3, <3>1, <1>5
      <4>2. CASE i = m
        <5>1. j # calls[m].k /\ j < calls[m].k + 1
          BY <2>3, <4>1, <4>2, <3>1, <1>5 DEF SeenNow
        <5> QED
          BY <5>1, <4>2, <2>2, <1>3
      <4> QED
        BY <4>1, <4>2, <3>1, <1>5
    <3>2. CASE i \notin 1 .. m
      <4>1. m = n \/ (m = n - 1 /\ AllSeen(n))
        BY DEF GoesOn
      <4> HIDE DEF n
      <4>2. i = n /\ AllSeen(n)
        BY <4>1, <3>2, <1>2
      <4> QED
        BY <4>2, <2>2, <2>3, <1>3 DEF AllSeen
    <3> QED
      BY <3>1, <3>2
  <2> QED
    BY <2>1, <2>3, <1>2 DEF IsSeen
<1>8. index' = index /\ curr' = curr
  BY DEF GoesOn
<1>9. Numbered'
  BY <1>1, <1>8 DEF Searching, Numbered
<1>10. CallsSorted'
  <2>1. \A i \in 1 .. m : calls'[i].v \in OnStack'
    BY <1>5 DEF GoesOn
  <2>2. \A i, j \in 1 .. m : i < j => index'[calls'[i].v] < index'[calls'[j].v]
    BY <1>2, <1>5, <1>8 DEF Searching, CallsSorted
  <2> QED
    BY <2>1, <2>2, <1>4 DEF CallsSorted
<1>11. CallsChain'
  <2> SUFFICES ASSUME NEW i \in 1 .. m, i < m
               PROVE  /\ calls'[i].k \in DOMAIN Graph[calls'[i].v]
                      /\ Graph[calls'[i].v][calls'[i].k] = calls'[i + 1].v
    BY <1>1, <1>4, <1>6 DEF CallsChain
  <2>1. i \in DOMAIN calls /\ i < Len(calls) /\ i + 1 \in 1 .. m
    BY <1>2
  <2>2. /\ calls[i].k \in DOMAIN Graph[calls[i].v]
        /\ Graph[calls[i].v][calls[i].k] = calls[i + 1].v
    BY <2>1 DEF Searching, CallsChain
  <2> QED
    BY <2>1, <2>2, <1>5
<1>12. SeenVisited'
  <2> SUFFICES ASSUME NEW v \in V, NEW j, IsSeen(v, j)', index[v] # -1
               PROVE  index[Graph[v][j]] # -1
    BY <1>1, <1>8 DEF SeenVisited
  <2>1. CASE IsSeen(v, j)
    BY <2>1 DEF Searching, SeenVisited
  <2>2. CASE SeenNow(m, v, j)
    BY <2>2 DEF SeenNow, GoesOn
  <2> QED
    BY <2>1, <2>2, <1>7
<1>13. CallsReach'
  <2> SUFFICES ASSUME NEW i \in 1 .. m, NEW y \in OnStack', index[calls'[i].v] <= index[y]
               PROVE  Reaches(Graph, calls'[i].v, y)
    BY <1>1, <1>4, <1>8 DEF CallsReach
  <2>1. i \in DOMAIN calls /\ calls'[i].v = calls[i].v /\ y \in OnStack
    BY <1>2, <1>5 DEF GoesOn
  <2> QED
    BY <2>1 DEF Searching, CallsReach
<1> QED
  BY <1>2, <1>4, <1>5, <1>6, <1>7, <1>9, <1>10, <1>11, <1>12, <1>13

-----------------------------------------------------------------------------
(***************************************************************************)
(* The other steps of the search.                                          *)
(***************************************************************************)
\* The top call and its edges, in the terms of the graph.
LEMMA TopFrame ==
  ASSUME WellFormed, Types, calls # << >>
  PROVE  /\ Len(calls) \in Nat /\ Len(calls) > 0 /\ Len(calls) \in DOMAIN calls
         /\ DOMAIN calls = 1 .. Len(calls)
         /\ Frame = calls[Len(calls)] /\ Frame.v \in V
         /\ nodes[Frame.v].edges = Graph[Frame.v]
         /\ HasEdge => Frame.k \in DOMAIN Graph[Frame.v]
         /\ ~ HasEdge => AllSeen(Len(calls))
<1>1. Len(calls) \in Nat /\ Len(calls) > 0 /\ DOMAIN calls = 1 .. Len(calls)
  BY EmptySeq, LenProperties DEF Types
<1>2. Len(calls) \in DOMAIN calls /\ Frame = calls[Len(calls)]
  BY <1>1 DEF Frame, Last
<1>3. Frame.v \in V /\ Frame.k \in Nat \ {0}
  BY <1>2, CallInside
<1>4. nodes[Frame.v].edges = Graph[Frame.v]
  BY <1>3 DEF Graph
<1>5. Graph[Frame.v] \in Seq(V)
  BY <1>3 DEF WellFormed, IsGraph, Graph
<1>6. Len(Graph[Frame.v]) \in Nat /\ DOMAIN Graph[Frame.v] = 1 .. Len(Graph[Frame.v])
  BY <1>5, LenProperties
<1>7. HasEdge <=> Frame.k <= Len(Graph[Frame.v])
  BY <1>4 DEF HasEdge
<1>8. ~ HasEdge => AllSeen(Len(calls))
  BY <1>2, <1>3, <1>6, <1>7 DEF AllSeen
<1> QED
  BY <1>1, <1>2, <1>3, <1>4, <1>6, <1>7, <1>8

LEMMA CrossEdgeKeeps ==
  ASSUME Searching, SameGraph, CrossEdge
  PROVE  Searching'
<1> DEFINE n == Len(calls)
           v0 == Frame.v
           w0 == Graph[v0][Frame.k]
<1>1. Types /\ WellFormed /\ V' = V /\ Graph' = Graph
  BY DEF Searching, SameGraph
<1>2. /\ calls # << >> /\ n \in Nat /\ n > 0 /\ DOMAIN calls = 1 .. n
      /\ Frame = calls[n] /\ v0 \in V /\ nodes[v0].edges = Graph[v0]
      /\ Frame.k \in DOMAIN Graph[v0]
  BY <1>1, TopFrame DEF CrossEdge, HasEdge
<1>3. /\ index[w0] # -1
      /\ lowLink' = [lowLink EXCEPT ![v0] = IF w0 \in OnStack THEN Lower(@, index[w0]) ELSE @]
      /\ calls' = Advance(calls) /\ stack' = stack /\ index' = index /\ curr' = curr
  BY <1>2 DEF CrossEdge
<1>4. w0 \in V
  BY <1>1, <1>2, EdgeInside
<1>5. GoesOn(n)
  <2>1. calls \in Seq(FrameSet)
    BY <1>1 DEF Types
  <2>2. calls' = [i \in 1 .. n |-> [v |-> calls[i].v, k |-> IF i = n THEN calls[i].k + 1 ELSE calls[i].k]]
    BY <2>1, <1>2, <1>3, AdvanceMeans
  <2>3. OnStack' = OnStack
    BY <1>3 DEF OnStack
  <2>4. \A i \in 1 .. n : calls[i].v \in OnStack'
    BY <2>3, <1>2 DEF Searching, CallsSorted
  <2> QED
    BY <2>2, <2>3, <2>4, <1>2, <1>3 DEF GoesOn
<1>6. OnStack' = OnStack
  BY <1>3 DEF OnStack
<1>7. /\ calls' \in Seq(FrameSet)' /\ DOMAIN calls' = 1 .. n /\ Len(calls') = n
      /\ \A i \in 1 .. n : calls'[i].v = calls[i].v
      /\ \A v \in V : \A j : IsSeen(v, j)' => IsSeen(v, j) \/ SeenNow(n, v, j)
      /\ Numbered' /\ CallsSorted' /\ CallsChain' /\ SeenVisited' /\ CallsReach'
  BY <1>2, <1>5, GoOn
<1>8. \A i \in 1 .. n : calls[i].v \in V /\ calls[i].v \in OnStack /\ (calls[i].v = v0 => i = n)
  <2> TAKE i \in 1 .. n
  <2>1. calls[i].v \in V /\ index[calls[i].v] \in Int
    BY <1>1, <1>2, CallInside DEF Types
  <2>2. i < n => index[calls[i].v] < index[calls[n].v]
    BY <1>2 DEF Searching, CallsSorted
  <2>3. calls[i].v \in OnStack
    BY <1>2 DEF Searching, CallsSorted
  <2> QED
    BY <2>1, <2>2, <2>3, <1>2
<1>9. \A v \in V : index[v] \in Int /\ lowLink[v] \in Int
  BY <1>1 DEF Types
<1>10. /\ \A v \in V : v # v0 => lowLink'[v] = lowLink[v]
       /\ w0 \in OnStack => lowLink'[v0] <= lowLink[v0] /\ lowLink'[v0] <= index[w0]
       /\ lowLink'[v0] = lowLink[v0] \/ (w0 \in OnStack /\ lowLink'[v0] = index[w0] /\ index[w0] < lowLink[v0])
       /\ lowLink' \in [V -> Int]
  <2> DEFINE low == IF w0 \in OnStack THEN Lower(lowLink[v0], index[w0]) ELSE lowLink[v0]
  <2>1. lowLink' = [lowLink EXCEPT ![v0] = low] /\ lowLink \in [V -> Int]
    BY <1>1, <1>3 DEF Types
  <2>2. /\ low \in Int
        /\ w0 \in OnStack => low <= lowLink[v0] /\ low <= index[w0]
        /\ low = lowLink[v0] \/ (w0 \in OnStack /\ low = index[w0] /\ index[w0] < lowLink[v0])
    <3> DEFINE a == lowLink[v0]
               b == index[w0]
    <3>1. a \in Int /\ b \in Int
      BY <1>2, <1>4, <1>9
    <3>2. low = IF w0 \in OnStack THEN (IF b < a THEN b ELSE a) ELSE a
      BY DEF Lower
    <3> HIDE DEF low, a, b, w0, v0
    <3>3. /\ low \in Int
          /\ w0 \in OnStack => low <= a /\ low <= b
          /\ low = a \/ (w0 \in OnStack /\ low = b /\ b < a)
      BY <3>1, <3>2
    <3> QED
      BY <3>3 DEF a, b
  <2> HIDE DEF low, v0, w0
  <2>3. lowLink'[v0] = low /\ lowLink' \in [V -> Int] /\ \A v \in V : v # v0 => lowLink'[v] = lowLink[v]
    BY <2>1, <2>2, <1>2
  <2> QED
    BY <2>2, <2>3
<1>11. Types'
  BY <1>1, <1>3, <1>7, <1>10 DEF Types
<1>12. StackSorted'
  BY <1>3 DEF Searching, StackSorted
<1>13. FinishedClosed'
  BY <1>1, <1>3, <1>6 DEF Searching, FinishedClosed
<1>14. StackReaches'
  <2> SUFFICES ASSUME NEW y \in OnStack
               PROVE  \E i \in 1 .. n : index[calls'[i].v] <= index[y] /\ Reaches(Graph, y, calls'[i].v)
    BY <1>1, <1>3, <1>6, <1>7 DEF StackReaches
  <2> QED
    BY <1>2, <1>7 DEF Searching, StackReaches
<1>15. LowEnough'
  <2> SUFFICES ASSUME NEW i \in 1 .. n, NEW x \in OnStack,
                      index[calls[i].v] <= index[x],
                      \A j \in 1 .. n : j > i => index[x] < index[calls[j].v],
                      NEW e, IsSeen(x, e)', Graph[x][e] \in OnStack
               PROVE  lowLink'[calls[i].v] <= index[Graph[x][e]]
    <3>1. index' = index /\ Graph' = Graph /\ DOMAIN calls' = 1 .. n /\ \A i \in 1 .. n : calls'[i].v = calls[i].v
      BY <1>1, <1>3, <1>7
    <3> QED
      BY <3>1, <1>6 DEF LowEnough
  <2>1. x \in V /\ Graph[x][e] \in V
    BY <1>1, OnStackInside
  <2>2. CASE IsSeen(x, e)
    <3>1. lowLink[calls[i].v] <= index[Graph[x][e]]
      BY <2>2, <1>2 DEF Searching, LowEnough
    <3> QED
      BY <3>1, <2>1, <1>8, <1>9, <1>10
  <2>3. CASE SeenNow(n, x, e)
    <3>1. x = v0 /\ Graph[x][e] = w0
      BY <2>3, <1>2 DEF SeenNow
    <3>2. i = n
      <4>1. n \in 1 .. n /\ calls[n].v = x
        BY <1>2, <3>1
      <4>2. ~ (n > i)
        <5>1. n > i => index[x] < index[calls[n].v]
          BY <4>1
        <5> QED
          BY <4>1, <5>1, <2>1, <1>9
      <4> HIDE DEF n
      <4> QED
        BY <4>2, <1>2
    <3> QED
      BY <3>1, <3>2, <1>2, <1>10
  <2> QED
    BY <2>1, <2>2, <2>3, <1>7
<1>16. LowReached'
  <2> SUFFICES ASSUME NEW i \in 1 .. n
               PROVE  /\ lowLink'[calls[i].v] <= index[calls[i].v]
                      /\ \E w \in OnStack : index[w] = lowLink'[calls[i].v] /\ Reaches(Graph, calls[i].v, w)
    BY <1>1, <1>3, <1>6, <1>7 DEF LowReached
  <2>1. /\ lowLink[calls[i].v] <= index[calls[i].v]
        /\ \E w \in OnStack : index[w] = lowLink[calls[i].v] /\ Reaches(Graph, calls[i].v, w)
    BY <1>2 DEF Searching, LowReached
  <2>2. CASE lowLink'[calls[i].v] = lowLink[calls[i].v]
    BY <2>1, <2>2
  <2>3. CASE lowLink'[calls[i].v] # lowLink[calls[i].v]
    <3>1. calls[i].v = v0 /\ w0 \in OnStack /\ lowLink'[v0] = index[w0] /\ index[w0] < lowLink[v0]
      BY <2>3, <1>8, <1>10
    <3>2. Reaches(Graph, v0, w0)
      BY <1>2, ReachesEdge
    <3>3. lowLink'[calls[i].v] = index[w0] /\ index[w0] < lowLink[calls[i].v]
      BY <3>1
    <3>4. lowLink'[calls[i].v] <= index[calls[i].v]
      BY <2>1, <3>3, <1>4, <1>8, <1>9
    <3> QED
      BY <3>1, <3>2, <3>3, <3>4
  <2> QED
    BY <2>2, <2>3
<1> QED
  BY <1>7, <1>11, <1>12, <1>13, <1>14, <1>15, <1>16 DEF Searching

\* strongConnect returns: the caller, if there is one, goes on.
LEMMA ReturnMeans ==
  ASSUME Searching, SameGraph, calls # << >>, ~ HasEdge, NEW st, Return(st), index' = index, curr' = curr,
         Range(st) \subseteq OnStack,
         \A i \in 1 .. Len(calls) - 1 : calls[i].v \in Range(st),
         NEW m, m = Len(calls) - 1
  PROVE  /\ m \in Nat /\ GoesOn(m) /\ stack' = st
         /\ m = 0 => lowLink' = lowLink
         /\ m > 0 => lowLink' = [lowLink EXCEPT ![calls[m].v] = Lower(@, lowLink[Frame.v])]
<1> DEFINE n == Len(calls)
           rest == Front(calls)
<1>1. Types /\ WellFormed /\ V' = V /\ Graph' = Graph
  BY DEF Searching, SameGraph
<1>2. /\ n \in Nat /\ n > 0 /\ n \in DOMAIN calls /\ DOMAIN calls = 1 .. n
      /\ Frame = calls[n] /\ Frame.v \in V /\ AllSeen(n)
  BY <1>1, TopFrame
<1>3. m \in Nat
  BY <1>2
<1>4. calls \in Seq(FrameSet)
  BY <1>1 DEF Types
<1>5. rest \in Seq(FrameSet) /\ Len(rest) = m /\ \A i \in 1 .. m : rest[i] = calls[i]
  <2>1. rest = SubSeq(calls, 1, m)
    BY DEF Front
  <2> QED
    BY <2>1, <1>2, <1>3, <1>4, SubSeqProperties
<1>6. stack' = st
  BY DEF Return
<1>7. OnStack' = Range(st)
  BY <1>6 DEF OnStack
<1>8. CASE m = 0
  <2>1. rest = << >>
    BY <1>5, <1>8, EmptySeq
  <2>2. calls' = << >> /\ lowLink' = lowLink
    BY <2>1 DEF Return
  <2>3. << >> = [i \in 1 .. m |-> [v |-> calls[i].v, k |-> IF i = m THEN calls[i].k + 1 ELSE calls[i].k]]
    <3> DEFINE none == [i \in 1 .. m |-> [v |-> calls[i].v, k |-> IF i = m THEN calls[i].k + 1 ELSE calls[i].k]]
    <3>1. none \in [1 .. m -> FrameSet]
      <4>1. \A i : i \notin 1 .. m
        BY <1>2, <1>8
      <4> QED
        BY <4>1
    <3>2. DOMAIN none = 1 .. m
      OBVIOUS
    <3> HIDE DEF none
    <3>3. none \in Seq(FrameSet)
      BY <3>1, <1>3, SeqDef
    <3>4. Len(none) = 0
      <4>1. DOMAIN none = 1 .. Len(none) /\ Len(none) \in Nat
        BY <3>3, LenProperties
      <4>2. 1 \notin 1 .. m
        BY <1>2, <1>8
      <4>3. 1 \notin 1 .. Len(none)
        BY <3>2, <4>1, <4>2
      <4> QED
        BY <4>1, <4>3
    <3>5. none = << >>
      BY <3>3, <3>4, EmptySeq
    <3> QED
      BY <3>5 DEF none
  <2>4. m = Len(calls) - 1 /\ AllSeen(Len(calls)) /\ ~ (m > 0) /\ \A i : i \notin 1 .. m
    BY <1>2, <1>8
  <2>5. GoesOn(m)
    BY <2>2, <2>3, <2>4, <1>7 DEF GoesOn
  <2> QED
    BY <2>2, <2>4, <2>5, <1>3, <1>6
<1>9. CASE m # 0
  <2>1. rest # << >> /\ m > 0
    BY <1>3, <1>5, <1>9, EmptySeq
  <2>2. calls' = Advance(rest) /\ lowLink' = [lowLink EXCEPT ![Last(rest).v] = Lower(@, lowLink[Frame.v])]
    BY <2>1 DEF Return
  <2>3. Last(rest) = calls[m] /\ m \in 1 .. m
    BY <2>1, <1>3, <1>5 DEF Last
  <2>4. Advance(rest) = [i \in 1 .. m |-> [v |-> rest[i].v, k |-> IF i = m THEN rest[i].k + 1 ELSE rest[i].k]]
    BY <2>1, <1>5, AdvanceMeans
  <2>5. calls' = [i \in 1 .. m |-> [v |-> calls[i].v, k |-> IF i = m THEN calls[i].k + 1 ELSE calls[i].k]]
    BY <2>2, <2>4, <1>5
  <2>6. /\ calls[m].k \in DOMAIN Graph[calls[m].v]
        /\ Graph[calls[m].v][calls[m].k] = calls[n].v
    <3>1. m \in DOMAIN calls /\ m < Len(calls) /\ m + 1 = n
      BY <2>1, <1>2, <1>3
    <3> QED
      BY <3>1 DEF Searching, CallsChain
  <2>7. index[calls[n].v] # -1
    BY <1>2 DEF Searching, CallsSorted, StackSorted, OnStack, Range
  <2>8. GoesOn(m)
    BY <2>5, <2>6, <2>7, <1>2, <1>7 DEF GoesOn
  <2> QED
    BY <2>1, <2>2, <2>3, <2>8, <1>3, <1>6
<1> QED
  BY <1>8, <1>9

LEMMA ReturnInsideKeeps ==
  ASSUME Searching, SameGraph, ReturnInside
  PROVE  Searching'
<1> DEFINE n == Len(calls)
           m == n - 1
           v0 == Frame.v
           up == calls[m].v
<1>1. Types /\ WellFormed /\ V' = V /\ Graph' = Graph
  BY DEF Searching, SameGraph
<1>2. calls # << >> /\ ~ HasEdge /\ Return(stack) /\ index' = index /\ curr' = curr /\ lowLink[v0] # index[v0]
  BY DEF ReturnInside, AtRoot
<1>3. /\ n \in Nat /\ n > 0 /\ n \in DOMAIN calls /\ DOMAIN calls = 1 .. n
      /\ Frame = calls[n] /\ v0 \in V /\ AllSeen(n)
  BY <1>1, <1>2, TopFrame
<1>4. \A i \in 1 .. n : calls[i].v \in V /\ calls[i].v \in OnStack
  BY <1>1, <1>3, CallInside DEF Searching, CallsSorted
<1>5. \A v \in V : index[v] \in Int /\ lowLink[v] \in Int
  BY <1>1 DEF Types
<1>3a. \A i \in 1 .. n : i \in 1 .. m \/ i = n
  <2>1. n \in Nat
    BY <1>3
  <2> HIDE DEF n
  <2> QED
    BY <2>1
\* v0 reaches something below itself on the stack, and so a call below its own.
<1>6. PICK w \in OnStack : index[w] = lowLink[v0] /\ Reaches(Graph, v0, w) /\ index[w] < index[v0]
  <2>1. /\ lowLink[v0] <= index[v0]
        /\ \E w \in OnStack : index[w] = lowLink[v0] /\ Reaches(Graph, v0, w)
    BY <1>3 DEF Searching, LowReached
  <2> QED
    BY <2>1, <1>2, <1>3, <1>5
<1>7. PICK i0 \in 1 .. n : index[calls[i0].v] <= index[w] /\ Reaches(Graph, w, calls[i0].v)
  BY <1>3 DEF Searching, StackReaches
<1>8. i0 \in 1 .. m /\ m \in Nat /\ m > 0
  <2>1. w \in V
    BY <1>1, OnStackInside
  <2>2. i0 # n
    <3>1. ~ (index[v0] <= index[w])
      BY <2>1, <1>3, <1>5, <1>6
    <3> QED
      BY <3>1, <1>3, <1>7
  <2> QED
    BY <2>2, <1>3, <1>7
<1>9. /\ GoesOn(m) /\ stack' = stack
      /\ lowLink' = [lowLink EXCEPT ![up] = Lower(@, lowLink[v0])]
  <2>1. OnStack = Range(stack) /\ \A i \in 1 .. Len(calls) - 1 : calls[i].v \in Range(stack)
    BY <1>3, <1>4 DEF OnStack
  <2> QED
    BY <2>1, <1>2, <1>8, ReturnMeans
<1>10. /\ calls' \in Seq(FrameSet)' /\ DOMAIN calls' = 1 .. m /\ Len(calls') = m
       /\ \A i \in 1 .. m : i \in DOMAIN calls /\ calls'[i].v = calls[i].v
       /\ \A v \in V : \A j : IsSeen(v, j)' => IsSeen(v, j) \/ SeenNow(m, v, j)
       /\ Numbered' /\ CallsSorted' /\ CallsChain' /\ SeenVisited' /\ CallsReach'
  BY <1>8, <1>9, GoOn
<1>11. OnStack' = OnStack
  BY <1>9 DEF OnStack
<1>12. m \in 1 .. n /\ m < n /\ up \in V
  BY <1>3, <1>4, <1>8
<1>13. index[up] < index[v0]
  BY <1>3, <1>12 DEF Searching, CallsSorted
<1>14. Graph[up][calls[m].k] = v0 /\ calls[m].k \in DOMAIN Graph[up]
  <2>1. m \in DOMAIN calls /\ m < Len(calls) /\ m + 1 = n
    BY <1>3, <1>12
  <2> QED
    BY <2>1, <1>3 DEF Searching, CallsChain
<1>15. \A i \in 1 .. m : calls[i].v = up => i = m
  <2> TAKE i \in 1 .. m
  <2>1. i \in 1 .. n /\ (i < m => index[calls[i].v] < index[up])
    BY <1>3, <1>12 DEF Searching, CallsSorted
  <2> QED
    BY <2>1, <1>4, <1>5, <1>8
<1>16. /\ lowLink' \in [V -> Int]
       /\ \A v \in V : v # up => lowLink'[v] = lowLink[v]
       /\ lowLink'[up] <= lowLink[up] /\ lowLink'[up] <= lowLink[v0]
       /\ lowLink'[up] = lowLink[up] \/ (lowLink'[up] = lowLink[v0] /\ lowLink[v0] < lowLink[up])
  <2> DEFINE low == Lower(lowLink[up], lowLink[v0])
  <2>1. lowLink' = [lowLink EXCEPT ![up] = low] /\ lowLink \in [V -> Int]
    BY <1>1, <1>9 DEF Types
  <2>2. /\ low \in Int /\ low <= lowLink[up] /\ low <= lowLink[v0]
        /\ low = lowLink[up] \/ (low = lowLink[v0] /\ lowLink[v0] < lowLink[up])
    BY <1>3, <1>5, <1>12 DEF Lower
  <2> HIDE DEF low, up, v0
  <2>3. lowLink'[up] = low /\ lowLink' \in [V -> Int] /\ \A v \in V : v # up => lowLink'[v] = lowLink[v]
    BY <2>1, <2>2, <1>12
  <2> QED
    BY <2>2, <2>3
<1>17. Types'
  BY <1>1, <1>2, <1>9, <1>10, <1>16 DEF Types
<1>18. StackSorted'
  BY <1>2, <1>9 DEF Searching, StackSorted
<1>19. FinishedClosed'
  BY <1>1, <1>2, <1>11 DEF Searching, FinishedClosed
<1>20. StackReaches'
  <2> SUFFICES ASSUME NEW y \in OnStack
               PROVE  \E i \in 1 .. m : index[calls'[i].v] <= index[y] /\ Reaches(Graph, y, calls'[i].v)
    BY <1>1, <1>2, <1>10, <1>11 DEF StackReaches
  <2>1. PICK i \in 1 .. n : index[calls[i].v] <= index[y] /\ Reaches(Graph, y, calls[i].v)
    BY <1>3 DEF Searching, StackReaches
  <2>2. CASE i \in 1 .. m
    BY <2>1, <2>2, <1>10
  <2>3. CASE i \notin 1 .. m
    <3>1. i = n
      BY <2>3, <1>3a
    <3>2. index[v0] <= index[y] /\ Reaches(Graph, y, v0)
      BY <2>1, <3>1, <1>3
    <3>3. Reaches(Graph, y, calls[i0].v)
      BY <3>2, <1>6, <1>7, ReachesTrans
    <3>4. index[calls[i0].v] <= index[y]
      <4>1. y \in V /\ w \in V /\ calls[i0].v \in V
        BY <1>1, <1>4, <1>7, OnStackInside
      <4> QED
        BY <4>1, <3>2, <1>3, <1>5, <1>6, <1>7
    <3> QED
      BY <3>3, <3>4, <1>8, <1>10
  <2> QED
    BY <2>2, <2>3
<1>21. LowEnough'
  <2> SUFFICES ASSUME NEW i \in 1 .. m, NEW x \in OnStack,
                      index[calls[i].v] <= index[x],
                      \A j \in 1 .. m : j > i => index[x] < index[calls[j].v],
                      NEW e, IsSeen(x, e)', Graph[x][e] \in OnStack
               PROVE  lowLink'[calls[i].v] <= index[Graph[x][e]]
    BY <1>1, <1>2, <1>10, <1>11 DEF LowEnough
  <2>1. x \in V /\ Graph[x][e] \in V
    BY <1>1, OnStackInside
  <2>2. calls[i].v \in V /\ i \in 1 .. n /\ (calls[i].v = up => i = m)
    BY <1>4, <1>10, <1>3, <1>15
  <2>3. lowLink'[calls[i].v] <= lowLink[calls[i].v]
    BY <2>2, <1>5, <1>16
  <2>4. CASE SeenNow(m, x, e)
    <3>1. x = up /\ Graph[x][e] = v0
      BY <2>4, <1>14 DEF SeenNow
    <3>2. m \in 1 .. m /\ ~ (index[x] < index[calls[m].v])
      BY <3>1, <1>5, <1>8, <1>12
    <3>3. ~ (m > i)
      BY <3>2
    <3>4. i = m
      BY <3>3, <1>8
    <3>5. lowLink[v0] <= index[v0]
      BY <1>3 DEF Searching, LowReached
    <3>6. lowLink'[up] <= lowLink[v0]
      BY <1>16
    <3>7. lowLink'[up] <= index[v0]
      BY <3>5, <3>6, <1>3, <1>5, <1>12, <1>16
    <3> QED
      BY <3>1, <3>4, <3>7
  <2>5. CASE IsSeen(x, e) /\ (i # m \/ index[x] < index[v0])
    <3>1. \A j \in 1 .. n : j > i => index[x] < index[calls[j].v]
      <4> SUFFICES ASSUME NEW j \in 1 .. n, j > i, j \notin 1 .. m PROVE index[x] < index[calls[j].v]
        OBVIOUS
      <4>1. j = n
        BY <1>3a
      <4>2. CASE i = m
        BY <4>1, <4>2, <2>5, <1>3
      <4>3. CASE i # m
        <5>1. m \in 1 .. m /\ m > i
          BY <4>3, <1>8
        <5>2. index[x] < index[up]
          BY <5>1
        <5> QED
          BY <5>2, <4>1, <2>1, <1>3, <1>5, <1>12, <1>13
      <4> QED
        BY <4>2, <4>3
    <3>2. lowLink[calls[i].v] <= index[Graph[x][e]]
      BY <3>1, <2>2, <2>5, <1>3 DEF Searching, LowEnough
    <3> QED
      BY <3>2, <2>1, <2>2, <2>3, <1>5, <1>16
  <2>6. CASE IsSeen(x, e) /\ i = m /\ index[v0] <= index[x]
    <3>1. lowLink[v0] <= index[Graph[x][e]]
      <4>1. \A j \in 1 .. n : ~ (j > n)
        BY <1>3
      <4> QED
        BY <4>1, <2>6, <1>3 DEF Searching, LowEnough
    <3>2. lowLink'[up] <= lowLink[v0]
      BY <1>16
    <3>3. lowLink'[up] \in Int /\ lowLink[v0] \in Int /\ index[Graph[x][e]] \in Int
      BY <2>1, <1>3, <1>5, <1>12, <1>16
    <3> HIDE DEF up, v0
    <3>4. lowLink'[up] <= index[Graph[x][e]]
      BY <3>1, <3>2, <3>3
    <3> QED
      BY <3>4, <2>6 DEF up
  <2>7. index[x] < index[v0] \/ index[v0] <= index[x]
    BY <2>1, <1>3, <1>5
  <2>8. IsSeen(x, e) \/ SeenNow(m, x, e)
    BY <2>1, <1>10
  <2> QED
    BY <2>4, <2>5, <2>6, <2>7, <2>8
<1>22. LowReached'
  <2> SUFFICES ASSUME NEW i \in 1 .. m
               PROVE  /\ lowLink'[calls[i].v] <= index[calls[i].v]
                      /\ \E x \in OnStack : index[x] = lowLink'[calls[i].v] /\ Reaches(Graph, calls[i].v, x)
    BY <1>1, <1>2, <1>10, <1>11 DEF LowReached
  <2>1. i \in 1 .. n
    BY <1>3, <1>10
  <2>2. /\ lowLink[calls[i].v] <= index[calls[i].v]
        /\ \E x \in OnStack : index[x] = lowLink[calls[i].v] /\ Reaches(Graph, calls[i].v, x)
    BY <2>1, <1>3 DEF Searching, LowReached
  <2>3. CASE lowLink'[calls[i].v] = lowLink[calls[i].v]
    BY <2>2, <2>3
  <2>4. CASE lowLink'[calls[i].v] # lowLink[calls[i].v]
    <3>1. calls[i].v = up /\ lowLink'[up] = lowLink[v0] /\ lowLink[v0] < lowLink[up]
      BY <2>1, <2>4, <1>4, <1>16
    <3>2. Reaches(Graph, up, w)
      BY <1>6, <1>14, ReachesEdge, ReachesTrans
    <3>3. lowLink'[up] <= index[up]
      BY <3>1, <2>2, <1>3, <1>5, <1>12
    <3> QED
      BY <3>1, <3>2, <3>3, <1>6
  <2> QED
    BY <2>3, <2>4
<1> QED
  BY <1>10, <1>17, <1>18, <1>19, <1>20, <1>21, <1>22 DEF Searching

\* The stack from the top call's vertex on, and what lies below it.
LEMMA ComponentMeans ==
  ASSUME Searching, WellFormed, calls # << >>
  PROVE  /\ Range(Component) = { y \in OnStack : index[Frame.v] <= index[y] }
         /\ Range(Below) = { y \in OnStack : index[y] < index[Frame.v] }
         /\ Below \in Seq(V) /\ Len(Below) <= Len(stack)
         /\ \A i \in 1 .. Len(Below) : Below[i] = stack[i]
<1> DEFINE m == Len(stack)
           v0 == Frame.v
           p == CHOOSE i \in DOMAIN stack : stack[i] = v0
<1>1. Types /\ stack \in Seq(V)
  BY DEF Searching, Types
<1>2. m \in Nat /\ DOMAIN stack = 1 .. m /\ \A i \in 1 .. m : stack[i] \in V
  BY <1>1, LenProperties
<1>3. v0 \in OnStack /\ v0 \in V
  BY <1>1, TopFrame DEF Searching, CallsSorted
<1>4. p \in 1 .. m /\ stack[p] = v0
  BY <1>2, <1>3 DEF OnStack, Range
<1>5. Component = SubSeq(stack, p, m)
  BY DEF Component
<1> HIDE DEF p, v0
<1>6. /\ Component \in Seq(V) /\ Len(Component) = m - p + 1
      /\ \A i \in 1 .. m - p + 1 : Component[i] = stack[p + i - 1]
  BY <1>1, <1>2, <1>4, <1>5, SubSeqProperties
<1>7. Below = SubSeq(stack, 1, p - 1)
  <2>1. m - (m - p + 1) = p - 1
    BY <1>2, <1>4
  <2> QED
    BY <1>6, <2>1 DEF Below
<1>8. /\ Below \in Seq(V) /\ Len(Below) = p - 1
      /\ \A i \in 1 .. p - 1 : Below[i] = stack[i]
  BY <1>1, <1>2, <1>4, <1>7, SubSeqProperties
<1>9. \A i \in 1 .. m : index[stack[i]] \in Int
  BY <1>1, <1>2 DEF Types
<1>10. \A i \in 1 .. m : (p <= i <=> index[v0] <= index[stack[i]]) /\ (i < p <=> index[stack[i]] < index[v0])
  <2> TAKE i \in 1 .. m
  <2>1. i < p => index[stack[i]] < index[stack[p]]
    BY <1>2, <1>4 DEF Searching, StackSorted
  <2>2. p < i => index[stack[p]] < index[stack[i]]
    BY <1>2, <1>4 DEF Searching, StackSorted
  <2> QED
    BY <2>1, <2>2, <1>2, <1>4, <1>9
<1>11. OnStack = { stack[i] : i \in 1 .. m }
  BY <1>2 DEF OnStack, Range
<1>12. Range(Component) = { stack[i] : i \in p .. m }
  <2>1. Range(Component) = { Component[i] : i \in 1 .. m - p + 1 }
    BY <1>2, <1>4, <1>6, LenProperties DEF Range
  <2>2. ASSUME NEW i \in 1 .. m - p + 1 PROVE Component[i] = stack[p + i - 1] /\ p + i - 1 \in p .. m
    BY <1>2, <1>4, <1>6
  <2>3. ASSUME NEW i \in p .. m PROVE i - p + 1 \in 1 .. m - p + 1 /\ Component[i - p + 1] = stack[i]
    <3>1. i - p + 1 \in 1 .. m - p + 1 /\ p + (i - p + 1) - 1 = i
      BY <1>2, <1>4
    <3> QED
      BY <3>1, <1>6
  <2> QED
    BY <2>1, <2>2, <2>3
<1>13. Range(Below) = { stack[i] : i \in 1 .. p - 1 }
  BY <1>2, <1>4, <1>8, LenProperties DEF Range
<1>14. Range(Component) = { y \in OnStack : index[v0] <= index[y] }
  <2>1. \A i \in p .. m : i \in 1 .. m /\ index[v0] <= index[stack[i]]
    BY <1>2, <1>4, <1>10
  <2>2. \A i \in 1 .. m : index[v0] <= index[stack[i]] => i \in p .. m
    BY <1>2, <1>4, <1>10
  <2> QED
    BY <1>11, <1>12, <2>1, <2>2
<1>15. Range(Below) = { y \in OnStack : index[y] < index[v0] }
  <2>1. \A i \in 1 .. p - 1 : i \in 1 .. m /\ index[stack[i]] < index[v0]
    BY <1>2, <1>4, <1>10
  <2>2. \A i \in 1 .. m : index[stack[i]] < index[v0] => i \in 1 .. p - 1
    BY <1>2, <1>4, <1>10
  <2> QED
    BY <1>11, <1>13, <2>1, <2>2
<1>16. Len(Below) <= m
  BY <1>2, <1>4, <1>8
<1> QED
  BY <1>8, <1>14, <1>15, <1>16 DEF v0

\* No edge leads from a component to what is on the stack below it, or to what was
\* not visited.
LEMMA NothingLeavesComponent ==
  ASSUME Searching, WellFormed, AtRoot, NEW w \in Range(Component), NEW j \in DOMAIN Graph[w]
  PROVE  /\ Graph[w][j] \in V /\ index[Graph[w][j]] # -1
         /\ Graph[w][j] \in Range(Component) \/ Graph[w][j] \notin OnStack
<1> DEFINE n == Len(calls)
           v0 == Frame.v
           x == Graph[w][j]
<1>1. Types /\ calls # << >> /\ ~ HasEdge /\ lowLink[v0] = index[v0]
  BY DEF Searching, AtRoot
<1>2. n \in Nat /\ n \in DOMAIN calls /\ DOMAIN calls = 1 .. n /\ Frame = calls[n] /\ v0 \in V /\ AllSeen(n)
  BY <1>1, TopFrame
<1>3. w \in OnStack /\ w \in V /\ index[v0] <= index[w]
  BY <1>1, ComponentMeans, OnStackInside
<1>4. \A v \in V : index[v] \in Int
  BY <1>1 DEF Types
<1>5. x \in V
  BY <1>3, EdgeInside
<1>6. IsSeen(w, j)
  <2> SUFFICES ASSUME NEW i \in 1 .. n, calls[i].v = w PROVE j < calls[i].k
    BY <1>2 DEF IsSeen
  <2>1. i = n
    <3>1. i < n => index[w] < index[v0]
      BY <1>2 DEF Searching, CallsSorted
    <3>2. ~ (i < n)
      BY <3>1, <1>2, <1>3, <1>4
    <3> HIDE DEF n
    <3> QED
      BY <3>2, <1>2
  <2>2. Graph[w] \in Seq(V)
    BY <1>3 DEF WellFormed, IsGraph, Graph
  <2>3. j \in 1 .. Len(Graph[w]) /\ Len(Graph[w]) \in Nat
    BY <2>2, LenProperties
  <2>4. calls[n].k > Len(Graph[w]) /\ calls[n].k \in Nat
    BY <2>1, <1>1, <1>2, CallInside DEF AllSeen
  <2> QED
    BY <2>1, <2>3, <2>4
<1>7. index[w] # -1
  BY <1>3 DEF Searching, StackSorted, OnStack, Range
<1>8. index[x] # -1
  BY <1>3, <1>6, <1>7 DEF Searching, SeenVisited
<1>9. x \in OnStack => lowLink[v0] <= index[x]
  <2>1. \A i \in 1 .. n : ~ (i > n)
    BY <1>2
  <2> QED
    BY <2>1, <1>2, <1>3, <1>6 DEF Searching, LowEnough
<1> QED
  BY <1>1, <1>5, <1>8, <1>9, ComponentMeans

LEMMA PopKeeps ==
  ASSUME Searching, SameGraph, AtRoot, Return(Below), index' = index, curr' = curr
  PROVE  Searching'
<1> DEFINE n == Len(calls)
           m == n - 1
           v0 == Frame.v
<1>1. Types /\ WellFormed /\ V' = V /\ Graph' = Graph
  BY DEF Searching, SameGraph
<1>2. calls # << >> /\ ~ HasEdge
  BY DEF AtRoot
<1>3. /\ n \in Nat /\ n > 0 /\ n \in DOMAIN calls /\ DOMAIN calls = 1 .. n
      /\ Frame = calls[n] /\ v0 \in V
  BY <1>1, <1>2, TopFrame
<1>4. \A i \in 1 .. n : calls[i].v \in V /\ calls[i].v \in OnStack
  BY <1>1, <1>3, CallInside DEF Searching, CallsSorted
<1>5. \A v \in V : index[v] \in Int /\ lowLink[v] \in Int
  BY <1>1 DEF Types
<1>6. \A i \in 1 .. n : i \in 1 .. m \/ i = n
  <2>1. n \in Nat
    BY <1>3
  <2> HIDE DEF n
  <2> QED
    BY <2>1
<1>7. \A i \in 1 .. m : i \in 1 .. n /\ i # n /\ index[calls[i].v] < index[v0]
  <2> TAKE i \in 1 .. m
  <2>1. i \in 1 .. n /\ i < n
    BY <1>3
  <2> QED
    BY <2>1, <1>3 DEF Searching, CallsSorted
<1>8. /\ Range(Component) = { y \in OnStack : index[v0] <= index[y] }
      /\ Range(Below) = { y \in OnStack : index[y] < index[v0] }
      /\ Below \in Seq(V) /\ Len(Below) <= Len(stack)
      /\ \A i \in 1 .. Len(Below) : Below[i] = stack[i]
  BY <1>1, <1>2, ComponentMeans
<1>9. \A i \in 1 .. m : calls[i].v \in Range(Below)
  BY <1>4, <1>7, <1>8
<1>10. /\ m \in Nat /\ GoesOn(m) /\ stack' = Below
       /\ m = 0 => lowLink' = lowLink
       /\ m > 0 => lowLink' = [lowLink EXCEPT ![calls[m].v] = Lower(@, lowLink[v0])]
  BY <1>2, <1>8, <1>9, ReturnMeans
<1>11. /\ calls' \in Seq(FrameSet)' /\ DOMAIN calls' = 1 .. m /\ Len(calls') = m
       /\ \A i \in 1 .. m : i \in DOMAIN calls /\ calls'[i].v = calls[i].v
       /\ \A v \in V : \A j : IsSeen(v, j)' => IsSeen(v, j) \/ SeenNow(m, v, j)
       /\ Numbered' /\ CallsSorted' /\ CallsChain' /\ SeenVisited' /\ CallsReach'
  BY <1>10, GoOn
<1>12. OnStack' = { y \in OnStack : index[y] < index[v0] }
  BY <1>8, <1>10 DEF OnStack
\* The number of the root is not below the caller's lowLink.
<1>13. lowLink' = lowLink
  <2>1. CASE m = 0
    BY <2>1, <1>10
  <2>2. CASE m # 0
    <3> DEFINE up == calls[m].v
    <3>1. m > 0 /\ m \in 1 .. m
      <4>1. m \in Nat
        BY <1>10
      <4> HIDE DEF m
      <4> QED
        BY <2>2, <4>1
    <3>2. up \in V /\ index[up] < index[v0]
      BY <3>1, <1>4, <1>7
    <3>3. lowLink[up] <= index[up]
      BY <3>1, <1>11 DEF Searching, LowReached
    <3>4. lowLink[v0] = index[v0]
      BY DEF AtRoot
    <3>5. Lower(lowLink[up], lowLink[v0]) = lowLink[up]
      BY <3>2, <3>3, <3>4, <1>3, <1>5 DEF Lower
    <3>6. lowLink' = [lowLink EXCEPT ![up] = lowLink[up]] /\ lowLink \in [V -> Int]
      BY <3>1, <3>5, <1>1, <1>10 DEF Types
    <3> HIDE DEF up
    <3> QED
      BY <3>2, <3>6
  <2> QED
    BY <2>1, <2>2
<1>14. Types'
  BY <1>1, <1>8, <1>10, <1>11, <1>13 DEF Types, GoesOn
<1>15. index' = index
  OBVIOUS
<1>16. StackSorted'
  <2>1. DOMAIN stack' = 1 .. Len(Below) /\ Len(Below) \in Nat /\ \A i \in 1 .. Len(Below) : i \in DOMAIN stack
    <3>1. stack \in Seq(V)
      BY <1>1 DEF Types
    <3>2. Len(stack) \in Nat /\ DOMAIN stack = 1 .. Len(stack)
      BY <3>1, LenProperties
    <3> QED
      BY <3>2, <1>8, <1>10, LenProperties
  <2>2. \A i \in 1 .. Len(Below) : index'[stack'[i]] = index[stack[i]]
    BY <1>8, <1>10
  <2>3. \A i \in 1 .. Len(Below) : index[stack[i]] # -1
    BY <2>1 DEF Searching, StackSorted
  <2>4. \A i, j \in 1 .. Len(Below) : i < j => index[stack[i]] < index[stack[j]]
    BY <2>1 DEF Searching, StackSorted
  <2> QED
    BY <2>1, <2>2, <2>3, <2>4 DEF StackSorted
<1>17. FinishedClosed'
  <2> SUFFICES ASSUME NEW v \in V, index[v] # -1, v \notin OnStack', NEW j \in DOMAIN Graph[v]
               PROVE  index[Graph[v][j]] # -1 /\ Graph[v][j] \notin OnStack'
    BY <1>1, <1>15 DEF FinishedClosed
  <2>1. CASE v \notin OnStack
    BY <2>1, <1>12 DEF Searching, FinishedClosed
  <2>2. CASE v \in OnStack
    <3>1. v \in Range(Component)
      BY <2>2, <1>3, <1>5, <1>8, <1>12
    <3>2. /\ Graph[v][j] \in V /\ index[Graph[v][j]] # -1
          /\ Graph[v][j] \in Range(Component) \/ Graph[v][j] \notin OnStack
      BY <3>1, <1>1, NothingLeavesComponent
    <3> QED
      BY <3>2, <1>3, <1>5, <1>8, <1>12
  <2> QED
    BY <2>1, <2>2
<1>18. StackReaches'
  <2> SUFFICES ASSUME NEW y \in OnStack'
               PROVE  \E i \in 1 .. m : index[calls'[i].v] <= index[y] /\ Reaches(Graph, y, calls'[i].v)
    BY <1>1, <1>11, <1>15 DEF StackReaches
  <2>1. y \in OnStack /\ index[y] < index[v0] /\ y \in V
    BY <1>1, <1>12, OnStackInside
  <2>2. PICK i \in 1 .. n : index[calls[i].v] <= index[y] /\ Reaches(Graph, y, calls[i].v)
    BY <2>1, <1>3 DEF Searching, StackReaches
  <2>3. ~ (index[v0] <= index[y])
    BY <2>1, <1>3, <1>5
  <2>4. i \in 1 .. m
    BY <2>2, <2>3, <1>3, <1>6
  <2> QED
    BY <2>2, <2>4, <1>11
<1>19. LowEnough'
  <2> SUFFICES ASSUME NEW i \in 1 .. m, NEW x \in OnStack',
                      index[calls[i].v] <= index[x],
                      \A j \in 1 .. m : j > i => index[x] < index[calls[j].v],
                      NEW e, IsSeen(x, e)', Graph[x][e] \in OnStack'
               PROVE  lowLink[calls[i].v] <= index[Graph[x][e]]
    BY <1>1, <1>11, <1>13, <1>15 DEF LowEnough
  <2>1. x \in OnStack /\ x \in V /\ index[x] < index[v0] /\ Graph[x][e] \in OnStack /\ index[Graph[x][e]] < index[v0]
    BY <1>1, <1>12, OnStackInside
  <2>2. \A j \in 1 .. n : j > i => index[x] < index[calls[j].v]
    BY <2>1, <1>3, <1>6
  <2>3. ~ SeenNow(m, x, e)
    <3> SUFFICES ASSUME SeenNow(m, x, e) PROVE FALSE
      OBVIOUS
    <3>1. m \in DOMAIN calls /\ m < Len(calls) /\ m + 1 = n
      BY <1>3, <1>10 DEF SeenNow
    <3>2. Graph[x][e] = v0
      BY <3>1, <1>3 DEF SeenNow, Searching, CallsChain
    <3> QED
      BY <2>1, <3>2, <1>3, <1>5
  <2>4. IsSeen(x, e)
    BY <2>1, <2>3, <1>11
  <2> QED
    BY <2>1, <2>2, <2>4, <1>3, <1>7 DEF Searching, LowEnough
<1>20. LowReached'
  <2> SUFFICES ASSUME NEW i \in 1 .. m
               PROVE  /\ lowLink[calls[i].v] <= index[calls[i].v]
                      /\ \E w \in OnStack' : index[w] = lowLink[calls[i].v] /\ Reaches(Graph, calls[i].v, w)
    BY <1>1, <1>11, <1>13, <1>15 DEF LowReached
  <2>1. lowLink[calls[i].v] <= index[calls[i].v] /\ calls[i].v \in V /\ index[calls[i].v] < index[v0]
    BY <1>3, <1>4, <1>7 DEF Searching, LowReached
  <2>2. PICK w \in OnStack : index[w] = lowLink[calls[i].v] /\ Reaches(Graph, calls[i].v, w)
    BY <1>3, <1>7 DEF Searching, LowReached
  <2>3. index[w] < index[v0]
    BY <2>1, <2>2, <1>3, <1>5
  <2> QED
    BY <2>1, <2>2, <2>3, <1>12
<1> QED
  BY <1>11, <1>14, <1>16, <1>17, <1>18, <1>19, <1>20 DEF Searching

-----------------------------------------------------------------------------
(***************************************************************************)
(* The values of the sets change, their edges do not.                      *)
(***************************************************************************)
LEMMA SameNodes ==
  ASSUME WellFormed, nodes' = nodes
  PROVE  SameGraph
<1>1. V' = V /\ Graph' = Graph
  BY DEF V, Graph
<1>2. WellFormed'
  BY <1>1 DEF WellFormed
<1> QED
  BY <1>1, <1>2 DEF SameGraph

LEMMA SameEdges ==
  ASSUME WellFormed, NEW val, nodes' = Assigned(val)
  PROVE  SameGraph
<1>1. V' = V /\ nodes' = [v \in V |-> nodes'[v]]
  BY DEF V, Assigned
<1>2. ASSUME NEW v \in V
      PROVE  nodes'[v] = [op |-> nodes[v].op, edges |-> nodes[v].edges,
                          inverse |-> val[v].inverse, set |-> val[v].set]
  <2>1. nodes'[v] = [nodes[v] EXCEPT !.inverse = val[v].inverse, !.set = val[v].set]
    BY DEF V, Assigned
  <2>2. nodes[v] = [op |-> nodes[v].op, edges |-> nodes[v].edges,
                    inverse |-> nodes[v].inverse, set |-> nodes[v].set]
    BY DEF WellFormed
  <2> QED
    BY <2>1, <2>2
<1>3. ASSUME NEW v \in V PROVE nodes'[v].edges = nodes[v].edges
  <2> DEFINE r == nodes'[v]
  <2>1. r = [op |-> nodes[v].op, edges |-> nodes[v].edges, inverse |-> val[v].inverse, set |-> val[v].set]
    BY <1>2
  <2> HIDE DEF r
  <2>2. r.edges = nodes[v].edges
    BY <2>1
  <2> QED
    BY <2>2 DEF r
<1>4. Graph' = Graph
  BY <1>1, <1>3 DEF Graph
<1>5. \A v \in V : nodes'[v] = [op |-> nodes'[v].op, edges |-> nodes'[v].edges,
                                inverse |-> nodes'[v].inverse, set |-> nodes'[v].set]
  <2> TAKE v \in V
  <2> DEFINE r == nodes'[v]
  <2>1. r = [op |-> nodes[v].op, edges |-> nodes[v].edges, inverse |-> val[v].inverse, set |-> val[v].set]
    BY <1>2
  <2> HIDE DEF r
  <2>2. r = [op |-> r.op, edges |-> r.edges, inverse |-> r.inverse, set |-> r.set]
    BY <2>1
  <2> QED
    BY <2>2 DEF r
<1>6. (\E n \in Nat : V = 1 .. n) /\ IsGraph(Graph)
  BY DEF WellFormed
<1>7. WellFormed'
  BY <1>1, <1>4, <1>5, <1>6 DEF WellFormed
<1> QED
  BY <1>1, <1>4, <1>7 DEF SameGraph

-----------------------------------------------------------------------------
(***************************************************************************)
(* The inductive invariant and its theorem.                                *)
(***************************************************************************)
ClosureInv ==
  /\ phase = "build" => calls = << >>
  /\ phase = "slow" => AtRoot /\ component = Component
  /\ phase \in { "visit", "slow" } => WellFormed /\ Searching

LEMMA ClosureInvInit == ClosureInit => ClosureInv
BY DEF ClosureInit, ClosureInv

LEMMA BeginComputeKeeps ==
  ASSUME ClosureInv, Equations, BeginCompute
  PROVE  ClosureInv'
<1>1. phase = "build" /\ calls = << >> /\ calls' = << >> /\ nodes' = nodes
  BY DEF BeginCompute, ClosureInv
<1>2. WellFormed
  <2>1. V = 1 .. Len(nodes) /\ Len(nodes) \in Nat
    BY DEF Equations, V
  <2>2. \A v \in V : Graph[v] \in Seq(V)
    BY DEF Equations, V, Graph
  <2>3. IsGraph(Graph)
    BY <2>2 DEF IsGraph, Graph
  <2> QED
    BY <2>1, <2>3 DEF WellFormed, Equations, V
<1>3. WellFormed' /\ V' = V /\ Graph' = Graph
  BY <1>1, <1>2, SameNodes DEF SameGraph
<1>4. /\ index' = [v \in V |-> -1] /\ lowLink' = [v \in V |-> 0] /\ curr' = 0 /\ stack' = << >>
      /\ phase' \in { "visit", "computed" }
  BY DEF BeginCompute, V
<1>5. OnStack' = {} /\ DOMAIN calls' = {} /\ DOMAIN stack' = {}
  BY <1>1, <1>4 DEF OnStack, Range
<1>6. Types'
  BY <1>1, <1>3, <1>4, EmptySeq DEF Types
<1>7. \A v \in V : index'[v] = -1
  BY <1>4
<1>8. Numbered' /\ SeenVisited' /\ FinishedClosed'
  BY <1>3, <1>7 DEF Numbered, SeenVisited, FinishedClosed
<1>9. StackSorted' /\ CallsSorted' /\ CallsChain' /\ CallsReach' /\ StackReaches' /\ LowEnough' /\ LowReached'
  BY <1>5 DEF StackSorted, CallsSorted, CallsChain, CallsReach, StackReaches, LowEnough, LowReached
<1>10. Searching'
  BY <1>6, <1>8, <1>9 DEF Searching
<1> QED
  BY <1>3, <1>4, <1>10 DEF ClosureInv

LEMMA ClosureInvNext == ClosureInv /\ [ClosureNext]_closureVars => ClosureInv'
<1> SUFFICES ASSUME ClosureInv, [ClosureNext]_closureVars PROVE ClosureInv'
  OBVIOUS
\* A step inside the search that goes on with it.
<1>1. ASSUME phase = "visit", phase' = "visit", WellFormed /\ Searching, SameGraph /\ Searching'
      PROVE  ClosureInv'
  BY <1>1 DEF ClosureInv, SameGraph
<1>2. ASSUME phase \in { "visit", "slow" }, nodes' = nodes
      PROVE  WellFormed /\ Searching /\ SameGraph
  BY <1>2, SameNodes DEF ClosureInv
<1>3. CASE VisitRoot
  <2> DEFINE u == CHOOSE v \in Unvisited : \A w \in Unvisited : v <= w
  <2>1. phase = "visit" /\ phase' = "visit" /\ nodes' = nodes /\ calls = << >> /\ Unvisited # {} /\ Enter(u)
    BY <1>3 DEF VisitRoot
  <2>2. WellFormed /\ Searching /\ SameGraph
    BY <2>1, <1>2
  <2>3. Unvisited \in SUBSET Nat
    BY <2>2 DEF WellFormed, Unvisited, V
  <2>4. u \in Unvisited
    BY <2>1, <2>3, LeastNatural
  <2>5. u \in V /\ index[u] = -1
    BY <2>4 DEF Unvisited, V
  <2> HIDE DEF u
  <2>6. Searching'
    BY <2>1, <2>2, <2>5, EnterKeeps
  <2> QED
    BY <2>1, <2>2, <2>6, <1>1
<1>4. CASE Descend
  <2> DEFINE u == nodes[Frame.v].edges[Frame.k]
  <2>1. phase = "visit" /\ phase' = "visit" /\ nodes' = nodes /\ HasEdge /\ index[u] = -1 /\ Enter(u)
    BY <1>4 DEF Descend
  <2>2. WellFormed /\ Searching /\ SameGraph
    BY <2>1, <1>2
  <2>3. Frame.v \in V /\ Frame.k \in DOMAIN Graph[Frame.v] /\ u = Graph[Frame.v][Frame.k]
    BY <2>1, <2>2, TopFrame DEF Searching, HasEdge
  <2>4. u \in V
    BY <2>2, <2>3, EdgeInside
  <2> HIDE DEF u
  <2>5. Searching'
    BY <2>1, <2>2, <2>3, <2>4, EnterKeeps
  <2> QED
    BY <2>1, <2>2, <2>5, <1>1
<1>5. CASE CrossEdge
  <2>1. phase = "visit" /\ phase' = "visit" /\ nodes' = nodes
    BY <1>5 DEF CrossEdge
  <2>2. WellFormed /\ Searching /\ SameGraph
    BY <2>1, <1>2
  <2> QED
    BY <2>1, <2>2, <1>1, <1>5, CrossEdgeKeeps
<1>6. CASE ReturnInside
  <2>1. phase = "visit" /\ phase' = "visit" /\ nodes' = nodes
    BY <1>6 DEF ReturnInside
  <2>2. WellFormed /\ Searching /\ SameGraph
    BY <2>1, <1>2
  <2> QED
    BY <2>1, <2>2, <1>1, <1>6, ReturnInsideKeeps
<1>7. CASE SimpleClosure
  <2>1. /\ phase = "visit" /\ phase' = "visit" /\ AtRoot /\ Return(Below) /\ index' = index /\ curr' = curr
        /\ nodes' = nodes \/ \E val : nodes' = Assigned(val)
    BY <1>7 DEF SimpleClosure
  <2>2. WellFormed /\ Searching
    BY <2>1 DEF ClosureInv
  <2>3. SameGraph
    BY <2>1, <2>2, SameNodes, SameEdges
  <2> QED
    BY <2>1, <2>2, <2>3, <1>1, PopKeeps
<1>8. CASE BeginSlow
  <2>1. /\ phase = "visit" /\ phase' = "slow" /\ AtRoot /\ component' = Component
        /\ UNCHANGED << nodes, calls, stack, index, lowLink, curr >>
    BY <1>8 DEF BeginSlow
  <2>2. WellFormed /\ Searching /\ SameGraph
    BY <2>1, <1>2
  <2>3. Searching'
    BY <2>1, <2>2 DEF SameGraph, Searching, Types, Numbered, StackSorted, CallsSorted, CallsChain, SeenVisited,
          FinishedClosed, CallsReach, StackReaches, LowEnough, LowReached, OnStack, IsSeen, FrameSet
  <2>4. AtRoot' /\ component' = Component'
    BY <2>1 DEF AtRoot, HasEdge, Frame, Component
  <2> QED
    BY <2>1, <2>2, <2>3, <2>4 DEF ClosureInv, SameGraph
<1>9. CASE slowClosure
  <2>1. phase = "slow" /\ nodes' = Round /\ index' = index /\ curr' = curr
    BY <1>9 DEF slowClosure
  <2>2. WellFormed /\ Searching /\ AtRoot /\ component = Component
    BY <2>1 DEF ClosureInv
  <2>3. SameGraph
    BY <2>1, <2>2, SameEdges DEF Round
  <2>4. CASE nodes' = nodes
    <3>1. phase' = "visit" /\ Return(Below)
      BY <2>4, <1>9 DEF slowClosure
    <3>2. Searching'
      BY <2>1, <2>2, <2>3, <3>1, PopKeeps
    <3> QED
      BY <2>3, <3>1, <3>2 DEF ClosureInv, SameGraph
  <2>5. CASE nodes' # nodes
    <3>1. phase' = phase /\ UNCHANGED << component, calls, stack, lowLink >>
      BY <2>5, <1>9 DEF slowClosure
    <3>2. Searching'
      BY <2>1, <2>2, <2>3, <3>1 DEF SameGraph, Searching, Types, Numbered, StackSorted, CallsSorted, CallsChain,
            SeenVisited, FinishedClosed, CallsReach, StackReaches, LowEnough, LowReached, OnStack, IsSeen, FrameSet
    <3>3. Frame' = Frame /\ Component' = Component
      BY <3>1 DEF Frame, Component
    <3>4. Frame.v \in V /\ nodes[Frame.v].edges = Graph[Frame.v]
      BY <2>2, TopFrame DEF Searching, AtRoot
    <3>5. nodes'[Frame.v].edges = nodes[Frame.v].edges
      <4>1. Graph'[Frame.v] = nodes'[Frame.v].edges
        BY <2>3, <3>4 DEF SameGraph, Graph
      <4> QED
        BY <2>3, <3>4, <4>1 DEF SameGraph
    <3>6. AtRoot'
      BY <2>1, <2>2, <3>1, <3>3, <3>5 DEF AtRoot, HasEdge
    <3> QED
      BY <2>1, <2>2, <2>3, <3>1, <3>2, <3>3, <3>6 DEF ClosureInv, SameGraph
  <2> QED
    BY <2>4, <2>5
<1>10. CASE EndCompute
  BY <1>10 DEF EndCompute, ClosureInv
<1>11. CASE Build
  BY <1>11 DEF Build, ClosureInv
<1>12. CASE Equations /\ BeginCompute
  BY <1>12, BeginComputeKeeps
<1>13. CASE UNCHANGED closureVars
  <2>1. UNCHANGED << nodes, phase, calls, stack, index, lowLink, curr, component >>
    BY <1>13 DEF closureVars
  <2>2. V' = V /\ Graph' = Graph /\ OnStack' = OnStack
    BY <2>1 DEF V, Graph, OnStack
  <2>3. Searching' = Searching
    BY <2>1, <2>2 DEF Searching, Types, Numbered, StackSorted, CallsSorted, CallsChain, SeenVisited,
       FinishedClosed, CallsReach, StackReaches, LowEnough, LowReached, IsSeen, FrameSet
  <2>4. WellFormed' = WellFormed
    BY <2>1, <2>2 DEF WellFormed
  <2>5. AtRoot' = AtRoot /\ Component' = Component
    BY <2>1 DEF AtRoot, HasEdge, Frame, Component
  <2> QED
    BY <2>1, <2>3, <2>4, <2>5 DEF ClosureInv
<1> QED
  BY <1>3, <1>4, <1>5, <1>6, <1>7, <1>8, <1>9, <1>10, <1>11, <1>12, <1>13 DEF ClosureNext, ClosureStep

LEMMA ClosureInvAlways == ClosureSpec => []ClosureInv
BY ClosureInvInit, ClosureInvNext, PTL DEF ClosureSpec

LEMMA RootHasWholeComponent ==
  ASSUME WellFormed, Searching, AtRoot
  PROVE  Range(Component) = { w \in Reachable(Frame.v) : Frame.v \in Reachable(w) }
<1> DEFINE n == Len(calls)
           v0 == Frame.v
           members == Range(Component)
           Finished == { v \in V : index[v] # -1 /\ v \notin OnStack }
<1>1. Types /\ calls # << >>
  BY DEF Searching, AtRoot
<1>2. n \in Nat /\ n \in DOMAIN calls /\ DOMAIN calls = 1 .. n /\ Frame = calls[n] /\ v0 \in V
  BY <1>1, TopFrame
<1>3. members = { y \in OnStack : index[v0] <= index[y] } /\ members \in SUBSET V
  BY <1>1, ComponentMeans, OnStackInside
<1>4. DOMAIN Graph = V /\ \A v \in V : index[v] \in Int
  BY <1>1 DEF Graph, Types
<1>5. Reachable(v0) = { w \in V : Reaches(Graph, v0, w) }
  BY <1>2, ReachableIsReaches
<1>6. \A w \in V : v0 \in Reachable(w) <=> Reaches(Graph, w, v0)
  BY <1>2, ReachableIsReaches
<1>7. v0 \in OnStack
  BY <1>2 DEF Searching, CallsSorted
<1>8. ASSUME NEW y \in members PROVE Reaches(Graph, v0, y) /\ Reaches(Graph, y, v0)
  <2>1. y \in OnStack /\ index[v0] <= index[y]
    BY <1>3
  <2>2. Reaches(Graph, v0, y)
    BY <2>1, <1>2 DEF Searching, CallsReach
  <2>3. PICK i \in 1 .. n : Reaches(Graph, y, calls[i].v)
    BY <2>1, <1>2 DEF Searching, StackReaches
  <2>4. index[calls[i].v] <= index[v0]
    <3>1. i < n => index[calls[i].v] < index[v0]
      BY <1>2 DEF Searching, CallsSorted
    <3>2. calls[i].v \in V
      BY <1>1, <1>2, CallInside
    <3>3. i < n \/ i = n
      <4>1. n \in Nat
        BY <1>2
      <4> HIDE DEF n
      <4> QED
        BY <4>1
    <3> QED
      BY <3>1, <3>2, <3>3, <1>2, <1>4
  <2>5. Reaches(Graph, calls[i].v, v0)
    BY <2>4, <1>2, <1>7 DEF Searching, CallsReach
  <2> QED
    BY <2>2, <2>3, <2>5, ReachesTrans
<1>9. ASSUME NEW w \in V, Reaches(Graph, v0, w), Reaches(Graph, w, v0) PROVE w \in members
  <2>1. NoEdgeLeaves(Graph, Finished)
    <3>1. ASSUME NEW u \in Finished, NEW j \in DOMAIN Graph[u] PROVE Graph[u][j] \in Finished
      BY EdgeInside DEF Searching, FinishedClosed
    <3> QED
      BY <3>1 DEF NoEdgeLeaves
  <2>2. NoEdgeLeaves(Graph, members \union Finished)
    <3>1. ASSUME NEW u \in members, NEW j \in DOMAIN Graph[u] PROVE Graph[u][j] \in members \union Finished
      BY NothingLeavesComponent
    <3> HIDE DEF members, Finished
    <3> QED
      BY <2>1, <3>1 DEF NoEdgeLeaves
  <2>3. v0 \in members
    BY <1>2, <1>3, <1>4, <1>7
  <2>4. members \union Finished \in SUBSET DOMAIN Graph /\ Finished \in SUBSET DOMAIN Graph
    BY <1>3, <1>4
  <2>5. v0 \notin Finished
    BY <1>7
  <2> HIDE DEF members, Finished
  <2>6. w \in members \union Finished
    BY <1>9, <2>2, <2>3, <2>4, ReachesStays
  <2>7. w \notin Finished
    BY <1>9, <2>1, <2>4, <2>5, ReachesStays
  <2> QED
    BY <2>6, <2>7
<1> HIDE DEF members, v0
<1>10. \A w : w \in members <=> w \in { x \in Reachable(v0) : v0 \in Reachable(x) }
  BY <1>3, <1>5, <1>6, <1>8, <1>9
<1> QED
  BY <1>10 DEF members, v0

\* Whatever the equations are, and however sets depend on each other: what
\* strongConnect hands to its callback are all the sets that depend on the root and
\* that the root depends on, and every other set that these include has been
\* handed over before.
THEOREM ComponentsFound == ClosureSpec => []ComponentsInOrder
<1>1. ASSUME ClosureInv PROVE ComponentsInOrder
  <2> SUFFICES ASSUME AtRoot, phase \in { "visit", "slow" }
               PROVE  /\ Range(Component) = { w \in Reachable(Frame.v) : Frame.v \in Reachable(w) }
                      /\ \A w \in Range(Component) : \A x \in Edges(w) \ Range(Component) :
                            index[x] # -1 /\ x \notin OnStack
    BY DEF ComponentsInOrder
  <2>1. WellFormed /\ Searching
    BY <1>1 DEF ClosureInv
  <2>2. Range(Component) = { w \in Reachable(Frame.v) : Frame.v \in Reachable(w) }
    BY <2>1, RootHasWholeComponent
  <2>3. ASSUME NEW w \in Range(Component), NEW x \in Edges(w) \ Range(Component)
        PROVE  index[x] # -1 /\ x \notin OnStack
    <3>1. w \in V
      BY <2>1, ComponentMeans, OnStackInside DEF AtRoot, Searching
    <3>2. PICK j \in DOMAIN Graph[w] : x = Graph[w][j]
      BY <3>1, EdgesOfGraph
    <3> QED
      BY <2>1, <3>2, NothingLeavesComponent
  <2> QED
    BY <2>2, <2>3
<1> QED
  BY <1>1, ClosureInvAlways, PTL
=============================================================================
