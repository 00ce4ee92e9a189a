------------------------------ MODULE Closure ------------------------------
(***************************************************************************)
(* util/set/closure.go with util/graph/tarjan.go and the integer sets of   *)
(* util/container/intset.go: equations between sets are solved for one     *)
(* strongly connected component after the other.                           *)
(*                                                                         *)
(* A node is a FutureSet, named by its position.  Its value is a sorted    *)
(* sequence, taken as it stands or as a complement.  The union, the        *)
(* intersection and the difference of two sequences are written into one   *)
(* buffer; interned sequences are copies that never change.                *)
(***************************************************************************)
EXTENDS Integers, Sequences, SequencesExt

CONSTANTS BufSize   \* the capacity of the reused buffer

VARIABLES
  nodes,      \* the future sets: [op, edges, set, inverse]
  err,        \* complements found on a cycle, in order
  phase,      \* "build", "visit", "slow" or "computed"
  calls,      \* the active calls of strongConnect: [v, k], k the next edge
  stack,      \* Tarjan's stack
  index, lowLink, curr,
  component   \* the component that slowClosure iterates over

closureVars == << nodes, err, phase, calls, stack, index, lowLink, curr, component >>

ASSUME BufSizeAssumption == BufSize \in Nat

Empty == [inverse |-> FALSE, set |-> << >>]
Complement(s) == [s EXCEPT !.inverse = ~@]

-----------------------------------------------------------------------------
\* What a reader of s sees when out has been written to the buffer: if s lies in
\* the buffer, its first elements are overwritten.
View(s, out, shared) ==
  [i \in DOMAIN s |-> IF shared /\ i <= BufSize /\ i <= Len(out) THEN out[i] ELSE s[i]]

\* The position in b, from e on, of the first element that is not below v.
NotBelow(b, e, v) ==
  CHOOSE k \in e .. Len(b) + 1 :
    /\ \A j \in e .. k - 1 : b[j] < v
    /\ k <= Len(b) => b[k] >= v

\* One element of a in the loops of combine, intersect and subtract.
Walk(a, b, aShared, bShared, Copies(_, _, _), skips) ==
  FoldLeft(
    LAMBDA st, i :
      LET v   == View(a, st.out, aShared)[i]
          B   == View(b, st.out, bShared)
          k   == NotBelow(B, st.e, v)
          hit == k <= Len(b) /\ B[k] = v
      IN  [e   |-> IF hit /\ skips THEN k + 1 ELSE k,
           out |-> st.out \o Copies(SubSeq(B, st.e, k - 1), hit, v)],
    [e |-> 1, out |-> << >>], [i \in DOMAIN a |-> i])

combine(a, b, aShared) ==
  LET end == Walk(a, b, aShared, FALSE, LAMBDA lower, hit, v : Append(lower, v), TRUE)
  IN  end.out \o SubSeq(b, end.e, Len(b))

intersect(a, b, aShared) ==
  Walk(a, b, aShared, FALSE, LAMBDA lower, hit, v : IF hit THEN << v >> ELSE << >>, FALSE).out

subtract(a, b, aShared, bShared) ==
  Walk(a, b, aShared, bShared, LAMBDA lower, hit, v : IF hit THEN << >> ELSE << v >>, FALSE).out

Set(inverse, elements) == [inverse |-> inverse, set |-> elements]

\* The running intersection a is in the buffer, unless it has outgrown it.  An
\* empty operand needs no case of its own: the loops leave nothing then.
Intersect(a, b) ==
  LET inBuffer == Len(a.set) <= BufSize
  IN  CASE a.inverse /\ b.inverse   -> Set(TRUE, combine(a.set, b.set, inBuffer))
        [] a.inverse /\ ~b.inverse  -> Set(FALSE, subtract(b.set, a.set, FALSE, inBuffer))
        [] ~a.inverse /\ b.inverse  -> Set(FALSE, subtract(a.set, b.set, inBuffer, FALSE))
        [] ~a.inverse /\ ~b.inverse -> Set(FALSE, intersect(a.set, b.set, inBuffer))

\* The arguments of Merge are interned.
Merge(a, b) ==
  CASE a.inverse /\ b.inverse   -> Set(TRUE, intersect(a.set, b.set, FALSE))
    [] a.inverse /\ ~b.inverse  -> Set(TRUE, subtract(a.set, b.set, FALSE, FALSE))
    [] ~a.inverse /\ b.inverse  -> Set(TRUE, subtract(b.set, a.set, FALSE, FALSE))
    [] ~a.inverse /\ ~b.inverse -> Set(FALSE, combine(a.set, b.set, FALSE))

-----------------------------------------------------------------------------
\* Building the equations: Add, Intersect and Complement, and Include.
NewNode(op, edges, set) == [op |-> op, edges |-> edges, inverse |-> FALSE, set |-> set]

Include(ns, n, targets) == [ns EXCEPT ![n].edges = @ \o targets]

ClosureInit ==
  /\ nodes = << >> /\ err = << >> /\ phase = "build"
  /\ calls = << >> /\ stack = << >> /\ component = << >>
  /\ index = << >> /\ lowLink = << >> /\ curr = 0

\* Compute begins: run does nothing for fewer than two sets.
BeginCompute ==
  /\ phase = "build"
  /\ phase' = IF Len(nodes) < 2 THEN "computed" ELSE "visit"
  /\ index' = [v \in DOMAIN nodes |-> -1]
  /\ lowLink' = [v \in DOMAIN nodes |-> 0]
  /\ curr' = 0 /\ stack' = << >>
  /\ UNCHANGED << nodes, err, calls, component >>

-----------------------------------------------------------------------------
OnStack == Range(stack)

\* strongConnect(v) is called.
Enter(v) ==
  /\ index' = [index EXCEPT ![v] = curr]
  /\ lowLink' = [lowLink EXCEPT ![v] = curr]
  /\ curr' = curr + 1
  /\ stack' = Append(stack, v)
  /\ calls' = Append(calls, [v |-> v, k |-> 1])

Unvisited == { v \in DOMAIN nodes : index[v] = -1 }

VisitRoot ==
  /\ phase = "visit" /\ calls = << >> /\ Unvisited # {}
  /\ Enter(CHOOSE v \in Unvisited : \A w \in Unvisited : v <= w)
  /\ UNCHANGED << nodes, err, phase, component >>

Frame == Last(calls)
HasEdge == calls # << >> /\ Frame.k <= Len(nodes[Frame.v].edges)

\* An edge to a set that was not visited yet.
Descend ==
  /\ phase = "visit" /\ HasEdge
  /\ LET w == nodes[Frame.v].edges[Frame.k] IN index[w] = -1 /\ Enter(w)
  /\ UNCHANGED << nodes, err, phase, component >>

Lower(a, b) == IF b < a THEN b ELSE a

\* The call on top of the stack of calls goes on to its next edge.
Advance(frames) == [frames EXCEPT ![Len(frames)].k = @ + 1]

CrossEdge_Anywhere ==
  /\ phase = "visit" /\ HasEdge
  /\ LET w == nodes[Frame.v].edges[Frame.k]
     IN  /\ index[w] # -1
         /\ lowLink' = [lowLink EXCEPT ![Frame.v] = Lower(@, index[w])]
  /\ calls' = Advance(calls)
  /\ UNCHANGED << nodes, err, phase, stack, index, curr, component >>

CrossEdge ==
  /\ phase = "visit" /\ HasEdge
  /\ LET w == nodes[Frame.v].edges[Frame.k]
     IN  /\ index[w] # -1
         /\ lowLink' = [lowLink EXCEPT ![Frame.v] = IF w \in OnStack THEN Lower(@, index[w]) ELSE @]
  /\ calls' = Advance(calls)
  /\ UNCHANGED << nodes, err, phase, stack, index, curr, component >>

-----------------------------------------------------------------------------
AtRoot == calls # << >> /\ ~HasEdge /\ lowLink[Frame.v] = index[Frame.v]

\* The part of the stack from v on is a strongly connected component.
Component == SubSeq(stack, CHOOSE i \in DOMAIN stack : stack[i] = Frame.v, Len(stack))

\* strongConnect returns and leaves st on the stack.
Return(st) ==
  /\ stack' = st
  /\ LET rest == Front(calls)
         up   == Last(rest).v
     IN  IF rest = << >> THEN calls' = rest /\ UNCHANGED lowLink
         ELSE /\ calls' = Advance(rest)
              /\ lowLink' = [lowLink EXCEPT ![up] = Lower(@, lowLink[Frame.v])]

Below == SubSeq(stack, 1, Len(stack) - Len(Component))

ReturnInside ==
  /\ phase = "visit" /\ calls # << >> /\ ~HasEdge /\ ~AtRoot
  /\ Return(stack)
  /\ UNCHANGED << nodes, err, phase, index, curr, component >>

Value(n) == [inverse |-> nodes[n].inverse, set |-> nodes[n].set]

Inherits(v, w) == IF nodes[v].op = "complement" THEN Complement(Value(w)) ELSE Value(w)

\* What v contributes to a component without intersections: its own elements, and
\* the sets it includes from outside the stack.
Contributions(v) ==
  LET outside == SelectSeq(nodes[v].edges, LAMBDA w : w \notin OnStack)
  IN  << Value(v) >> \o [i \in DOMAIN outside |-> Inherits(v, outside[i])]

Offending_None(v) == << >>

\* Complements of a set on the stack, once for every such edge.
Offending(v) ==
  IF nodes[v].op # "complement" THEN << >>
  ELSE LET on == SelectSeq(nodes[v].edges, LAMBDA w : w \in OnStack)
       IN  [i \in DOMAIN on |-> v]

Each(comp, Op(_)) == FlattenSeq([i \in DOMAIN comp |-> Op(comp[i])])

Slow == \E v \in Range(Component) : nodes[v].op = "intersection"

\* The sets with the values val.
Assigned(val) ==
  [v \in DOMAIN nodes |-> [nodes[v] EXCEPT !.inverse = val[v].inverse, !.set = val[v].set]]

\* The callback for a component without intersections: all its sets are equal.
SimpleClosure ==
  /\ phase = "visit" /\ AtRoot /\ ~Slow
  /\ err' = err \o Each(Component, Offending)
  /\ LET res == FoldLeft(Merge, Empty, Each(Component, Contributions))
     IN  nodes' = IF err' # << >> THEN nodes
                  ELSE Assigned([v \in DOMAIN nodes |->
                                   IF v \in Range(Component) THEN res ELSE Value(v)])
  /\ Return(Below)
  /\ UNCHANGED << phase, index, curr, component >>

BeginSlow ==
  /\ phase = "visit" /\ AtRoot /\ Slow
  /\ phase' = "slow"
  /\ component' = Component
  /\ UNCHANGED << nodes, err, calls, stack, index, lowLink, curr >>

-----------------------------------------------------------------------------
\* The new value of v in a round of slowClosure, given the values val so far.
Evaluated(val, v) ==
  LET edges == [i \in DOMAIN nodes[v].edges |-> val[nodes[v].edges[i]]]
  IN  CASE nodes[v].op = "intersection" -> FoldLeft(Intersect, Complement(Empty), edges)
        [] nodes[v].op = "union"        -> FoldLeft(Merge, val[v], edges)
        [] nodes[v].op = "complement"   -> Complement(edges[1])

Evaluate(val, v) ==
  IF Offending(v) # << >> THEN val ELSE [val EXCEPT ![v] = Evaluated(val, v)]

Round == Assigned(FoldLeft(Evaluate, [v \in DOMAIN nodes |-> Value(v)], component))

slowClosure_OneRound ==
  /\ phase = "slow"
  /\ nodes' = Round
  /\ err' = err \o Each(component, Offending)
  /\ phase' = "visit" /\ component' = << >>
  /\ Return(Below)
  /\ UNCHANGED << index, curr >>

\* A round that changed a set is followed by another one.
slowClosure ==
  /\ phase = "slow"
  /\ nodes' = Round
  /\ err' = err \o Each(component, Offending)
  /\ IF nodes' # nodes
     THEN UNCHANGED << phase, component, calls, stack, lowLink >>
     ELSE /\ phase' = "visit" /\ component' = << >>
          /\ Return(Below)
  /\ UNCHANGED << index, curr >>

EndCompute ==
  /\ phase = "visit" /\ calls = << >> /\ Unvisited = {}
  /\ phase' = "computed"
  /\ UNCHANGED << nodes, err, calls, stack, index, lowLink, curr, component >>

ClosureStep ==
  \/ VisitRoot \/ Descend \/ CrossEdge \/ ReturnInside
  \/ SimpleClosure \/ BeginSlow \/ slowClosure \/ EndCompute

-----------------------------------------------------------------------------
\* What Compute may rely on: the sets that a set includes were created by the same
\* Closure.
Equations ==
  /\ Len(nodes) \in Nat /\ nodes = [v \in 1 .. Len(nodes) |-> nodes[v]]
  /\ \A v \in DOMAIN nodes :
       /\ nodes[v].edges \in Seq(DOMAIN nodes)
       /\ nodes[v] = [op |-> nodes[v].op, edges |-> nodes[v].edges,
                      inverse |-> nodes[v].inverse, set |-> nodes[v].set]

\* One Closure, whatever sets its client builds.
Build ==
  /\ phase = "build"
  /\ UNCHANGED << err, phase, calls, stack, index, lowLink, curr, component >>

ClosureNext == Build \/ (Equations /\ BeginCompute) \/ ClosureStep

ClosureSpec == ClosureInit /\ [][ClosureNext]_closureVars

\* What can be reached from v along the edges.
Edges(v) == Range(nodes[v].edges)
Reachable(v) ==
  LET reach[S \in SUBSET DOMAIN nodes] ==
        LET more == S \union UNION { Edges(w) : w \in S }
        IN  IF more = S THEN S ELSE reach[more]
  IN  reach[{ v }]

\* tarjan.go: what is handed over is a whole strongly connected component, and the
\* sets that it includes from elsewhere have their final values.
ComponentsInOrder ==
  AtRoot /\ phase \in { "visit", "slow" } =>
    LET members == Range(Component)
    IN  /\ members = { w \in Reachable(Frame.v) : Frame.v \in Reachable(w) }
        /\ \A w \in members : \A x \in Edges(w) \ members : index[x] # -1 /\ x \notin OnStack
=============================================================================
