--------------------------- MODULE ParserAst_proofs ---------------------------
(***************************************************************************)
(* Theorems about the builder of AstBuilder, for texts of every length and *)
(* any number of calls, and about the trees it builds for a parser, for    *)
(* every grammar's tables; with proofs checked by TLAPS.                   *)
(***************************************************************************)
EXTENDS ParserAst, LRParser_proofs, FiniteSetTheorems

NodeRange == [off : Nat, end : Nat]

\* The parts of the invariant, as predicates of the builder.
Typed(b) ==
  /\ b.nodes \in Seq(NodeRange)
  /\ b.roots \in Seq(DOMAIN b.nodes)
  /\ b.kids \in Seq(Seq(DOMAIN b.nodes)) /\ Len(b.kids) = Len(b.nodes)

WellFormed(b) == \A i \in DOMAIN b.nodes : b.nodes[i].off <= b.nodes[i].end

InOrder(b) ==
  /\ Ordered(b.nodes, b.roots)
  /\ \A i \in DOMAIN b.kids : Ordered(b.nodes, b.kids[i])

Matches(b) ==
  \A i \in DOMAIN b.nodes :
    /\ Parent(b.nodes, i) = 0 <=> i \in ToSet(b.roots)
    /\ \A j \in DOMAIN b.nodes : Parent(b.nodes, i) = j <=> i \in ToSet(b.kids[j])

Sound(b) == Typed(b) /\ WellFormed(b) /\ InOrder(b) /\ Matches(b)

Within(b, len) == \A i \in DOMAIN b.nodes : b.nodes[i].end <= len

\* A call in post-order: every node so far is beside the new one or in it.
Follows(b, e) ==
  /\ e \in NodeRange /\ e.off <= e.end
  /\ \A i \in DOMAIN b.nodes :
       L!Beside(b.nodes[i], e) \/ L!Encloses(e, b.nodes[i])

TreeInv == Sound(builder) /\ Within(builder, Width)

-----------------------------------------------------------------------------
(***************************************************************************)
(* The two places on the stack between which the new node adopts.          *)
(***************************************************************************)
LEMMA TypedParts ==
  ASSUME NEW b, Typed(b)
  PROVE  /\ Len(b.nodes) \in Nat /\ DOMAIN b.nodes = 1 .. Len(b.nodes)
         /\ Len(b.roots) \in Nat /\ DOMAIN b.roots = 1 .. Len(b.roots)
         /\ DOMAIN b.kids = 1 .. Len(b.nodes)
         /\ \A i \in DOMAIN b.nodes : b.nodes[i].off \in Nat /\ b.nodes[i].end \in Nat
         /\ \A k \in DOMAIN b.roots : b.roots[k] \in DOMAIN b.nodes
         /\ \A i \in DOMAIN b.kids : b.kids[i] \in Seq(DOMAIN b.nodes)
<1>1. /\ Len(b.nodes) \in Nat /\ DOMAIN b.nodes = 1 .. Len(b.nodes)
      /\ Len(b.roots) \in Nat /\ DOMAIN b.roots = 1 .. Len(b.roots)
      /\ DOMAIN b.kids = 1 .. Len(b.nodes)
  BY LenProperties DEF Typed
<1>2. \A i \in DOMAIN b.nodes : b.nodes[i] \in NodeRange
  BY <1>1, ElementOfSeq DEF Typed
<1>3. \A k \in DOMAIN b.roots : b.roots[k] \in DOMAIN b.nodes
  BY <1>1, ElementOfSeq DEF Typed
<1>4. \A i \in DOMAIN b.kids : b.kids[i] \in Seq(DOMAIN b.nodes)
  BY <1>1, ElementOfSeq DEF Typed
<1> QED
  BY <1>1, <1>2, <1>3, <1>4 DEF NodeRange

\* The roots start one behind the other.
LEMMA RootsAscend ==
  ASSUME NEW b, Typed(b), WellFormed(b), InOrder(b),
         NEW i \in DOMAIN b.roots, NEW j \in DOMAIN b.roots, i <= j
  PROVE  b.nodes[b.roots[i]].off <= b.nodes[b.roots[j]].off
<1> i \in Nat /\ j \in Nat /\ b.nodes[b.roots[i]].off \in Nat
  BY TypedParts
<1>1. CASE i = j
  BY <1>1
<1>2. CASE i < j
  <2>1. b.nodes[b.roots[i]].end <= b.nodes[b.roots[j]].off
    BY <1>2 DEF InOrder, Ordered
  <2>2. b.nodes[b.roots[i]].off <= b.nodes[b.roots[i]].end
    BY TypedParts DEF WellFormed
  <2>3. b.nodes[b.roots[i]].end \in Nat /\ b.nodes[b.roots[j]].off \in Nat
    BY TypedParts
  <2> QED
    BY <2>1, <2>2, <2>3
<1> QED
  BY <1>1, <1>2

LEMMA StartDivides ==
  ASSUME NEW b, Typed(b), WellFormed(b), InOrder(b), NEW off \in Nat
  PROVE  /\ Start(b, off) \in 0 .. Len(b.roots)
         /\ \A k \in DOMAIN b.roots :
              k <= Start(b, off) <=> b.nodes[b.roots[k]].off < off
<1> DEFINE before == { i \in DOMAIN b.roots : b.nodes[b.roots[i]].off < off }
<1>1. Len(b.roots) \in Nat /\ DOMAIN b.roots = 1 .. Len(b.roots)
  BY TypedParts
<1>2. CASE before = {}
  <2>1. Start(b, off) = 0
    BY <1>2 DEF Start
  <2> QED
    BY <1>1, <1>2, <2>1
<1>3. CASE before # {}
  <2>1. Start(b, off) = Max(before)
    BY <1>3 DEF Start
  <2>2. before \in SUBSET (0 .. Len(b.roots))
    BY <1>1
  <2>3. Max(before) \in before /\ \A y \in before : y <= Max(before)
    <3> HIDE DEF before
    <3> QED
      BY <1>1, <1>3, <2>2, MaxOfSet
  <2>4. PICK m \in DOMAIN b.roots :
          m = Max(before) /\ b.nodes[b.roots[m]].off < off /\ \A y \in before : y <= m
    BY <2>3
  <2>5. \A k \in DOMAIN b.roots : b.nodes[b.roots[k]].off \in Nat
    BY TypedParts
  <2>6. ASSUME NEW k \in DOMAIN b.roots, k <= m
        PROVE  b.nodes[b.roots[k]].off < off
    <3>1. b.nodes[b.roots[k]].off <= b.nodes[b.roots[m]].off
      BY <2>6, RootsAscend
    <3>2. b.nodes[b.roots[k]].off \in Nat /\ b.nodes[b.roots[m]].off \in Nat
      BY <2>5
    <3>3. b.nodes[b.roots[m]].off < off
      BY <2>4
    <3> QED
      BY <3>1, <3>2, <3>3
  <2>7. ASSUME NEW k \in DOMAIN b.roots, b.nodes[b.roots[k]].off < off
        PROVE  k <= m
    BY <2>4, <2>7
  <2> HIDE DEF before
  <2> QED
    BY <1>1, <2>1, <2>4, <2>6, <2>7
<1> QED
  BY <1>2, <1>3

LEMMA EndDivides ==
  ASSUME NEW b, Typed(b), WellFormed(b), InOrder(b), NEW off \in Nat, NEW end \in Nat
  PROVE  /\ End(b, off, end) \in Start(b, off) .. Len(b.roots)
         /\ \A k \in DOMAIN b.roots :
              k > Start(b, off) =>
                (k <= End(b, off, end) <=> b.nodes[b.roots[k]].off < end)
<1> DEFINE m == Start(b, off)
           n == Len(b.roots)
           behind == { i \in m + 1 .. n : b.nodes[b.roots[i]].off >= end }
<1>1. n \in Nat /\ DOMAIN b.roots = 1 .. n /\ m \in 0 .. n
  BY TypedParts, StartDivides
<1>2. End(b, off, end) = n - Cardinality(behind)
  BY DEF End
<1>3. \A k \in 1 .. n : b.nodes[b.roots[k]].off \in Nat
  BY <1>1, TypedParts
<1> HIDE DEF m
<1>4. CASE behind = {}
  <2>1. Cardinality(behind) = 0
    BY <1>4, FS_EmptySet
  <2>2. \A k \in m + 1 .. n : b.nodes[b.roots[k]].off < end
    BY <1>1, <1>3, <1>4
  <2>3. End(b, off, end) = n
    BY <1>1, <1>2, <2>1
  <2> HIDE DEF behind, n
  <2> QED
    BY <1>1, <2>2, <2>3 DEF m, n
<1>5. CASE behind # {}
  <2>1. behind \in SUBSET Nat
    BY <1>1
  <2>2. PICK f \in behind : \A i \in behind : f <= i
    <3> HIDE DEF behind
    <3> QED
      BY <1>5, <2>1, LeastNatural
  <2>3. f \in m + 1 .. n /\ b.nodes[b.roots[f]].off >= end
    BY <2>2
  <2>4. behind = f .. n
    <3>1. ASSUME NEW i \in f .. n PROVE i \in behind
      <4>1. i \in m + 1 .. n /\ f \in 1 .. n /\ i \in 1 .. n /\ f <= i
        BY <1>1, <2>3
      <4>2. b.nodes[b.roots[f]].off <= b.nodes[b.roots[i]].off
        BY <1>1, <4>1, RootsAscend
      <4>3. b.nodes[b.roots[i]].off >= end
        BY <1>3, <2>3, <4>1, <4>2
      <4> QED
        BY <4>1, <4>3
    <3>2. ASSUME NEW i \in behind PROVE i \in f .. n
      BY <1>1, <2>2, <2>3
    <3> HIDE DEF behind
    <3> QED
      BY <3>1, <3>2
  <2>5. Cardinality(f .. n) = n - f + 1
    BY <1>1, <2>3, FS_Interval
  <2>6. End(b, off, end) = f - 1
    <3> HIDE DEF behind
    <3> QED
      BY <1>1, <1>2, <2>3, <2>4, <2>5
  <2>7. ASSUME NEW k \in 1 .. n, k > m
        PROVE  k <= f - 1 <=> b.nodes[b.roots[k]].off < end
    <3>1. k \in behind <=> b.nodes[b.roots[k]].off >= end
      BY <1>1, <2>7
    <3>2. k \in behind <=> k >= f
      <4> HIDE DEF behind
      <4> QED
        BY <1>1, <2>3, <2>4
    <3> HIDE DEF behind
    <3> QED
      BY <1>1, <1>3, <2>3, <3>1, <3>2
  <2> HIDE DEF behind, n
  <2> QED
    BY <1>1, <2>3, <2>6, <2>7 DEF m, n
<1> QED
  BY <1>4, <1>5

-----------------------------------------------------------------------------
(***************************************************************************)
(* The builder after addNode.  `s` and `e` are the two places.             *)
(***************************************************************************)
Divided(b, e, m, n) ==
  \A k \in DOMAIN b.roots :
    /\ k <= m <=> b.nodes[b.roots[k]].off < e.off
    /\ k > m => (k <= n <=> b.nodes[b.roots[k]].off < e.end)

AddedAt(b, e, m, n, c) ==
  /\ c.nodes = Append(b.nodes, e)
  /\ c.kids  = Append(b.kids, SubSeq(b.roots, m + 1, n))
  /\ c.roots = SubSeq(b.roots, 1, m) \o << Len(b.nodes) + 1 >>
                 \o SubSeq(b.roots, n + 1, Len(b.roots))

LEMMA AddNodeShape ==
  ASSUME NEW b, Typed(b), WellFormed(b), InOrder(b), NEW e, Follows(b, e)
  PROVE  \E m \in 0 .. Len(b.roots) : \E n \in m .. Len(b.roots) :
           Divided(b, e, m, n) /\ AddedAt(b, e, m, n, addNode(b, e))
<1> DEFINE m == Start(b, e.off)
           n == End(b, e.off, e.end)
<1>1. e \in NodeRange /\ e.off \in Nat /\ e.end \in Nat
  BY DEF Follows, NodeRange
<1>2. e = [off |-> e.off, end |-> e.end]
  BY <1>1 DEF NodeRange
<1>3. /\ m \in 0 .. Len(b.roots)
      /\ \A k \in DOMAIN b.roots : k <= m <=> b.nodes[b.roots[k]].off < e.off
  BY <1>1, StartDivides
<1>4. /\ n \in m .. Len(b.roots)
      /\ \A k \in DOMAIN b.roots : k > m => (k <= n <=> b.nodes[b.roots[k]].off < e.end)
  BY <1>1, EndDivides
<1>5. AddedAt(b, e, m, n, addNode(b, e))
  BY <1>2 DEF addNode, AddedAt
<1> HIDE DEF m, n
<1>6. Divided(b, e, m, n)
  BY <1>3, <1>4 DEF Divided
<1> QED
  BY <1>3, <1>4, <1>5, <1>6

\* The same, place by place.
Placed(b, e, m, n, c) ==
  LET N == Len(b.nodes)
      R == Len(b.roots)
  IN  /\ DOMAIN c.nodes = 1 .. N + 1
      /\ \A i \in 1 .. N : c.nodes[i] = b.nodes[i]
      /\ c.nodes[N + 1] = e
      /\ DOMAIN c.kids = 1 .. N + 1
      /\ \A i \in 1 .. N : c.kids[i] = b.kids[i]
      /\ DOMAIN c.kids[N + 1] = 1 .. n - m
      /\ \A k \in 1 .. n - m : c.kids[N + 1][k] = b.roots[m + k]
      /\ DOMAIN c.roots = 1 .. R - n + m + 1
      /\ \A k \in 1 .. m : c.roots[k] = b.roots[k]
      /\ c.roots[m + 1] = N + 1
      /\ \A k \in n + 1 .. R : c.roots[k - n + m + 1] = b.roots[k]

LEMMA AddNodePlaces ==
  ASSUME NEW b, Typed(b), NEW e \in NodeRange, NEW c,
         NEW m \in 0 .. Len(b.roots), NEW n \in m .. Len(b.roots), AddedAt(b, e, m, n, c)
  PROVE  Typed(c) /\ Placed(b, e, m, n, c)
<1> DEFINE N == Len(b.nodes)
           R == Len(b.roots)
           Node == 1 .. N
           Node1 == 1 .. N + 1
           low == SubSeq(b.roots, 1, m)
           mid == SubSeq(b.roots, m + 1, n)
           top == SubSeq(b.roots, n + 1, R)
<1>1. /\ N \in Nat /\ DOMAIN b.nodes = Node /\ R \in Nat /\ DOMAIN b.roots = 1 .. R
      /\ DOMAIN b.kids = Node /\ Len(b.kids) = N
      /\ b.nodes \in Seq(NodeRange) /\ b.roots \in Seq(Node) /\ b.kids \in Seq(Seq(Node))
  BY TypedParts DEF Typed
<1>2. \A k \in 1 .. R : b.roots[k] \in Node
  BY <1>1, ElementOfSeq
<1>3. m \in Nat /\ n \in Nat /\ m <= n /\ n <= R /\ R \in Nat
  BY <1>1
<1>4. Node \subseteq Node1 /\ N + 1 \in Node1
  BY <1>1
<1>0. /\ c.nodes = Append(b.nodes, e)
      /\ c.kids  = Append(b.kids, SubSeq(b.roots, m + 1, n))
      /\ c.roots = SubSeq(b.roots, 1, m) \o << N + 1 >> \o SubSeq(b.roots, n + 1, R)
  BY DEF AddedAt
<1> HIDE DEF Node, Node1, N, R
<1>5. /\ low \in Seq(Node) /\ Len(low) = m
      /\ \A k \in 1 .. m : low[k] = b.roots[k]
  <2>1. \A k \in 1 .. m : b.roots[k] \in Node
    BY <1>2, <1>3, <1>1
  <2>2. /\ low \in Seq(Node) /\ Len(low) = IF 1 <= m THEN m - 1 + 1 ELSE 0
        /\ \A k \in 1 .. m - 1 + 1 : low[k] = b.roots[1 + k - 1]
    BY <1>3, <2>1, SubSeqProperties
  <2>3. \A k \in 1 .. m : 1 + k - 1 = k /\ k \in 1 .. m - 1 + 1
    BY <1>3
  <2> QED
    BY <1>3, <2>2, <2>3
<1>6. /\ mid \in Seq(Node) /\ Len(mid) = n - m /\ DOMAIN mid = 1 .. n - m
      /\ \A k \in 1 .. n - m : mid[k] = b.roots[m + k]
  <2>1. \A k \in m + 1 .. n : b.roots[k] \in Node
    BY <1>2, <1>3, <1>1
  <2>2. /\ mid \in Seq(Node) /\ Len(mid) = IF m + 1 <= n THEN n - (m + 1) + 1 ELSE 0
        /\ \A k \in 1 .. n - (m + 1) + 1 : mid[k] = b.roots[(m + 1) + k - 1]
    <3>1. m + 1 \in Int /\ n \in Int
      BY <1>3
    <3> QED
      BY <2>1, <3>1, SubSeqProperties
  <2>3. \A k \in 1 .. n - m : (m + 1) + k - 1 = m + k /\ k \in 1 .. n - (m + 1) + 1
    BY <1>3
  <2>4. Len(mid) = n - m
    BY <1>3, <2>2
  <2>5. \A k \in 1 .. n - m : mid[k] = b.roots[m + k]
    BY <2>2, <2>3
  <2> HIDE DEF mid
  <2> QED
    BY <2>2, <2>4, <2>5, LenProperties
<1>7. /\ top \in Seq(Node) /\ Len(top) = R - n
      /\ \A k \in 1 .. R - n : top[k] = b.roots[n + k]
  <2>1. \A k \in n + 1 .. R : b.roots[k] \in Node
    BY <1>2, <1>3, <1>1
  <2>2. /\ top \in Seq(Node) /\ Len(top) = IF n + 1 <= R THEN R - (n + 1) + 1 ELSE 0
        /\ \A k \in 1 .. R - (n + 1) + 1 : top[k] = b.roots[(n + 1) + k - 1]
    <3>1. n + 1 \in Int /\ R \in Int
      BY <1>3
    <3> QED
      BY <2>1, <3>1, SubSeqProperties
  <2>3. \A k \in 1 .. R - n : (n + 1) + k - 1 = n + k /\ k \in 1 .. R - (n + 1) + 1
    BY <1>1, <1>3
  <2>4. Len(top) = R - n
    BY <1>1, <1>3, <2>2
  <2>5. \A k \in 1 .. R - n : top[k] = b.roots[n + k]
    BY <2>2, <2>3
  <2> HIDE DEF top
  <2> QED
    BY <2>2, <2>4, <2>5
<1> HIDE DEF low, mid, top
<1>8. /\ c.nodes \in Seq(NodeRange) /\ Len(c.nodes) = N + 1 /\ DOMAIN c.nodes = Node1
      /\ \A i \in Node : c.nodes[i] = b.nodes[i]
      /\ c.nodes[N + 1] = e
  <2>1. c.nodes \in Seq(NodeRange) /\ Len(c.nodes) = N + 1
    BY <1>0, <1>1, AppendProperties DEF N
  <2>2. DOMAIN c.nodes = Node1
    BY <2>1, LenProperties DEF Node1
  <2>3. /\ \A i \in 1 .. Len(b.nodes) : Append(b.nodes, e)[i] = b.nodes[i]
        /\ Append(b.nodes, e)[Len(b.nodes) + 1] = e
    BY <1>0, AppendProperties
  <2> QED
    BY <1>0, <1>1, <2>1, <2>2, <2>3 DEF Node, N
<1>9. low \in Seq(Node1) /\ mid \in Seq(Node1) /\ top \in Seq(Node1)
  BY <1>4, <1>5, <1>6, <1>7, SeqMonotonic
<1>10. /\ c.kids \in Seq(Seq(Node1)) /\ Len(c.kids) = N + 1 /\ DOMAIN c.kids = Node1
       /\ \A i \in Node : c.kids[i] = b.kids[i]
       /\ c.kids[N + 1] = mid
  <2>1. Seq(Node) \subseteq Seq(Node1)
    BY <1>4, SeqMonotonic
  <2>2. b.kids \in Seq(Seq(Node1))
    BY <1>1, <2>1, SeqMonotonic
  <2>3. c.kids = Append(b.kids, mid)
    BY <1>0 DEF mid
  <2>4. /\ c.kids \in Seq(Seq(Node1)) /\ Len(c.kids) = N + 1
        /\ \A i \in 1 .. N : c.kids[i] = b.kids[i]
        /\ c.kids[N + 1] = mid
    <3> DEFINE S == Seq(Node1)
    <3>1. Len(b.kids) = N /\ N \in Nat /\ b.kids \in Seq(S) /\ mid \in S
      BY <1>1, <1>9, <2>2
    <3> HIDE DEF S
    <3>2. /\ c.kids \in Seq(S) /\ Len(c.kids) = N + 1
          /\ \A i \in 1 .. N : c.kids[i] = b.kids[i]
          /\ c.kids[N + 1] = mid
      <4>1. /\ Append(b.kids, mid) \in Seq(S) /\ Len(Append(b.kids, mid)) = Len(b.kids) + 1
            /\ \A i \in 1 .. Len(b.kids) : Append(b.kids, mid)[i] = b.kids[i]
            /\ Append(b.kids, mid)[Len(b.kids) + 1] = mid
        BY <3>1, AppendProperties
      <4> QED
        BY <2>3, <3>1, <4>1
    <3> QED
      BY <3>2 DEF S
  <2> QED
    BY <2>4, LenProperties DEF Node, Node1
<1> DEFINE one == << N + 1 >>
           left == low \o one
<1>11. one \in Seq(Node1) /\ Len(one) = 1 /\ one[1] = N + 1
  BY <1>4
<1> HIDE DEF one
<1>12. /\ left \in Seq(Node1) /\ Len(left) = m + 1 /\ left[m + 1] = N + 1
       /\ \A k \in 1 .. m : left[k] = b.roots[k]
  <2>1. /\ left \in Seq(Node1) /\ Len(left) = m + 1
        /\ \A k \in 1 .. m + 1 : left[k] = IF k <= m THEN low[k] ELSE one[k - m]
    <3>1. /\ left \in Seq(Node1) /\ Len(left) = Len(low) + Len(one)
          /\ \A k \in 1 .. Len(low) + Len(one) :
               left[k] = IF k <= Len(low) THEN low[k] ELSE one[k - Len(low)]
      BY <1>9, <1>11, ConcatProperties
    <3>2. Len(low) = m /\ Len(one) = 1
      BY <1>5, <1>11
    <3> QED
      BY <3>1, <3>2
  <2>2. left[m + 1] = one[1]
    BY <1>3, <2>1
  <2>3. \A k \in 1 .. m : left[k] = low[k]
    BY <1>3, <2>1
  <2> QED
    BY <1>5, <1>11, <2>1, <2>2, <2>3
<1> HIDE DEF left
<1>13. c.roots = left \o top
  BY <1>0 DEF left, low, one, top
<1>14. /\ c.roots \in Seq(Node1) /\ Len(c.roots) = m + 1 + (R - n)
       /\ \A k \in 1 .. m + 1 + (R - n) :
            c.roots[k] = IF k <= m + 1 THEN left[k] ELSE top[k - (m + 1)]
  <2>1. /\ c.roots \in Seq(Node1) /\ Len(c.roots) = Len(left) + Len(top)
        /\ \A k \in 1 .. Len(left) + Len(top) :
             c.roots[k] = IF k <= Len(left) THEN left[k] ELSE top[k - Len(left)]
    <3>1. left \in Seq(Node1) /\ top \in Seq(Node1)
      BY <1>9, <1>12
    <3>2. /\ left \o top \in Seq(Node1) /\ Len(left \o top) = Len(left) + Len(top)
          /\ \A k \in 1 .. Len(left) + Len(top) :
               (left \o top)[k] = IF k <= Len(left) THEN left[k] ELSE top[k - Len(left)]
      BY <3>1, ConcatProperties
    <3> QED
      BY <3>2, <1>13
  <2>2. Len(left) = m + 1 /\ Len(top) = R - n
    BY <1>7, <1>12
  <2> QED
    BY <2>1, <2>2
<1>15. DOMAIN c.roots = 1 .. R - n + m + 1
  <2>1. m + 1 + (R - n) = R - n + m + 1
    BY <1>3
  <2> QED
    BY <1>14, <2>1, LenProperties
<1>16. (\A k \in 1 .. m : c.roots[k] = b.roots[k]) /\ c.roots[m + 1] = N + 1
  <2>1. \A k \in 1 .. m + 1 : k \in 1 .. m + 1 + (R - n) /\ k <= m + 1
    BY <1>3
  <2>2. \A k \in 1 .. m + 1 : c.roots[k] = left[k]
    BY <1>14, <2>1
  <2>3. m + 1 \in 1 .. m + 1 /\ \A k \in 1 .. m : k \in 1 .. m + 1
    BY <1>3
  <2> QED
    BY <1>12, <2>2, <2>3
<1>17. \A k \in n + 1 .. R : c.roots[k - n + m + 1] = b.roots[k]
  <2> SUFFICES ASSUME NEW k \in n + 1 .. R PROVE c.roots[k - n + m + 1] = b.roots[k]
    OBVIOUS
  <2>1. /\ k - n + m + 1 \in 1 .. m + 1 + (R - n) /\ ~ (k - n + m + 1 <= m + 1)
        /\ (k - n + m + 1) - (m + 1) = k - n /\ k - n \in 1 .. R - n /\ n + (k - n) = k
    BY <1>3
  <2>2. c.roots[k - n + m + 1] = top[k - n]
    BY <1>14, <2>1
  <2>3. top[k - n] = b.roots[n + (k - n)]
    BY <1>7, <2>1
  <2> QED
    BY <2>1, <2>2, <2>3
<1>18. Typed(c)
  BY <1>8, <1>10, <1>14 DEF Typed
<1> QED
  BY <1>1, <1>6, <1>8, <1>10, <1>15, <1>16, <1>17, <1>18 DEF Placed, Node, Node1, N, R

-----------------------------------------------------------------------------
(***************************************************************************)
(* One call of addNode.                                                    *)
(***************************************************************************)
\* What lies behind the start of the new node and is not behind its end is
\* within it: an empty node that touches its start is beside and within.
LEMMA AdoptedAreInside ==
  ASSUME NEW b, Typed(b), WellFormed(b), NEW e, Follows(b, e), NEW i \in DOMAIN b.nodes
  PROVE  /\ b.nodes[i].off < e.off => b.nodes[i].end <= e.off
         /\ b.nodes[i].off >= e.off /\ b.nodes[i].off < e.end => b.nodes[i].end <= e.end
<1> DEFINE d == b.nodes[i]
<1>1. d.off \in Nat /\ d.end \in Nat /\ d.off <= d.end
  BY TypedParts DEF WellFormed
<1>2. e.off \in Nat /\ e.end \in Nat /\ e.off <= e.end
  BY DEF Follows, NodeRange
<1>3. \/ d.end <= e.off \/ e.end <= d.off
      \/ e.off <= d.off /\ d.end <= e.end
  BY DEF Follows, L!Beside, L!Encloses
<1> HIDE DEF d
<1>4. /\ d.off < e.off => d.end <= e.off
      /\ d.off >= e.off /\ d.off < e.end => d.end <= e.end
  BY <1>1, <1>2, <1>3
<1> QED
  BY <1>4 DEF d

\* The parent of a node is found once: later nodes do not take it away.
LEMMA ParentOfAppend ==
  ASSUME NEW nodes \in Seq(NodeRange), NEW e \in NodeRange, NEW i \in DOMAIN nodes
  PROVE  /\ Parent(nodes, i) \in {0} \union DOMAIN nodes
         /\ Parent(Append(nodes, e), i) =
              IF Parent(nodes, i) # 0 THEN Parent(nodes, i)
              ELSE IF e.off <= nodes[i].off /\ nodes[i].off < e.end THEN Len(nodes) + 1
              ELSE 0
<1> DEFINE N == Len(nodes)
           more == Append(nodes, e)
           Inside(j) == more[j].off <= more[i].off /\ more[i].off < more[j].end
           old == { j \in i + 1 .. N :
                      nodes[j].off <= nodes[i].off /\ nodes[i].off < nodes[j].end }
           new == { j \in i + 1 .. N + 1 : Inside(j) }
<1>1. N \in Nat /\ DOMAIN nodes = 1 .. N /\ i \in 1 .. N
  BY LenProperties
<1>2. /\ Len(more) = N + 1 /\ more[N + 1] = e
      /\ \A k \in 1 .. N : more[k] = nodes[k]
  BY AppendProperties
<1>3. Parent(nodes, i) = IF old = {} THEN 0 ELSE Min(old)
  BY DEF Parent
<1>4. Parent(more, i) = IF new = {} THEN 0 ELSE Min(new)
  BY <1>2 DEF Parent
<1> HIDE DEF N, more
<1>5. \A j : j \in old <=> j \in i + 1 .. N /\ Inside(j)
  <2> SUFFICES ASSUME NEW j \in i + 1 .. N
               PROVE  Inside(j) <=> nodes[j].off <= nodes[i].off /\ nodes[i].off < nodes[j].end
    OBVIOUS
  <2>1. j \in 1 .. N
    BY <1>1
  <2> QED
    BY <1>1, <1>2, <2>1
<1>6. Inside(N + 1) <=> e.off <= nodes[i].off /\ nodes[i].off < e.end
  BY <1>1, <1>2
<1> HIDE DEF Inside
<1>7. \A j : j \in new <=> (j \in old \/ (j = N + 1 /\ Inside(N + 1)))
  BY <1>1, <1>5
<1>8. old \in SUBSET (1 .. N)
  BY <1>1
<1> HIDE DEF old, new
<1>9. CASE old # {}
  <2>1. old \in SUBSET Nat
    BY <1>1, <1>8
  <2>2. Min(old) \in old /\ \A y \in old : Min(old) <= y
    BY <1>9, <2>1, MinOfSet
  <2>3. Min(old) \in 1 .. N /\ Min(old) # 0
    <3>1. \A y \in old : y \in 1 .. N /\ y # 0
      BY <1>8
    <3> QED
      BY <2>2, <3>1
  <2>4. Min(new) = Min(old)
    <3>1. new \in SUBSET Nat /\ new # {}
      <4>1. \A j \in new : j \in Nat
        <5>1. N + 1 \in Nat
          BY <1>1
        <5> QED
          BY <1>7, <2>1, <5>1
      <4> QED
        BY <1>7, <2>2, <4>1
    <3>2. Min(new) \in new /\ \A y \in new : Min(new) <= y
      BY <3>1, MinOfSet
    <3>3. Min(new) <= Min(old)
      BY <1>7, <2>2, <3>2
    <3>4. Min(new) \in old
      BY <1>1, <1>7, <2>3, <3>2, <3>3
    <3> QED
      <4>1. Min(old) <= Min(new)
        BY <2>2, <3>4
      <4>2. Min(old) \in Nat /\ Min(new) \in Nat
        BY <2>1, <2>2, <3>4
      <4> QED
        BY <3>3, <4>1, <4>2
  <2>5. new # {}
    BY <1>7, <2>2
  <2> QED
    BY <1>1, <1>3, <1>4, <1>9, <2>3, <2>4, <2>5 DEF more
<1>10. CASE old = {} /\ Inside(N + 1)
  <2>1. new = {N + 1}
    BY <1>7, <1>10
  <2>2. Min({N + 1}) = N + 1
    <3>1. {N + 1} \in SUBSET Nat /\ {N + 1} # {}
      BY <1>1
    <3>2. Min({N + 1}) \in {N + 1}
      BY <3>1, MinOfSet
    <3> QED
      BY <3>2
  <2> QED
    BY <1>1, <1>3, <1>4, <1>6, <1>10, <2>1, <2>2 DEF more, N
<1>11. CASE old = {} /\ ~Inside(N + 1)
  <2>1. new = {}
    BY <1>7, <1>11
  <2> QED
    BY <1>1, <1>3, <1>4, <1>6, <1>11, <2>1 DEF more
<1> QED
  BY <1>9, <1>10, <1>11

LEMMA ParentOfLast ==
  ASSUME NEW nodes \in Seq(NodeRange), nodes # <<>>
  PROVE  Parent(nodes, Len(nodes)) = 0
<1>1. Len(nodes) \in Nat /\ Len(nodes) + 1 .. Len(nodes) = {}
  BY LenProperties
<1> QED
  BY <1>1 DEF Parent

LEMMA AddNodeKeepsInv ==
  ASSUME NEW b, Sound(b), NEW e, Follows(b, e), NEW c, c = addNode(b, e)
  PROVE  Sound(c)
<1> SUFFICES ASSUME Typed(b), WellFormed(b), InOrder(b), Matches(b)
             PROVE  Typed(c) /\ WellFormed(c) /\ InOrder(c) /\ Matches(c)
  BY DEF Sound
<1> DEFINE N == Len(b.nodes)
           R == Len(b.roots)
<1>1. PICK m \in 0 .. Len(b.roots) : \E n \in m .. Len(b.roots) :
        Divided(b, e, m, n) /\ AddedAt(b, e, m, n, addNode(b, e))
  BY AddNodeShape
<1>2. PICK n \in m .. Len(b.roots) :
        Divided(b, e, m, n) /\ AddedAt(b, e, m, n, addNode(b, e))
  BY <1>1
<1>3. /\ N \in Nat /\ R \in Nat /\ DOMAIN b.nodes = 1 .. N /\ DOMAIN b.roots = 1 .. R
      /\ DOMAIN b.kids = 1 .. N
      /\ \A i \in 1 .. N : b.nodes[i].off \in Nat /\ b.nodes[i].end \in Nat
      /\ \A k \in 1 .. R : b.roots[k] \in 1 .. N
      /\ b.nodes \in Seq(NodeRange)
  BY TypedParts DEF Typed
<1>4. e \in NodeRange /\ e.off \in Nat /\ e.end \in Nat /\ e.off <= e.end
  BY DEF Follows, NodeRange
<1>20. Typed(c) /\ Placed(b, e, m, n, c)
  BY <1>2, <1>4, AddNodePlaces
<1>5. /\ DOMAIN c.nodes = 1 .. N + 1
      /\ \A i \in 1 .. N : c.nodes[i] = b.nodes[i]
      /\ c.nodes[N + 1] = e
      /\ DOMAIN c.kids = 1 .. N + 1
      /\ \A i \in 1 .. N : c.kids[i] = b.kids[i]
      /\ DOMAIN c.kids[N + 1] = 1 .. n - m
      /\ \A k \in 1 .. n - m : c.kids[N + 1][k] = b.roots[m + k]
      /\ DOMAIN c.roots = 1 .. R - n + m + 1
      /\ \A k \in 1 .. m : c.roots[k] = b.roots[k]
      /\ c.roots[m + 1] = N + 1
      /\ \A k \in n + 1 .. R : c.roots[k - n + m + 1] = b.roots[k]
  BY <1>20 DEF Placed
<1>21. m \in 0 .. R /\ n \in m .. R
  OBVIOUS
<1> HIDE DEF N, R
<1>6. m \in Nat /\ n \in Nat /\ m <= n /\ n <= R
  BY <1>3, <1>21
\* The stack, place by place, and where each place was before.
<1>7. ASSUME NEW k \in DOMAIN c.roots
      PROVE  \/ k \in 1 .. m /\ c.roots[k] = b.roots[k]
             \/ k = m + 1 /\ c.roots[k] = N + 1
             \/ \E l \in n + 1 .. R : k = l - n + m + 1 /\ c.roots[k] = b.roots[l]
  <2>1. CASE k \in 1 .. m + 1
    BY <1>5, <1>6, <2>1
  <2>2. CASE k > m + 1
    <3>1. k + n - m - 1 \in n + 1 .. R /\ k = (k + n - m - 1) - n + m + 1
      <4>1. k \in Int /\ k <= R - n + m + 1
        BY <1>3, <1>5, <1>6
      <4> QED
        BY <1>3, <1>6, <2>2, <4>1
    <3> QED
      BY <1>5, <3>1
  <2> QED
    BY <1>3, <1>5, <1>6, <2>1, <2>2
<1>8. ASSUME NEW k \in 1 .. R
      PROVE  LET d == b.nodes[b.roots[k]]
             IN  /\ k <= m => d.end <= e.off
                 /\ k > m /\ k <= n => e.off <= d.off /\ d.off < e.end
                 /\ k > n => e.end <= d.off
  <2> DEFINE d == b.nodes[b.roots[k]]
  <2>1. d.off \in Nat /\ d.end \in Nat
    BY <1>3
  <2>2. d.off < e.off => d.end <= e.off
    BY <1>3, AdoptedAreInside
  <2>3. (k <= m <=> d.off < e.off) /\ (k > m => (k <= n <=> d.off < e.end))
    BY <1>2, <1>3 DEF Divided
  <2> HIDE DEF d
  <2>4. /\ k <= m => d.end <= e.off
        /\ k > m /\ k <= n => e.off <= d.off /\ d.off < e.end
        /\ k > n => e.end <= d.off
    BY <1>4, <1>6, <2>1, <2>2, <2>3
  <2> QED
    BY <2>4 DEF d
<1>9. WellFormed(c)
  <2> SUFFICES ASSUME NEW i \in 1 .. N + 1
               PROVE  c.nodes[i].off <= c.nodes[i].end
    BY <1>5 DEF WellFormed
  <2>1. CASE i = N + 1
    BY <1>4, <1>5, <2>1
  <2>2. CASE i # N + 1
    <3>1. i \in 1 .. N
      BY <1>3, <2>2
    <3> QED
      BY <1>3, <1>5, <3>1 DEF WellFormed
  <2> QED
    BY <2>1, <2>2
<1>10. Ordered(c.nodes, c.roots)
  <2> SUFFICES ASSUME NEW i \in DOMAIN c.roots, NEW j \in DOMAIN c.roots, i < j
               PROVE  /\ c.roots[i] # c.roots[j]
                      /\ c.nodes[c.roots[i]].end <= c.nodes[c.roots[j]].off
    BY DEF Ordered
  <2>1. \A k, l \in 1 .. R : k < l =>
          /\ b.roots[k] # b.roots[l]
          /\ c.nodes[b.roots[k]].end <= c.nodes[b.roots[l]].off
    <3> SUFFICES ASSUME NEW k \in 1 .. R, NEW l \in 1 .. R, k < l
                 PROVE  /\ b.roots[k] # b.roots[l]
                        /\ c.nodes[b.roots[k]].end <= c.nodes[b.roots[l]].off
      OBVIOUS
    <3>1. /\ b.roots[k] # b.roots[l]
          /\ b.nodes[b.roots[k]].end <= b.nodes[b.roots[l]].off
      BY <1>3 DEF InOrder, Ordered
    <3>2. b.roots[k] \in 1 .. N /\ b.roots[l] \in 1 .. N
      BY <1>3
    <3>3. c.nodes[b.roots[k]] = b.nodes[b.roots[k]] /\ c.nodes[b.roots[l]] = b.nodes[b.roots[l]]
      BY <1>5, <3>2
    <3> QED
      BY <3>1, <3>3
  <2>2. ASSUME NEW k \in 1 .. R
        PROVE  b.roots[k] # N + 1 /\ c.nodes[b.roots[k]] = b.nodes[b.roots[k]]
    <3>1. b.roots[k] \in 1 .. N /\ N \in Nat
      BY <1>3
    <3>2. b.roots[k] # N + 1
      BY <3>1
    <3>3. c.nodes[b.roots[k]] = b.nodes[b.roots[k]]
      BY <1>5, <3>1
    <3> QED
      BY <3>2, <3>3
  <2>3. CASE i \in 1 .. m /\ c.roots[i] = b.roots[i]
    <3>1. i \in 1 .. R /\ i <= m
      BY <1>3, <1>6, <2>3
    <3>2. CASE j \in 1 .. m /\ c.roots[j] = b.roots[j]
      <4>1. j \in 1 .. R
        BY <1>3, <1>6, <3>2
      <4> QED
        BY <2>1, <2>3, <3>1, <3>2, <4>1
    <3>3. CASE j = m + 1 /\ c.roots[j] = N + 1
      <4>1. b.nodes[b.roots[i]].end <= e.off
        BY <1>8, <3>1
      <4>2. b.roots[i] # N + 1 /\ c.nodes[b.roots[i]] = b.nodes[b.roots[i]] /\ c.nodes[N + 1] = e
        BY <1>5, <2>2, <3>1
      <4> QED
        BY <2>3, <3>3, <4>1, <4>2
    <3>4. CASE \E l \in n + 1 .. R : j = l - n + m + 1 /\ c.roots[j] = b.roots[l]
      <4>1. PICK l \in n + 1 .. R : c.roots[j] = b.roots[l]
        BY <3>4
      <4>2. l \in 1 .. R /\ i < l
        BY <1>3, <1>6, <3>1, <4>1
      <4> QED
        BY <2>1, <2>3, <3>1, <4>1, <4>2
    <3> QED
      BY <1>7, <3>2, <3>3, <3>4
  <2>4. CASE i = m + 1 /\ c.roots[i] = N + 1
    <3>1. PICK l \in n + 1 .. R : c.roots[j] = b.roots[l]
      <4>1. ~ (j \in 1 .. m) /\ j # m + 1
        BY <1>6, <2>4
      <4> QED
        BY <1>7, <4>1
    <3>2. l \in 1 .. R /\ l > n
      BY <1>3, <1>6
    <3>3. e.end <= b.nodes[b.roots[l]].off
      BY <1>8, <3>2
    <3>4. c.nodes[b.roots[l]] = b.nodes[b.roots[l]] /\ b.roots[l] # N + 1
      BY <2>2, <3>2
    <3> QED
      BY <1>5, <2>4, <3>1, <3>3, <3>4
  <2>5. CASE \E l \in n + 1 .. R : i = l - n + m + 1 /\ c.roots[i] = b.roots[l]
    <3>1. PICK k \in n + 1 .. R : i = k - n + m + 1 /\ c.roots[i] = b.roots[k]
      BY <2>5
    <3>2. PICK l \in n + 1 .. R : j = l - n + m + 1 /\ c.roots[j] = b.roots[l]
      <4>1. ~ (j \in 1 .. m) /\ j # m + 1
        BY <1>3, <1>6, <3>1
      <4> QED
        BY <1>7, <4>1
    <3>3. k \in 1 .. R /\ l \in 1 .. R /\ k < l
      BY <1>3, <1>6, <3>1, <3>2
    <3> QED
      BY <2>1, <3>1, <3>2, <3>3
  <2> QED
    BY <1>7, <2>3, <2>4, <2>5
<1>11. ASSUME NEW i \in DOMAIN c.kids
       PROVE  Ordered(c.nodes, c.kids[i])
  <2>1. CASE i \in 1 .. N
    <3>1. c.kids[i] = b.kids[i] /\ Ordered(b.nodes, b.kids[i])
      BY <1>3, <1>5, <2>1 DEF InOrder
    <3>2. \A k \in DOMAIN b.kids[i] : b.kids[i][k] \in 1 .. N
      <4>1. b.kids[i] \in Seq(1 .. N)
        BY <1>3, <2>1, TypedParts
      <4> QED
        BY <4>1, ElementOfSeq, LenProperties
    <3> SUFFICES ASSUME NEW k \in DOMAIN b.kids[i], NEW l \in DOMAIN b.kids[i], k < l
                 PROVE  /\ b.kids[i][k] # b.kids[i][l]
                        /\ c.nodes[b.kids[i][k]].end <= c.nodes[b.kids[i][l]].off
      BY <3>1 DEF Ordered
    <3>3. /\ b.kids[i][k] # b.kids[i][l]
          /\ b.nodes[b.kids[i][k]].end <= b.nodes[b.kids[i][l]].off
      BY <3>1 DEF Ordered
    <3>4. /\ c.nodes[b.kids[i][k]] = b.nodes[b.kids[i][k]]
          /\ c.nodes[b.kids[i][l]] = b.nodes[b.kids[i][l]]
      BY <1>5, <3>2
    <3> QED
      BY <3>3, <3>4
  <2>2. CASE i = N + 1
    <3> SUFFICES ASSUME NEW k \in 1 .. n - m, NEW l \in 1 .. n - m, k < l
                 PROVE  /\ b.roots[m + k] # b.roots[m + l]
                        /\ c.nodes[b.roots[m + k]].end <= c.nodes[b.roots[m + l]].off
      <4> DEFINE s == c.kids[i]
      <4>1. DOMAIN s = 1 .. n - m /\ \A k \in 1 .. n - m : s[k] = b.roots[m + k]
        BY <1>5, <2>2
      <4> HIDE DEF s
      <4>2. ASSUME NEW k \in 1 .. n - m, NEW l \in 1 .. n - m, k < l
            PROVE  s[k] # s[l] /\ c.nodes[s[k]].end <= c.nodes[s[l]].off
        <5>1. s[k] = b.roots[m + k] /\ s[l] = b.roots[m + l]
          BY <4>1
        <5> QED
          BY <4>2, <5>1
      <4>3. Ordered(c.nodes, s)
        BY <4>1, <4>2 DEF Ordered
      <4> QED
        BY <4>3 DEF s
    <3>1. m + k \in 1 .. R /\ m + l \in 1 .. R /\ m + k < m + l
      BY <1>3, <1>6
    <3>2. b.roots[m + k] \in 1 .. N /\ b.roots[m + l] \in 1 .. N
      BY <1>3, <3>1
    <3>3. /\ c.nodes[b.roots[m + k]] = b.nodes[b.roots[m + k]]
          /\ c.nodes[b.roots[m + l]] = b.nodes[b.roots[m + l]]
      BY <1>5, <3>2
    <3>4. /\ b.roots[m + k] # b.roots[m + l]
          /\ b.nodes[b.roots[m + k]].end <= b.nodes[b.roots[m + l]].off
      BY <1>3, <3>1 DEF InOrder, Ordered
    <3> QED
      BY <3>3, <3>4
  <2> QED
    BY <1>3, <1>5, <2>1, <2>2
\* The nodes that wait for a parent, and those that found it now.
<1>12. ASSUME NEW i \in 1 .. N
       PROVE  /\ i \in ToSet(c.kids[N + 1]) <=>
                   i \in ToSet(b.roots) /\ e.off <= b.nodes[i].off /\ b.nodes[i].off < e.end
              /\ i \in ToSet(c.roots) <=>
                   i \in ToSet(b.roots) /\ ~ (e.off <= b.nodes[i].off /\ b.nodes[i].off < e.end)
  <2>1. ASSUME NEW k \in 1 .. R, b.roots[k] = i
        PROVE  k > m /\ k <= n <=> e.off <= b.nodes[i].off /\ b.nodes[i].off < e.end
    <3>1. /\ k <= m <=> b.nodes[i].off < e.off
          /\ k > m => (k <= n <=> b.nodes[i].off < e.end)
      BY <1>2, <1>3, <2>1 DEF Divided
    <3>2. b.nodes[i].off \in Nat
      BY <1>3
    <3> QED
      BY <1>4, <1>6, <3>1, <3>2
  <2>2. \A k, l \in 1 .. R : b.roots[k] = b.roots[l] => k = l
    <3> SUFFICES ASSUME NEW k \in 1 .. R, NEW l \in 1 .. R, k # l
                 PROVE  b.roots[k] # b.roots[l]
      OBVIOUS
    <3>1. k < l \/ l < k
      OBVIOUS
    <3> QED
      BY <1>3, <3>1 DEF InOrder, Ordered
  <2>3. i \in ToSet(c.kids[N + 1]) <=> \E k \in 1 .. R : b.roots[k] = i /\ k > m /\ k <= n
    <3>1. ASSUME NEW k \in 1 .. n - m, b.roots[m + k] = i
          PROVE  \E l \in 1 .. R : b.roots[l] = i /\ l > m /\ l <= n
      <4>1. m + k \in 1 .. R /\ m + k > m /\ m + k <= n
        BY <1>3, <1>6
      <4> QED
        BY <3>1, <4>1
    <3>2. ASSUME NEW l \in 1 .. R, b.roots[l] = i, l > m, l <= n
          PROVE  \E k \in 1 .. n - m : b.roots[m + k] = i
      <4>1. l - m \in 1 .. n - m /\ m + (l - m) = l
        BY <1>3, <1>6, <3>2
      <4> QED
        BY <3>2, <4>1
    <3> QED
      <4>1. i \in ToSet(c.kids[N + 1]) <=> \E k \in 1 .. n - m : b.roots[m + k] = i
        <5> DEFINE s == c.kids[N + 1]
        <5>1. DOMAIN s = 1 .. n - m /\ \A k \in 1 .. n - m : s[k] = b.roots[m + k]
          BY <1>5
        <5> HIDE DEF s
        <5>2. i \in ToSet(s) <=> \E k \in 1 .. n - m : s[k] = i
          BY <5>1 DEF ToSet
        <5>3. i \in ToSet(s) <=> \E k \in 1 .. n - m : b.roots[m + k] = i
          BY <5>1, <5>2
        <5> QED
          BY <5>3 DEF s
      <4> QED
        BY <3>1, <3>2, <4>1
  <2>4. i \in ToSet(c.roots) <=> \E k \in 1 .. R : b.roots[k] = i /\ ~ (k > m /\ k <= n)
    <3>1. ASSUME NEW k \in DOMAIN c.roots, c.roots[k] = i
          PROVE  \E l \in 1 .. R : b.roots[l] = i /\ ~ (l > m /\ l <= n)
      <4>1. i # N + 1
        BY <1>3
      <4>2. CASE k \in 1 .. m /\ c.roots[k] = b.roots[k]
        <5>1. k \in 1 .. R /\ ~ (k > m)
          BY <1>3, <1>6, <4>2
        <5> QED
          BY <3>1, <4>2, <5>1
      <4>3. CASE \E l \in n + 1 .. R : k = l - n + m + 1 /\ c.roots[k] = b.roots[l]
        <5>1. PICK l \in n + 1 .. R : c.roots[k] = b.roots[l]
          BY <4>3
        <5>2. l \in 1 .. R /\ ~ (l <= n)
          BY <1>3, <1>6
        <5> QED
          BY <3>1, <5>1, <5>2
      <4> QED
        BY <1>7, <3>1, <4>1, <4>2, <4>3
    <3>2. ASSUME NEW l \in 1 .. R, b.roots[l] = i, ~ (l > m /\ l <= n)
          PROVE  \E k \in DOMAIN c.roots : c.roots[k] = i
      <4>1. CASE l <= m
        <5>1. l \in DOMAIN c.roots /\ l \in 1 .. m
          BY <1>3, <1>5, <1>6, <4>1
        <5> QED
          BY <1>5, <3>2, <5>1
      <4>2. CASE l > n
        <5>1. l \in n + 1 .. R /\ l - n + m + 1 \in DOMAIN c.roots
          BY <1>3, <1>5, <1>6, <4>2
        <5> QED
          BY <1>5, <3>2, <5>1
      <4> QED
        BY <1>6, <3>2, <4>1, <4>2
    <3> QED
      BY <3>1, <3>2 DEF ToSet
  <2>5. i \in ToSet(b.roots) <=> \E k \in 1 .. R : b.roots[k] = i
    BY <1>3 DEF ToSet
  <2> QED
    BY <2>1, <2>2, <2>3, <2>4, <2>5
<1>13. Matches(c)
  <2> DEFINE Adopted(i) == e.off <= b.nodes[i].off /\ b.nodes[i].off < e.end
  <2>1. ASSUME NEW i \in 1 .. N
        PROVE  /\ Parent(b.nodes, i) \in {0} \union 1 .. N
               /\ Parent(c.nodes, i) = IF Parent(b.nodes, i) # 0 THEN Parent(b.nodes, i)
                                       ELSE IF Adopted(i) THEN N + 1 ELSE 0
               /\ Parent(b.nodes, i) = 0 <=> i \in ToSet(b.roots)
               /\ \A j \in 1 .. N : Parent(b.nodes, i) = j <=> i \in ToSet(b.kids[j])
    <3>1. c.nodes = Append(b.nodes, e)
      BY <1>2 DEF AddedAt
    <3> HIDE DEF Adopted
    <3>2. /\ Parent(b.nodes, i) \in {0} \union 1 .. N
          /\ Parent(c.nodes, i) = IF Parent(b.nodes, i) # 0 THEN Parent(b.nodes, i)
                                  ELSE IF Adopted(i) THEN N + 1 ELSE 0
      <4>1. i \in DOMAIN b.nodes /\ b.nodes \in Seq(NodeRange) /\ e \in NodeRange
        BY <1>3, <1>4
      <4>2. /\ Parent(b.nodes, i) \in {0} \union DOMAIN b.nodes
            /\ Parent(Append(b.nodes, e), i) =
                 IF Parent(b.nodes, i) # 0 THEN Parent(b.nodes, i)
                 ELSE IF e.off <= b.nodes[i].off /\ b.nodes[i].off < e.end
                      THEN Len(b.nodes) + 1
                 ELSE 0
        BY <4>1, ParentOfAppend
      <4>3. Parent(c.nodes, i) = IF Parent(b.nodes, i) # 0 THEN Parent(b.nodes, i)
                                 ELSE IF Adopted(i) THEN Len(b.nodes) + 1 ELSE 0
        BY <3>1, <4>2, Zenon DEF Adopted
      <4> QED
        BY <1>3, <4>2, <4>3, Zenon DEF N
    <3> QED
      BY <1>3, <3>2 DEF Matches
  <2>2. ASSUME NEW i \in 1 .. N
        PROVE  /\ Parent(c.nodes, i) = 0 <=> i \in ToSet(c.roots)
               /\ \A j \in DOMAIN c.nodes : Parent(c.nodes, i) = j <=> i \in ToSet(c.kids[j])
    <3> HIDE DEF Adopted
    <3>1. /\ i \in ToSet(c.kids[N + 1]) <=> i \in ToSet(b.roots) /\ Adopted(i)
          /\ i \in ToSet(c.roots) <=> i \in ToSet(b.roots) /\ ~Adopted(i)
      BY <1>12 DEF Adopted
    <3>2. N + 1 # 0
      BY <1>3
    <3>3. Parent(c.nodes, i) = 0 <=> i \in ToSet(c.roots)
      BY <2>1, <3>1, <3>2
    <3>4. Parent(c.nodes, i) = N + 1 <=> i \in ToSet(c.kids[N + 1])
      <4>1. Parent(b.nodes, i) # N + 1
        BY <1>3, <2>1
      <4> QED
        BY <2>1, <3>1, <3>2, <4>1
    <3>5. ASSUME NEW j \in 1 .. N
          PROVE  Parent(c.nodes, i) = j <=> i \in ToSet(c.kids[j])
      <4>1. j # 0 /\ j # N + 1 /\ c.kids[j] = b.kids[j]
        <5>1. j # 0 /\ j # N + 1
          BY <1>3
        <5> QED
          BY <1>5, <5>1
      <4> QED
        BY <2>1, <4>1
    <3>6. \A j \in DOMAIN c.nodes : j \in 1 .. N \/ j = N + 1
      BY <1>3, <1>5
    <3> QED
      BY <3>3, <3>4, <3>5, <3>6
  <2>3. /\ Parent(c.nodes, N + 1) = 0 /\ N + 1 \in ToSet(c.roots)
        /\ \A j \in DOMAIN c.nodes : N + 1 \notin ToSet(c.kids[j])
    <3>1. c.nodes \in Seq(NodeRange) /\ Len(c.nodes) = N + 1 /\ c.nodes # <<>>
      <4>1. c.nodes = Append(b.nodes, e)
        BY <1>2 DEF AddedAt
      <4> QED
        BY <1>3, <1>4, <4>1, AppendProperties DEF N
    <3>2. Parent(c.nodes, N + 1) = 0
      BY <3>1, ParentOfLast
    <3>3. N + 1 \in ToSet(c.roots)
      <4>1. m + 1 \in DOMAIN c.roots
        BY <1>3, <1>5, <1>6
      <4> QED
        BY <1>5, <4>1 DEF ToSet
    <3>4. ASSUME NEW j \in 1 .. N
          PROVE  N + 1 \notin ToSet(c.kids[j])
      <4>1. b.kids[j] \in Seq(1 .. N)
        BY <1>3, TypedParts
      <4>2. \A k \in DOMAIN b.kids[j] : b.kids[j][k] \in 1 .. N
        BY <4>1, ElementOfSeq, LenProperties
      <4>3. N + 1 \notin 1 .. N
        BY <1>3
      <4> QED
        <5>1. c.kids[j] = b.kids[j]
          BY <1>5
        <5> QED
          BY <4>2, <4>3, <5>1 DEF ToSet
    <3>5. N + 1 \notin ToSet(c.kids[N + 1])
      <4>1. \A k \in 1 .. n - m : b.roots[m + k] # N + 1
        <5>1. \A k \in 1 .. n - m : m + k \in 1 .. R
          BY <1>3, <1>6
        <5>2. \A k \in 1 .. R : b.roots[k] # N + 1
          BY <1>3
        <5> QED
          BY <5>1, <5>2
      <4> QED
        <5>1. /\ DOMAIN c.kids[N + 1] = 1 .. n - m
              /\ \A k \in 1 .. n - m : c.kids[N + 1][k] = b.roots[m + k]
          BY <1>5
        <5>2. \A k \in DOMAIN c.kids[N + 1] : c.kids[N + 1][k] # N + 1
          BY <4>1, <5>1
        <5> QED
          BY <5>2 DEF ToSet
    <3>6. ASSUME NEW j \in DOMAIN c.nodes
          PROVE  N + 1 \notin ToSet(c.kids[j])
      <4>1. j \in 1 .. N \/ j = N + 1
        BY <1>3, <1>5
      <4> QED
        BY <3>4, <3>5, <4>1
    <3> QED
      BY <3>2, <3>3, <3>6
  <2> QED
    <3>1. \A i \in DOMAIN c.nodes : i \in 1 .. N \/ i = N + 1
      BY <1>3, <1>5
    <3>2. \A j \in DOMAIN c.nodes : j # 0
      BY <1>3, <1>5
    <3> QED
      BY <2>2, <2>3, <3>1, <3>2 DEF Matches
<1> QED
  BY <1>9, <1>10, <1>11, <1>13, <1>20 DEF InOrder

-----------------------------------------------------------------------------
(***************************************************************************)
(* The shape of the tree, whatever the ranges are: not only in post-order. *)
(***************************************************************************)
IsForest(b) ==
  /\ IsInjective(b.roots)
  /\ \A j \in DOMAIN b.kids : IsInjective(b.kids[j])
     \* a parent is added after its children
  /\ \A j \in DOMAIN b.kids : \A i \in ToSet(b.kids[j]) : i < j
     \* no node has two parents
  /\ \A i, j \in DOMAIN b.kids : i # j => ToSet(b.kids[i]) \intersect ToSet(b.kids[j]) = {}
     \* the stack holds exactly the nodes that have none
  /\ \A i \in DOMAIN b.nodes :
       i \in ToSet(b.roots) <=> \A j \in DOMAIN b.kids : i \notin ToSet(b.kids[j])

Forest(b) == Typed(b) /\ IsForest(b)

LEMMA PlacesOnStack ==
  ASSUME NEW b, Typed(b), NEW off \in Nat, NEW end \in Nat
  PROVE  Start(b, off) \in 0 .. Len(b.roots) /\ End(b, off, end) \in Start(b, off) .. Len(b.roots)
<1> DEFINE before == { i \in DOMAIN b.roots : b.nodes[b.roots[i]].off < off }
           m == Start(b, off)
           R == Len(b.roots)
           behind == { i \in m + 1 .. R : b.nodes[b.roots[i]].off >= end }
<1>1. R \in Nat /\ DOMAIN b.roots = 1 .. R
  BY TypedParts
<1>2. m \in 0 .. R
  <2>1. m = IF before = {} THEN 0 ELSE Max(before)
    BY DEF Start
  <2>2. before \in SUBSET (0 .. R) /\ 0 \in 0 .. R
    BY <1>1
  <2>3. before # {} => Max(before) \in before
    <3> HIDE DEF before
    <3> QED
      BY <1>1, <2>2, MaxOfSet
  <2> HIDE DEF before, m
  <2> QED
    BY <2>1, <2>2, <2>3
<1>3. End(b, off, end) = R - Cardinality(behind)
  BY DEF End
<1>4. Cardinality(behind) \in 0 .. R - m
  <2>1. behind \in SUBSET (m + 1 .. R)
    OBVIOUS
  <2> HIDE DEF behind, m, R
  <2>2. IsFiniteSet(m + 1 .. R) /\ Cardinality(m + 1 .. R) = R - m
    <3>1. m + 1 \in Int /\ R \in Int
      BY <1>1, <1>2
    <3>2. /\ IsFiniteSet(m + 1 .. R)
          /\ Cardinality(m + 1 .. R) = IF m + 1 > R THEN 0 ELSE R - (m + 1) + 1
      BY <3>1, FS_Interval
    <3> QED
      BY <1>1, <1>2, <3>2
  <2>3. IsFiniteSet(behind) /\ Cardinality(behind) <= R - m
    BY <2>1, <2>2, FS_Subset
  <2>4. Cardinality(behind) \in Nat
    BY <2>3, FS_CardinalityType
  <2> QED
    BY <1>1, <1>2, <2>3, <2>4
<1> HIDE DEF behind, m, R
<1> QED
  BY <1>1, <1>2, <1>3, <1>4 DEF m, R

\* What addNode leaves on the stack, and what it gives to the new node.
LEMMA RootsAfter ==
  ASSUME NEW b, Typed(b), IsInjective(b.roots), NEW e \in NodeRange, NEW c,
         NEW m \in 0 .. Len(b.roots), NEW n \in m .. Len(b.roots), Placed(b, e, m, n, c)
  PROVE  /\ IsInjective(c.roots)
         /\ IsInjective(c.kids[Len(b.nodes) + 1])
         /\ ToSet(c.roots) \intersect ToSet(c.kids[Len(b.nodes) + 1]) = {}
         /\ ToSet(c.roots) \union ToSet(c.kids[Len(b.nodes) + 1])
              = ToSet(b.roots) \union { Len(b.nodes) + 1 }
         /\ Len(b.nodes) + 1 \in ToSet(c.roots)
         /\ ToSet(b.roots) \subseteq 1 .. Len(b.nodes)
<1> DEFINE N == Len(b.nodes)
           R == Len(b.roots)
           From(p) == IF p <= m THEN p ELSE p + n - m - 1
           new == c.kids[N + 1]
<1>1. /\ N \in Nat /\ R \in Nat /\ DOMAIN b.roots = 1 .. R
      /\ \A k \in 1 .. R : b.roots[k] \in 1 .. N
      /\ \A k, l \in 1 .. R : b.roots[k] = b.roots[l] => k = l
  BY TypedParts DEF IsInjective
<1>2. m \in Nat /\ n \in Nat /\ m <= n /\ n <= R
  BY <1>1
<1>3. /\ DOMAIN new = 1 .. n - m
      /\ \A k \in 1 .. n - m : new[k] = b.roots[m + k]
      /\ DOMAIN c.roots = 1 .. R - n + m + 1
      /\ \A k \in 1 .. m : c.roots[k] = b.roots[k]
      /\ c.roots[m + 1] = N + 1
      /\ \A k \in n + 1 .. R : c.roots[k - n + m + 1] = b.roots[k]
  BY DEF Placed
<1> HIDE DEF N, R, new
<1>4. ASSUME NEW p \in 1 .. R - n + m + 1, p # m + 1
      PROVE  /\ From(p) \in 1 .. R /\ ~ (From(p) \in m + 1 .. n)
             /\ c.roots[p] = b.roots[From(p)]
  <2>1. CASE p <= m
    BY <1>1, <1>2, <1>3, <2>1
  <2>2. CASE p > m + 1
    <3>1. From(p) \in n + 1 .. R /\ From(p) - n + m + 1 = p
      BY <1>1, <1>2, <2>2
    <3>2. c.roots[p] = b.roots[From(p)]
      BY <1>3, <3>1
    <3> QED
      BY <1>1, <1>2, <3>1, <3>2
  <2> QED
    BY <1>2, <1>4, <2>1, <2>2
<1>5. ASSUME NEW k \in 1 .. R, ~ (k \in m + 1 .. n)
      PROVE  \E p \in 1 .. R - n + m + 1 : p # m + 1 /\ c.roots[p] = b.roots[k]
  <2>1. CASE k <= m
    <3>1. k \in 1 .. R - n + m + 1 /\ k # m + 1 /\ k \in 1 .. m
      BY <1>1, <1>2, <2>1
    <3> QED
      BY <1>3, <3>1
  <2>2. CASE k > n
    <3> DEFINE p == k - n + m + 1
    <3>1. p \in 1 .. R - n + m + 1 /\ p # m + 1 /\ k \in n + 1 .. R
      BY <1>1, <1>2, <2>2
    <3>2. c.roots[p] = b.roots[k]
      BY <1>3, <3>1
    <3> HIDE DEF p
    <3> QED
      BY <3>1, <3>2
  <2>3. k <= m \/ k > n
    BY <1>2, <1>5
  <2> QED
    BY <2>1, <2>2, <2>3
<1>6. IsInjective(c.roots)
  <2> SUFFICES ASSUME NEW p \in 1 .. R - n + m + 1, NEW q \in 1 .. R - n + m + 1,
                      c.roots[p] = c.roots[q]
               PROVE  p = q
    BY <1>3 DEF IsInjective
  <2>1. CASE p = m + 1 /\ q # m + 1
    <3>1. c.roots[q] \in 1 .. N
      BY <1>1, <1>4, <2>1
    <3>2. c.roots[p] = N + 1
      BY <1>3, <2>1
    <3> QED
      BY <1>1, <3>1, <3>2
  <2>2. CASE p # m + 1 /\ q = m + 1
    <3>1. c.roots[p] \in 1 .. N
      BY <1>1, <1>4, <2>2
    <3>2. c.roots[q] = N + 1
      BY <1>3, <2>2
    <3> QED
      BY <1>1, <3>1, <3>2
  <2>3. CASE p # m + 1 /\ q # m + 1
    <3>1. From(p) = From(q)
      <4>1. From(p) \in 1 .. R /\ From(q) \in 1 .. R /\ b.roots[From(p)] = b.roots[From(q)]
        BY <1>4, <2>3
      <4> HIDE DEF From
      <4> QED
        BY <1>1, <4>1
    <3>2. p \in Int /\ q \in Int
      BY <1>1, <1>2
    <3> QED
      BY <1>1, <1>2, <2>3, <3>1, <3>2
  <2> QED
    BY <2>1, <2>2, <2>3
<1>7. IsInjective(new)
  <2> SUFFICES ASSUME NEW p \in 1 .. n - m, NEW q \in 1 .. n - m, new[p] = new[q]
               PROVE  p = q
    BY <1>3 DEF IsInjective
  <2>1. m + p \in 1 .. R /\ m + q \in 1 .. R
    BY <1>1, <1>2
  <2>2. b.roots[m + p] = b.roots[m + q]
    BY <1>3
  <2>3. \A k, l \in 1 .. R : b.roots[k] = b.roots[l] => k = l
    BY <1>1
  <2>4. m + p = m + q
    BY <2>1, <2>2, <2>3, Zenon
  <2> QED
    BY <1>2, <2>4
<1>8. ASSUME NEW x \in ToSet(new)
      PROVE  \E k \in m + 1 .. n : k \in 1 .. R /\ x = b.roots[k]
  <2>1. PICK k \in 1 .. n - m : x = b.roots[m + k]
    BY <1>3 DEF ToSet
  <2>2. m + k \in m + 1 .. n /\ m + k \in 1 .. R
    BY <1>1, <1>2
  <2> QED
    BY <2>1, <2>2
<1>9. ASSUME NEW x \in ToSet(c.roots)
      PROVE  \/ x = N + 1
             \/ \E k \in 1 .. R : ~ (k \in m + 1 .. n) /\ x = b.roots[k]
  <2>1. PICK p \in 1 .. R - n + m + 1 : x = c.roots[p]
    BY <1>3 DEF ToSet
  <2> HIDE DEF From
  <2> QED
    BY <1>3, <1>4, <2>1
<1>10. ASSUME NEW k \in 1 .. R
       PROVE  b.roots[k] \in ToSet(c.roots) \union ToSet(new)
  <2>1. CASE k \in m + 1 .. n
    <3>1. k - m \in 1 .. n - m /\ m + (k - m) = k
      BY <1>2, <2>1
    <3>2. new[k - m] = b.roots[k]
      BY <1>3, <3>1
    <3> QED
      BY <1>3, <3>1, <3>2 DEF ToSet
  <2>2. CASE ~ (k \in m + 1 .. n)
    BY <1>3, <1>5, <2>2 DEF ToSet
  <2> QED
    BY <2>1, <2>2
<1>11. N + 1 \in ToSet(c.roots)
  <2>1. m + 1 \in 1 .. R - n + m + 1
    BY <1>1, <1>2
  <2> QED
    BY <1>3, <2>1 DEF ToSet
<1>12. ToSet(c.roots) \intersect ToSet(new) = {}
  <2> SUFFICES ASSUME NEW x \in ToSet(new), x \in ToSet(c.roots) PROVE FALSE
    OBVIOUS
  <2>1. PICK k \in m + 1 .. n : k \in 1 .. R /\ x = b.roots[k]
    BY <1>8
  <2>2. x # N + 1
    BY <1>1, <2>1
  <2>3. PICK l \in 1 .. R : ~ (l \in m + 1 .. n) /\ x = b.roots[l]
    BY <1>9, <2>2
  <2>4. k = l
    BY <1>1, <2>1, <2>3
  <2> QED
    BY <2>3, <2>4
<1>13. ToSet(b.roots) = { b.roots[k] : k \in 1 .. R }
  BY <1>1 DEF ToSet
<1>14. ToSet(c.roots) \union ToSet(new) = ToSet(b.roots) \union { N + 1 }
  BY <1>8, <1>9, <1>10, <1>11, <1>13
<1>15. ToSet(b.roots) \subseteq 1 .. N
  BY <1>1, <1>13
<1> QED
  BY <1>6, <1>7, <1>11, <1>12, <1>14, <1>15 DEF new, N

LEMMA AddNodeKeepsForest ==
  ASSUME NEW b, Forest(b), NEW e, e.off \in Nat, e.end \in Nat, NEW c, c = addNode(b, e)
  PROVE  Forest(c)
<1> DEFINE N == Len(b.nodes)
           r == [off |-> e.off, end |-> e.end]
           m == Start(b, e.off)
           n == End(b, e.off, e.end)
           new == c.kids[N + 1]
           Kids(j) == ToSet(c.kids[j])
<1>1. Typed(b) /\ IsForest(b) /\ r \in NodeRange
  BY DEF Forest, NodeRange
<1>2. m \in 0 .. Len(b.roots) /\ n \in m .. Len(b.roots)
  BY <1>1, PlacesOnStack
<1>3. AddedAt(b, r, m, n, c)
  BY DEF addNode, AddedAt
<1> HIDE DEF r, m, n
<1>4. Typed(c) /\ Placed(b, r, m, n, c)
  BY <1>1, <1>2, <1>3, AddNodePlaces
<1>5. /\ IsInjective(c.roots) /\ IsInjective(new)
      /\ ToSet(c.roots) \intersect ToSet(new) = {}
      /\ ToSet(c.roots) \union ToSet(new) = ToSet(b.roots) \union { N + 1 }
      /\ N + 1 \in ToSet(c.roots)
      /\ ToSet(b.roots) \subseteq 1 .. N
  <2>1. IsInjective(b.roots)
    BY <1>1 DEF IsForest
  <2> QED
    BY <1>1, <1>2, <1>4, <2>1, RootsAfter
<1>6. /\ N \in Nat /\ DOMAIN b.nodes = 1 .. N /\ DOMAIN b.kids = 1 .. N
      /\ DOMAIN c.nodes = 1 .. N + 1 /\ DOMAIN c.kids = 1 .. N + 1
      /\ \A j \in 1 .. N : c.kids[j] = b.kids[j]
      /\ \A j \in 1 .. N : ToSet(b.kids[j]) \subseteq 1 .. N
  <2>1. ASSUME NEW j \in 1 .. N, NEW i \in ToSet(b.kids[j]) PROVE i \in 1 .. N
    <3>1. b.kids[j] \in Seq(1 .. N)
      BY <1>1, TypedParts
    <3>2. PICK k \in DOMAIN b.kids[j] : i = b.kids[j][k]
      BY DEF ToSet
    <3> QED
      BY <3>1, <3>2, ElementOfSeq, LenProperties
  <2> QED
    BY <1>1, <1>4, <2>1, TypedParts DEF Placed
<1> HIDE DEF N, new
<1>7. /\ \A j \in 1 .. N : Kids(j) = ToSet(b.kids[j])
      /\ Kids(N + 1) = ToSet(new)
      /\ \A j \in 1 .. N + 1 : j \in 1 .. N \/ j = N + 1
      /\ 1 .. N \subseteq 1 .. N + 1 /\ N + 1 \in 1 .. N + 1 /\ N + 1 \notin 1 .. N
  BY <1>6 DEF new
<1>8. \A j \in 1 .. N + 1 : IsInjective(c.kids[j])
  <2>1. \A j \in 1 .. N : IsInjective(b.kids[j])
    BY <1>1, <1>6 DEF IsForest
  <2> QED
    BY <1>5, <1>6, <1>7, <2>1 DEF new
\* What the new node adopts was on the stack, and has had no parent.
<1>9. \A i \in ToSet(new) : i \in ToSet(b.roots) /\ i \in 1 .. N
  BY <1>5
<1> HIDE DEF Kids
<1>10. \A j \in 1 .. N + 1 : \A i \in Kids(j) : i < j
  <2>1. \A j \in 1 .. N : \A i \in ToSet(b.kids[j]) : i < j
    BY <1>1, <1>6 DEF IsForest
  <2>2. \A i \in 1 .. N : i < N + 1
    BY <1>6
  <2> QED
    BY <1>7, <1>9, <2>1, <2>2
<1>11. \A i \in 1 .. N : i \in ToSet(b.roots) <=> \A j \in 1 .. N : i \notin Kids(j)
  <2>1. \A i \in 1 .. N : i \in ToSet(b.roots) <=> \A j \in 1 .. N : i \notin ToSet(b.kids[j])
    BY <1>1, <1>6 DEF IsForest
  <2> QED
    BY <1>7, <2>1
<1>12. \A i, j \in 1 .. N + 1 : i # j => Kids(i) \intersect Kids(j) = {}
  <2>1. \A i, j \in 1 .. N : i # j => Kids(i) \intersect Kids(j) = {}
    <3>1. \A i, j \in 1 .. N : i # j => ToSet(b.kids[i]) \intersect ToSet(b.kids[j]) = {}
      BY <1>1, <1>6 DEF IsForest
    <3> QED
      BY <1>7, <3>1
  <2>2. \A j \in 1 .. N : Kids(N + 1) \intersect Kids(j) = {}
    BY <1>7, <1>9, <1>11
  <2> QED
    BY <1>7, <2>1, <2>2
<1>13. \A i \in 1 .. N + 1 : i \in ToSet(c.roots) <=> \A j \in 1 .. N + 1 : i \notin Kids(j)
  <2>1. ASSUME NEW i \in 1 .. N
        PROVE  i \in ToSet(c.roots) <=> \A j \in 1 .. N + 1 : i \notin Kids(j)
    <3>1. i # N + 1
      BY <1>7
    <3>2. i \in ToSet(c.roots) <=> i \in ToSet(b.roots) /\ i \notin ToSet(new)
      BY <1>5, <3>1
    <3> QED
      BY <1>7, <1>11, <3>2
  <2>2. \A j \in 1 .. N + 1 : N + 1 \notin Kids(j)
    BY <1>6, <1>7, <1>9
  <2> QED
    BY <1>5, <1>7, <2>1, <2>2
<1>14. IsForest(c)
  BY <1>5, <1>6, <1>8, <1>10, <1>12, <1>13 DEF IsForest, Kids
<1> QED
  BY <1>4, <1>14 DEF Forest

-----------------------------------------------------------------------------
LEMMA TreeInit == AstInit => TreeInv
<1> SUFFICES ASSUME AstInit PROVE TreeInv
  OBVIOUS
<1>1. builder = [nodes |-> <<>>, roots |-> <<>>, kids |-> <<>>]
  BY DEF AstInit, newBuilder
<1>2. /\ builder.nodes = <<>> /\ builder.roots = <<>> /\ builder.kids = <<>>
      /\ DOMAIN builder.nodes = {} /\ DOMAIN builder.roots = {} /\ DOMAIN builder.kids = {}
  BY <1>1
<1>3. Typed(builder)
  BY <1>2, EmptySeq DEF Typed
<1> QED
  BY <1>2, <1>3 DEF TreeInv, Sound, Within, WellFormed, InOrder, Ordered, Matches

LEMMA AddKeeps ==
  ASSUME TreeInv, NEW off \in 0 .. Width, NEW end \in off .. Width, Add(off, end)
  PROVE  TreeInv'
<1> DEFINE e == [off |-> off, end |-> end]
<1>1. builder' = addNode(builder, e) /\ L!PostOrder(builder'.nodes)
  BY DEF Add
<1>2. e \in NodeRange /\ e.off <= e.end /\ e.end <= Width
  BY BuilderBounds DEF NodeRange
<1>3. /\ builder'.nodes = Append(builder.nodes, e)
      /\ builder.nodes \in Seq(NodeRange)
      /\ Len(builder.nodes) \in Nat /\ DOMAIN builder.nodes = 1 .. Len(builder.nodes)
  BY <1>1, TypedParts DEF TreeInv, Sound, addNode, Typed
<1>4. /\ DOMAIN builder'.nodes = 1 .. Len(builder.nodes) + 1
      /\ \A i \in 1 .. Len(builder.nodes) : builder'.nodes[i] = builder.nodes[i]
      /\ builder'.nodes[Len(builder.nodes) + 1] = e
  BY <1>2, <1>3, AppendProperties, LenProperties
<1> HIDE DEF e
<1>5. ASSUME NEW i \in DOMAIN builder.nodes
      PROVE  L!Beside(builder.nodes[i], e) \/ L!Encloses(e, builder.nodes[i])
  <2>1. /\ i \in DOMAIN builder'.nodes /\ Len(builder.nodes) + 1 \in DOMAIN builder'.nodes
        /\ i < Len(builder.nodes) + 1
    BY <1>3, <1>4
  <2> QED
    BY <1>1, <1>3, <1>4, <2>1 DEF L!PostOrder
<1>6. Follows(builder, e)
  BY <1>2, <1>5 DEF Follows
<1>7. Within(builder', Width)
  BY <1>2, <1>3, <1>4 DEF TreeInv, Within
<1> QED
  BY <1>1, <1>3, <1>4, <1>6, <1>7, AddNodeKeepsInv DEF TreeInv

LEMMA BuildKeeps ==
  ASSUME TreeInv, Build
  PROVE  TreeInv'
<1> DEFINE e == [off |-> 0, end |-> Width]
<1>1. builder' = addNode(builder, e)
  BY DEF Build, build
<1>2. e \in NodeRange /\ e.off <= e.end /\ e.end <= Width /\ e.off = 0 /\ e.end = Width
  BY BuilderBounds DEF NodeRange
<1> HIDE DEF e
<1>3. \A i \in DOMAIN builder.nodes : L!Encloses(e, builder.nodes[i])
  BY <1>2, TypedParts DEF TreeInv, Sound, Within, WellFormed, L!Encloses
<1>4. Follows(builder, e)
  BY <1>2, <1>3 DEF Follows
<1>5. Within(builder', Width)
  <2>1. builder'.nodes = Append(builder.nodes, [off |-> e.off, end |-> e.end])
    BY <1>1 DEF addNode
  <2>2. builder.nodes \in Seq(NodeRange) /\ [off |-> e.off, end |-> e.end] \in NodeRange
    BY <1>2 DEF TreeInv, Sound, Typed, NodeRange
  <2> QED
    BY <1>2, <2>1, <2>2, AppendProperties, LenProperties DEF TreeInv, Within
<1> QED
  BY <1>1, <1>4, <1>5, AddNodeKeepsInv DEF TreeInv

LEMMA TreeInvariant == AstSpec => [](TreeInv /\ done \in BOOLEAN)
<1>1. AstInit => TreeInv /\ done \in BOOLEAN
  BY TreeInit DEF AstInit
<1>2. TreeInv /\ done \in BOOLEAN /\ [AstNext]_astVars => (TreeInv /\ done \in BOOLEAN)'
  <2> SUFFICES ASSUME TreeInv, done \in BOOLEAN, [AstNext]_astVars
               PROVE  (TreeInv /\ done \in BOOLEAN)'
    OBVIOUS
  <2>1. ASSUME NEW off \in 0 .. Width, NEW end \in off .. Width, Add(off, end)
        PROVE  (TreeInv /\ done \in BOOLEAN)'
    BY <2>1, AddKeeps DEF Add
  <2>2. CASE Build
    BY <2>2, BuildKeeps DEF Build
  <2>3. CASE UNCHANGED astVars
    BY <2>3 DEF astVars, TreeInv
  <2> QED
    BY <2>1, <2>2, <2>3 DEF AstNext
<1> QED
  BY <1>1, <1>2, PTL DEF AstSpec

\* addNode gives every node the parent that the ranges alone determine, for
\* every sequence of calls in post-order.
THEOREM TreeIsThatOfTheRanges == AstSpec => [](AstTypeOK /\ TreeMatchesRanges)
<1>1. TreeInv /\ done \in BOOLEAN => AstTypeOK /\ TreeMatchesRanges
  BY DEF TreeInv, Sound, Typed, Matches, AstTypeOK, NodeRange, TreeMatchesRanges
<1> QED
  BY <1>1, TreeInvariant, PTL

\* Neither the stack nor any list of children ever holds two nodes out of
\* order or overlapping.
THEOREM SiblingsStayInOrder == AstSpec => []SiblingsInOrder
<1>1. TreeInv => SiblingsInOrder
  BY DEF TreeInv, Sound, InOrder, SiblingsInOrder
<1> QED
  BY <1>1, TreeInvariant, PTL

-----------------------------------------------------------------------------
(***************************************************************************)
(* Several calls, one after the other.                                     *)
(***************************************************************************)
AddsAll(iter, b, s, k) ==
  iter = [x \in SUBSET (1 .. k) |->
            IF x = {} THEN b ELSE addNode(iter[x \ {Max(x)}], s[Max(x)])]

LEMMA AddsAllExists ==
  ASSUME NEW b, NEW s, NEW k \in Nat
  PROVE  \E iter : AddsAll(iter, b, s, k)
<1> DEFINE Without == { j \in Nat : ~ \E iter : AddsAll(iter, b, s, j) }
<1> SUFFICES ASSUME Without # {} PROVE FALSE
  OBVIOUS
<1>1. PICK j \in Without : \A i \in Without : j <= i
  <2>1. Without \in SUBSET Nat
    OBVIOUS
  <2> HIDE DEF Without
  <2> QED
    BY <2>1, LeastNatural
<1>2. CASE j = 0
  <2>1. SUBSET (1 .. j) = {{}}
    BY <1>2
  <2> DEFINE f == [x \in {{}} |-> b]
  <2>2. f = [x \in SUBSET (1 .. j) |->
               IF x = {} THEN b ELSE addNode(f[x \ {Max(x)}], s[Max(x)])]
    BY <2>1
  <2>3. \E iter : AddsAll(iter, b, s, j)
    <3> HIDE DEF f
    <3> QED
      BY <2>2 DEF AddsAll
  <2> QED
    BY <1>1, <2>3
<1>3. CASE j # 0
  <2>1. j \in Nat /\ j - 1 \in Nat /\ j - 1 \notin Without
    BY <1>1, <1>3
  <2>2. PICK f : AddsAll(f, b, s, j - 1)
    BY <2>1
  <2>3. \A x \in SUBSET (1 .. j - 1) :
          f[x] = IF x = {} THEN b ELSE addNode(f[x \ {Max(x)}], s[Max(x)])
    BY <2>2, Zenon DEF AddsAll
  <2> DEFINE g == [x \in SUBSET (1 .. j) |->
                     IF j \in x THEN addNode(f[x \ {j}], s[j]) ELSE f[x]]
  <2>4. ASSUME NEW x \in SUBSET (1 .. j)
        PROVE  g[x] = IF x = {} THEN b ELSE addNode(g[x \ {Max(x)}], s[Max(x)])
    <3>1. CASE x = {}
      <4>1. x \in SUBSET (1 .. j - 1) /\ j \notin x
        BY <3>1
      <4> QED
        BY <2>3, <3>1, <4>1
    <3>2. CASE x # {}
      <4>1. Max(x) \in x /\ \A y \in x : y <= Max(x)
        <5>1. x \in SUBSET (0 .. j)
          BY <2>1
        <5> QED
          BY <2>1, <3>2, <5>1, MaxOfSet
      <4>2. CASE j \in x
        <5>1. Max(x) = j
          <6>1. Max(x) \in 1 .. j /\ j <= Max(x)
            BY <4>1, <4>2
          <6> QED
            BY <2>1, <6>1
        <5>2. x \ {j} \in SUBSET (1 .. j) /\ j \notin x \ {j}
          OBVIOUS
        <5>3. g[x \ {j}] = f[x \ {j}]
          BY <5>2
        <5>4. g[x] = addNode(f[x \ {j}], s[j])
          BY <4>2
        <5> QED
          BY <3>2, <5>1, <5>3, <5>4
      <4>3. CASE j \notin x
        <5>1. x \in SUBSET (1 .. j - 1)
          BY <2>1, <4>3
        <5>2. x \ {Max(x)} \in SUBSET (1 .. j) /\ j \notin x \ {Max(x)}
          BY <4>3
        <5>3. g[x \ {Max(x)}] = f[x \ {Max(x)}]
          BY <5>2
        <5>4. g[x] = f[x]
          BY <4>3
        <5>5. f[x] = addNode(f[x \ {Max(x)}], s[Max(x)])
          BY <2>3, <3>2, <5>1
        <5> QED
          BY <3>2, <5>3, <5>4, <5>5
      <4> QED
        BY <4>2, <4>3
    <3> QED
      BY <3>1, <3>2
  <2>5. g = [x \in SUBSET (1 .. j) |-> g[x]]
    OBVIOUS
  <2> HIDE DEF g
  <2>6. g = [x \in SUBSET (1 .. j) |->
               IF x = {} THEN b ELSE addNode(g[x \ {Max(x)}], s[Max(x)])]
    BY <2>4, <2>5
  <2>7. AddsAll(g, b, s, j)
    BY <2>6 DEF AddsAll
  <2> QED
    BY <1>1, <2>7
<1> QED
  BY <1>2, <1>3

\* addNodes calls addNode once for each element, from left to right.
LEMMA FoldAddsInOrder ==
  ASSUME NEW b, NEW s, Len(s) \in Nat, DOMAIN s = 1 .. Len(s)
  PROVE  \E h : /\ h[0] = b /\ h[Len(s)] = addNodes(b, s)
                /\ \A j \in 0 .. Len(s) - 1 : h[j + 1] = addNode(h[j], s[j + 1])
<1> DEFINE iter == CHOOSE f : f = [x \in SUBSET DOMAIN s |->
                     IF x = {} THEN b ELSE addNode(f[x \ {Max(x)}], s[Max(x)])]
           h == [j \in 0 .. Len(s) |-> iter[1 .. j]]
<1>1. addNodes(b, s) = iter[DOMAIN s]
  BY DEF addNodes, FoldLeft, MapThenFoldSet
<1>2. iter = [x \in SUBSET DOMAIN s |->
                IF x = {} THEN b ELSE addNode(iter[x \ {Max(x)}], s[Max(x)])]
  <2>1. \E f : f = [x \in SUBSET DOMAIN s |->
                      IF x = {} THEN b ELSE addNode(f[x \ {Max(x)}], s[Max(x)])]
    <3>1. PICK f : AddsAll(f, b, s, Len(s))
      BY AddsAllExists
    <3> QED
      BY <3>1, Zenon DEF AddsAll
  <2> QED
    BY <2>1, Zenon
<1> HIDE DEF iter
<1>3. \A x \in SUBSET DOMAIN s :
        iter[x] = IF x = {} THEN b ELSE addNode(iter[x \ {Max(x)}], s[Max(x)])
  BY <1>2, Zenon
<1>4. h[0] = b
  <2>1. 1 .. 0 = {} /\ 0 \in 0 .. Len(s) /\ {} \in SUBSET DOMAIN s
    OBVIOUS
  <2>2. iter[{}] = b
    BY <1>3, <2>1
  <2> QED
    BY <2>1, <2>2
<1>5. h[Len(s)] = addNodes(b, s)
  BY <1>1
<1>6. ASSUME NEW j \in 0 .. Len(s) - 1
      PROVE  h[j + 1] = addNode(h[j], s[j + 1])
  <2>1. /\ 1 .. j + 1 \in SUBSET DOMAIN s /\ 1 .. j + 1 # {}
        /\ (1 .. j + 1) \ {j + 1} = 1 .. j
    <3>1. j \in Nat /\ j + 1 \in 1 .. Len(s)
      OBVIOUS
    <3>2. j + 1 \in 1 .. j + 1
      BY <3>1
    <3>3. \A y \in 1 .. j + 1 : y \in 1 .. Len(s)
      BY <3>1
    <3>4. \A y : y \in (1 .. j + 1) \ {j + 1} <=> y \in 1 .. j
      BY <3>1
    <3> QED
      BY <3>2, <3>3, <3>4
  <2>2. Max(1 .. j + 1) = j + 1
    <3>1. Max(1 .. j + 1) \in 1 .. j + 1 /\ \A y \in 1 .. j + 1 : y <= Max(1 .. j + 1)
      <4>1. 1 .. j + 1 \in SUBSET (0 .. j + 1) /\ j + 1 \in Nat
        OBVIOUS
      <4> QED
        BY <2>1, <4>1, MaxOfSet
    <3> QED
      BY <3>1
  <2>3. iter[1 .. j + 1] = addNode(iter[1 .. j], s[j + 1])
    BY <1>3, <2>1, <2>2
  <2> QED
    BY <2>3
<1> HIDE DEF h
<1> QED
  BY <1>4, <1>5, <1>6

\* Calls with any ranges leave a forest.
LEMMA AddNodesKeepForest ==
  ASSUME NEW b, Forest(b), NEW s, Ranged(s)
  PROVE  Forest(addNodes(b, s))
<1>1. Len(s) \in Nat /\ DOMAIN s = 1 .. Len(s)
  BY DEF Ranged
<1>2. PICK h : /\ h[0] = b /\ h[Len(s)] = addNodes(b, s)
               /\ \A j \in 0 .. Len(s) - 1 : h[j + 1] = addNode(h[j], s[j + 1])
  BY <1>1, FoldAddsInOrder
<1> DEFINE Bad == { j \in 0 .. Len(s) : ~Forest(h[j]) }
<1>3. Bad = {}
  <2> SUFFICES ASSUME Bad # {} PROVE FALSE
    OBVIOUS
  <2>1. PICK j \in Bad : \A i \in Bad : j <= i
    <3>1. Bad \in SUBSET Nat
      BY <1>1
    <3> HIDE DEF Bad
    <3> QED
      BY <3>1, LeastNatural
  <2>2. j \in 0 .. Len(s) /\ ~Forest(h[j]) /\ j # 0
    BY <1>1, <1>2, <2>1
  <2>3. j - 1 \in 0 .. Len(s) - 1 /\ j - 1 \in 0 .. Len(s) /\ (j - 1) + 1 = j /\ ~ (j <= j - 1)
    BY <1>1, <2>2
  <2>4. Forest(h[j - 1])
    BY <2>1, <2>3
  <2>5. h[j] = addNode(h[j - 1], s[j])
    BY <1>2, <2>3
  <2>6. s[j].off \in Nat /\ s[j].end \in Nat
    BY <1>1, <2>2 DEF Ranged
  <2>7. Forest(h[j])
    BY <2>4, <2>5, <2>6, AddNodeKeepsForest
  <2> QED
    BY <2>2, <2>7
<1>4. Forest(h[Len(s)])
  <2>1. Len(s) \in 0 .. Len(s)
    BY <1>1
  <2> QED
    BY <1>3, <2>1
<1> QED
  BY <1>2, <1>4

\* The first k nodes are those of the first k calls.
Told(b, calls, k) ==
  /\ k <= Len(b.nodes)
  /\ \A i \in 1 .. k : b.nodes[i].off = calls[i].off /\ b.nodes[i].end = calls[i].end

LEMMA AddCall ==
  ASSUME NEW b, Sound(b), NEW calls, Ranged(calls), Calls!PostOrder(calls),
         NEW k \in 0 .. Len(calls) - 1, Told(b, calls, k), Len(b.nodes) = k,
         NEW c, c = addNode(b, calls[k + 1])
  PROVE  Sound(c) /\ Told(c, calls, k + 1) /\ Len(c.nodes) = k + 1
<1> DEFINE e == [off |-> calls[k + 1].off, end |-> calls[k + 1].end]
<1>1. /\ k \in Nat /\ k + 1 \in DOMAIN calls /\ Len(calls) \in Nat
      /\ \A i \in 1 .. k : i \in DOMAIN calls /\ i < k + 1
      /\ b.nodes \in Seq(NodeRange) /\ DOMAIN b.nodes = 1 .. k
  BY LenProperties DEF Ranged, Sound, Typed
<1>2. e \in NodeRange /\ e.off <= e.end
  BY <1>1 DEF NodeRange, Ranged, Calls!PostOrder, Calls!IsRange
<1>3. ASSUME NEW i \in DOMAIN b.nodes
      PROVE  L!Beside(b.nodes[i], e) \/ L!Encloses(e, b.nodes[i])
  <2>1. /\ Calls!Beside(calls[i], calls[k + 1]) \/ Calls!Encloses(calls[k + 1], calls[i])
        /\ b.nodes[i].off = calls[i].off /\ b.nodes[i].end = calls[i].end
    BY <1>1 DEF Calls!PostOrder, Told
  <2> QED
    BY <2>1 DEF L!Beside, L!Encloses, Calls!Beside, Calls!Encloses
<1>4. Follows(b, e)
  BY <1>2, <1>3 DEF Follows
<1>5. c = addNode(b, e)
  BY DEF addNode
<1>6. Sound(c)
  BY <1>4, <1>5, AddNodeKeepsInv
<1>7. c.nodes = Append(b.nodes, e)
  BY DEF addNode
<1>8. /\ Len(c.nodes) = k + 1 /\ \A i \in 1 .. k : c.nodes[i] = b.nodes[i]
      /\ c.nodes[k + 1] = e
  <2> HIDE DEF e
  <2> QED
    BY <1>1, <1>2, <1>7, AppendProperties
<1>9. Told(c, calls, k + 1)
  <2> SUFFICES ASSUME NEW i \in 1 .. k + 1
               PROVE  c.nodes[i].off = calls[i].off /\ c.nodes[i].end = calls[i].end
    BY <1>1, <1>8 DEF Told
  <2>1. CASE i = k + 1
    BY <1>8, <2>1
  <2>2. CASE i # k + 1
    <3>1. i \in 1 .. k
      BY <1>1, <2>2
    <3> QED
      BY <1>8, <3>1 DEF Told
  <2> QED
    BY <2>1, <2>2
<1> QED
  BY <1>6, <1>8, <1>9

\* The calls of a step, made one after the other.
LEMMA AddCalls ==
  ASSUME NEW b, Sound(b), NEW calls, Ranged(calls), Calls!PostOrder(calls),
         NEW k \in 0 .. Len(calls), Told(b, calls, k), Len(b.nodes) = k,
         NEW c, c = addNodes(b, SubSeq(calls, k + 1, Len(calls)))
  PROVE  Sound(c) /\ Told(c, calls, Len(calls)) /\ Len(c.nodes) = Len(calls)
<1> DEFINE more == SubSeq(calls, k + 1, Len(calls))
           n == Len(calls) - k
<1>1. k \in Nat /\ Len(calls) \in Nat /\ n \in Nat
  BY DEF Ranged
<1>2. /\ Len(more) = n /\ DOMAIN more = 1 .. n
      /\ \A j \in 1 .. n : more[j] = calls[k + j]
  BY <1>1
<1> HIDE DEF more, n
<1>3. PICK h : /\ h[0] = b /\ h[n] = addNodes(b, more)
               /\ \A j \in 0 .. n - 1 : h[j + 1] = addNode(h[j], more[j + 1])
  <2>1. Len(more) \in Nat /\ DOMAIN more = 1 .. Len(more)
    BY <1>1, <1>2
  <2>2. \E h : /\ h[0] = b /\ h[Len(more)] = addNodes(b, more)
               /\ \A j \in 0 .. Len(more) - 1 : h[j + 1] = addNode(h[j], more[j + 1])
    BY <2>1, FoldAddsInOrder
  <2> QED
    BY <1>2, <2>2
<1> DEFINE Good(j) == Sound(h[j]) /\ Told(h[j], calls, k + j) /\ Len(h[j].nodes) = k + j
           Bad == { j \in 0 .. n : ~Good(j) }
<1>4. Bad = {}
  <2> SUFFICES ASSUME Bad # {} PROVE FALSE
    OBVIOUS
  <2>1. PICK j \in Bad : \A i \in Bad : j <= i
    <3>1. Bad \in SUBSET Nat
      BY <1>1
    <3> HIDE DEF Bad
    <3> QED
      BY <3>1, LeastNatural
  <2>2. j \in 0 .. n /\ j \in Nat /\ ~Good(j)
    BY <1>1, <2>1
  <2>3. j # 0
    <3>1. Good(0)
      BY <1>1, <1>3
    <3> QED
      BY <2>2, <3>1
  <2>4. j - 1 \in 0 .. n - 1 /\ j - 1 \notin Bad /\ (j - 1) + 1 = j
    <3>1. j - 1 \in 0 .. n - 1 /\ (j - 1) + 1 = j /\ ~ (j <= j - 1)
      BY <1>1, <2>2, <2>3
    <3> HIDE DEF Bad
    <3> QED
      BY <2>1, <3>1
  <2>5. Good(j - 1)
    BY <1>1, <2>2, <2>3, <2>4
  <2>6. h[j] = addNode(h[j - 1], more[j])
    BY <1>3, <2>4
  <2>7. /\ k + (j - 1) \in 0 .. Len(calls) - 1 /\ k + (j - 1) + 1 = k + j
        /\ more[j] = calls[k + j]
    BY <1>1, <1>2, <2>2, <2>3 DEF n
  <2>8. Good(j)
    <3> DEFINE l == k + (j - 1)
    <3>1. /\ Sound(h[j - 1]) /\ Told(h[j - 1], calls, l) /\ Len(h[j - 1].nodes) = l
          /\ l \in 0 .. Len(calls) - 1 /\ l + 1 = k + j /\ h[j] = addNode(h[j - 1], calls[l + 1])
      BY <2>5, <2>6, <2>7
    <3> HIDE DEF l
    <3>2. Sound(h[j]) /\ Told(h[j], calls, l + 1) /\ Len(h[j].nodes) = l + 1
      BY <3>1, AddCall
    <3> QED
      BY <3>1, <3>2
  <2> QED
    BY <2>2, <2>8
<1>5. Good(n) /\ k + n = Len(calls) /\ h[n] = c
  BY <1>1, <1>3, <1>4 DEF n, more
<1> QED
  BY <1>5

-----------------------------------------------------------------------------
(***************************************************************************)
(* The builder as the listener of the parser.                              *)
(***************************************************************************)
LEMMA ParserTakesSteps == AstParseSpec => Spec
<1>1. AstParseInit => Init
  BY DEF AstParseInit
<1>2. [AstParseNext]_astParseVars => [Next]_vars
  BY DEF AstParseNext, ParserStep, BuildTree, Next, astParseVars
<1> QED
  BY <1>1, <1>2, PTL DEF AstParseSpec, Spec

\* For any tables, and without a condition on what recoveries find: even if the
\* parser reported ranges that overlap or run backwards, addNode would make a
\* forest of them.  No node is lost, shared, adopted twice or put below itself,
\* so the next-chains that its loop writes never cross.
THEOREM TreeIsAForest == AstParseSpec => [](AstTypeOK /\ IsForest(builder))
<1> DEFINE Inv == Forest(builder) /\ done \in BOOLEAN
<1>1. AstParseInit => Inv
  <2> SUFFICES ASSUME AstParseInit PROVE Inv
    OBVIOUS
  <2>1. builder.nodes = <<>> /\ builder.roots = <<>> /\ builder.kids = <<>> /\ done = FALSE
    BY DEF AstParseInit, AstInit, newBuilder
  <2>2. Typed(builder)
    BY TreeInit DEF AstParseInit, TreeInv, Sound
  <2>3. DOMAIN builder.nodes = {} /\ DOMAIN builder.roots = {} /\ DOMAIN builder.kids = {}
    BY <2>1
  <2>4. IsForest(builder)
    BY <2>3 DEF IsForest, IsInjective
  <2> QED
    BY <2>1, <2>2, <2>4 DEF Forest
<1>2. TypeOK /\ TypeOK' /\ Inv /\ [AstParseNext]_astParseVars => Inv'
  <2> SUFFICES ASSUME TypeOK, TypeOK', Inv, [AstParseNext]_astParseVars
               PROVE  Inv'
    OBVIOUS
  <2>1. CASE ParserStep
    <3> DEFINE more == SubSeq(events', Len(events) + 1, Len(events'))
    <3>1. builder' = addNodes(builder, more) /\ done' = done
      BY <2>1 DEF ParserStep
    <3>2. Ranged(more)
      <4> DEFINE k == Len(events)
                 calls == events'
      <4>1. Ranged(calls) /\ k \in Nat /\ Len(calls) \in Nat
        BY RangesOfTypeOK, RangesOfNextTypeOK DEF Ranged
      <4> HIDE DEF k, calls
      <4>2. /\ Len(SubSeq(calls, k + 1, Len(calls))) \in Nat
            /\ DOMAIN SubSeq(calls, k + 1, Len(calls)) = 1 .. Len(SubSeq(calls, k + 1, Len(calls)))
            /\ \A i \in DOMAIN SubSeq(calls, k + 1, Len(calls)) :
                 /\ k + i \in 1 .. Len(calls)
                 /\ SubSeq(calls, k + 1, Len(calls))[i] = calls[k + i]
        BY <4>1
      <4>3. Ranged(SubSeq(calls, k + 1, Len(calls)))
        BY <4>1, <4>2 DEF Ranged
      <4> QED
        BY <4>3 DEF k, calls
    <3> HIDE DEF more
    <3> QED
      BY <3>1, <3>2, AddNodesKeepForest
  <2>2. CASE BuildTree
    <3>1. builder' = addNode(builder, [off |-> 0, end |-> offset]) /\ done' = TRUE
      BY <2>2 DEF BuildTree, build
    <3>2. offset \in Nat
      BY RangesOfTypeOK
    <3> QED
      BY <3>1, <3>2, AddNodeKeepsForest
  <2>3. CASE UNCHANGED << builder, done >>
    BY <2>3 DEF Forest, Typed, IsForest
  <2> QED
    BY <2>1, <2>2, <2>3 DEF AstParseNext, astParseVars, astVars
<1>3. Inv => AstTypeOK /\ IsForest(builder)
  BY DEF Forest, Typed, AstTypeOK, NodeRange
<1>4. AstParseSpec => []TypeOK
  BY ParserTakesSteps, TypeCorrect, PTL
<1> QED
  BY <1>1, <1>2, <1>3, <1>4, PTL DEF AstParseSpec

\* The builder was told what the listener was told, and of File at last.
ToldInv ==
  /\ done \in BOOLEAN
  /\ Sound(builder)
  /\ Told(builder, events, Len(events))
  /\ Len(builder.nodes) = IF done THEN Len(events) + 1 ELSE Len(events)
  /\ done => pc = "accepted"
  /\ TreeIsComplete

LEMMA ToldAtFirst == AstParseInit => ToldInv
<1> SUFFICES ASSUME AstParseInit PROVE ToldInv
  OBVIOUS
<1>1. /\ events = <<>> /\ Len(events) = 0 /\ done = FALSE
      /\ builder = [nodes |-> <<>>, roots |-> <<>>, kids |-> <<>>]
  BY DEF AstParseInit, Init, AstInit, newBuilder
<1>2. Sound(builder)
  BY TreeInit DEF AstParseInit, TreeInv
<1>3. Len(builder.nodes) = 0
  BY <1>1
<1>4. Told(builder, events, Len(events))
  BY <1>1, <1>3 DEF Told
<1>5. TreeIsComplete
  BY <1>1 DEF TreeIsComplete
<1> QED
  BY <1>1, <1>2, <1>3, <1>4, <1>5 DEF ToldInv

LEMMA CallsInPostOrder ==
  ASSUME NEW calls, Ranged(calls), NEW pend, NEW stk, NEW lim, EventsFit(calls, pend, stk, lim)
  PROVE  Calls!PostOrder(calls)
<1>1. \A i \in DOMAIN calls : Calls!IsRange(calls[i])
  BY DEF Ranged, EventsFit, Calls!IsRange
<1>2. \A i, j \in DOMAIN calls : i < j => Meets(calls[i], calls[j])
  BY DEF EventsFit
<1> QED
  BY <1>1, <1>2 DEF Calls!PostOrder, Meets

LEMMA ParserStepTells ==
  ASSUME TypeOK, TypeOK', RangesInv', ToldInv, ParserStep
  PROVE  ToldInv'
<1> DEFINE k == Len(events)
           calls == events'
<1>1. [Next]_vars /\ builder' = addNodes(builder, SubSeq(calls, k + 1, Len(calls))) /\ done' = done
  BY DEF ParserStep, Next
<1>2. ~done
  BY DEF ToldInv, ParserStep, Lex, LexIgnored, LexToken, TokenWanted, Parse, InLoop, Accept,
         recoverFromError, NoRecoveryPoint, StartRecovery, SkipToken, Recover, DropSymbol, GiveUp
<1>3. Ranged(events) /\ Ranged(calls) /\ k \in Nat /\ Len(calls) \in Nat
  BY RangesOfTypeOK, RangesOfNextTypeOK DEF Ranged
<1>4. k \in 0 .. Len(calls) /\ \A i \in 1 .. k : calls[i] = events[i]
  <2>1. CASE events' = events
    BY <1>3, <2>1
  <2>2. CASE Len(events') > Len(events) /\ SubSeq(events', 1, Len(events)) = events
    <3>1. k \in 0 .. Len(calls)
      BY <1>3, <2>2
    <3>2. \A i \in 1 .. k : SubSeq(calls, 1, k)[i] = calls[i]
      BY <1>3
    <3> QED
      BY <2>2, <3>1, <3>2
  <2> QED
    BY <1>1, <2>1, <2>2, CallsAreAdded
<1>5. Calls!PostOrder(calls)
  <2>1. EventsFit(calls, pending', stack', Limit')
    BY DEF RangesInv, Fits
  <2> HIDE DEF calls
  <2> QED
    BY <1>3, <2>1, CallsInPostOrder
<1>6. Sound(builder) /\ Told(builder, calls, k) /\ Len(builder.nodes) = k
  BY <1>2, <1>4 DEF ToldInv, Told
<1> HIDE DEF calls, k
<1>7. Sound(builder') /\ Told(builder', calls, Len(calls)) /\ Len(builder'.nodes) = Len(calls)
  BY <1>1, <1>3, <1>4, <1>5, <1>6, AddCalls
<1> QED
  BY <1>1, <1>2, <1>7 DEF ToldInv, TreeIsComplete, calls

LEMMA BuildTreeTells ==
  ASSUME TypeOK, RangesInv, ToldInv, BuildTree
  PROVE  ToldInv'
<1> DEFINE b == builder
           c == builder'
           e == [off |-> 0, end |-> offset]
           N == Len(b.nodes)
           R == Len(b.roots)
<1>1. /\ c = addNode(b, e) /\ ~done /\ done' = TRUE /\ pc = "accepted"
      /\ UNCHANGED << pc, events, offset >>
  BY DEF BuildTree, build, vars, lexVars
<1>2. /\ Sound(b) /\ Typed(b) /\ WellFormed(b) /\ InOrder(b)
      /\ N = Len(events) /\ Told(b, events, N)
      /\ Ranged(events) /\ offset \in Nat /\ N \in Nat /\ R \in Nat
      /\ DOMAIN b.nodes = 1 .. N /\ DOMAIN b.roots = 1 .. R
      /\ \A i \in 1 .. N : b.nodes[i].off \in Nat /\ b.nodes[i].end \in Nat
      /\ \A i \in 1 .. R : b.roots[i] \in 1 .. N
  BY <1>1, TypedParts, RangesOfTypeOK DEF ToldInv, Sound
<1>3. Limit <= offset
  BY RangesOfTypeOK DEF Limit, RangesInv, TokenRange
<1>4. \A i \in 1 .. N : b.nodes[i].off <= b.nodes[i].end /\ b.nodes[i].end <= offset
  <2> SUFFICES ASSUME NEW i \in 1 .. N
               PROVE  b.nodes[i].off <= b.nodes[i].end /\ b.nodes[i].end <= offset
    OBVIOUS
  <2>1. i \in DOMAIN events /\ b.nodes[i].end = events[i].end /\ events[i].end <= Limit
    BY <1>2 DEF Told, Ranged, RangesInv, Fits, EventsFit
  <2> QED
    BY <1>2, <1>3, <2>1, RangesOfTypeOK DEF WellFormed
<1>5. e \in NodeRange /\ e.off = 0 /\ e.end = offset /\ e.off <= e.end
  BY <1>2 DEF NodeRange
<1> HIDE DEF b, c, e, N, R
<1>6. Follows(b, e)
  BY <1>2, <1>4, <1>5 DEF Follows, L!Encloses
<1>7. Sound(c)
  BY <1>1, <1>2, <1>6, AddNodeKeepsInv
<1>8. PICK m \in 0 .. R : \E n \in m .. R : Divided(b, e, m, n) /\ AddedAt(b, e, m, n, c)
  BY <1>1, <1>2, <1>6, AddNodeShape DEF R
<1>9. PICK n \in m .. R : Divided(b, e, m, n) /\ AddedAt(b, e, m, n, c)
  BY <1>8
<1>10. m = 0
  <2> SUFFICES ASSUME m # 0 PROVE FALSE
    OBVIOUS
  <2>1. m \in 1 .. R /\ m <= m
    BY <1>2
  <2>2. b.nodes[b.roots[m]].off < 0
    BY <1>2, <1>5, <1>9, <2>1 DEF Divided
  <2>3. b.nodes[b.roots[m]].off \in Nat
    BY <1>2, <2>1
  <2> QED
    BY <2>2, <2>3
<1>11. Placed(b, e, m, n, c)
  BY <1>2, <1>5, <1>9, AddNodePlaces DEF R
<1>12. /\ DOMAIN c.nodes = 1 .. N + 1
       /\ \A i \in 1 .. N : c.nodes[i] = b.nodes[i]
       /\ c.nodes[N + 1] = e
       /\ DOMAIN c.roots = 1 .. R - n + 1
       /\ c.roots[1] = N + 1
       /\ \A k \in n + 1 .. R : c.roots[k - n + 1] = b.roots[k]
  <2>1. R - n + m + 1 = R - n + 1 /\ m + 1 = 1 /\ \A k \in n + 1 .. R : k - n + m + 1 = k - n + 1
    BY <1>2, <1>10
  <2> QED
    BY <1>11, <2>1 DEF Placed, N, R
<1>13. n \in Nat /\ n <= R
  BY <1>2, <1>10
<1>14. Len(c.nodes) = N + 1 /\ Len(c.roots) = R - n + 1 /\ Last(c.nodes) = e
  <2>1. /\ Len(c.nodes) \in Nat /\ DOMAIN c.nodes = 1 .. Len(c.nodes)
        /\ Len(c.roots) \in Nat /\ DOMAIN c.roots = 1 .. Len(c.roots)
    BY <1>7, TypedParts DEF Sound
  <2>2. Len(c.nodes) = N + 1 /\ Len(c.roots) = R - n + 1
    <3>1. \A x, y \in Nat : 1 .. x = 1 .. y => x = y
      <4> SUFFICES ASSUME NEW x \in Nat, NEW y \in Nat, 1 .. x = 1 .. y, x # y PROVE FALSE
        OBVIOUS
      <4>1. x \in 1 .. x <=> x \in 1 .. y
        OBVIOUS
      <4>2. y \in 1 .. y <=> y \in 1 .. x
        OBVIOUS
      <4> QED
        BY <4>1, <4>2
    <3>2. N + 1 \in Nat /\ R - n + 1 \in Nat
      BY <1>2, <1>13
    <3> QED
      BY <1>12, <2>1, <3>1, <3>2
  <2> QED
    BY <1>12, <2>2 DEF Last
<1>15. ASSUME NEW i \in 2 .. Len(c.roots)
       PROVE  c.nodes[c.roots[i]].off = offset /\ c.nodes[c.roots[i]].end = offset
  <2> DEFINE k == i + n - 1
  <2>1. k \in n + 1 .. R /\ k \in 1 .. R /\ k - n + 1 = i /\ k > m /\ ~ (k <= n)
    BY <1>2, <1>10, <1>13, <1>14
  <2> HIDE DEF k
  <2>2. c.roots[i] = b.roots[k] /\ b.roots[k] \in 1 .. N
    BY <1>2, <1>12, <2>1
  <2>3. ~ (b.nodes[b.roots[k]].off < offset)
    BY <1>2, <1>5, <1>9, <2>1 DEF Divided
  <2> DEFINE x == b.nodes[b.roots[k]]
  <2>4. c.nodes[c.roots[i]] = x
    BY <1>12, <2>2
  <2>5. x.off \in Nat /\ x.end \in Nat /\ x.off <= x.end /\ x.end <= offset /\ ~ (x.off < offset)
    BY <1>2, <1>4, <2>2, <2>3
  <2> HIDE DEF x
  <2> QED
    BY <1>2, <2>4, <2>5
<1>16. Told(c, events, Len(events))
  BY <1>2, <1>12, <1>14 DEF Told
<1>17. TreeIsComplete'
  <2>1. Root(builder') = Len(builder'.nodes)
    BY <1>12, <1>14 DEF Root, c
  <2>2. Last(builder'.nodes) = [off |-> 0, end |-> offset]
    BY <1>14 DEF c, e
  <2>3. \A i \in 2 .. Len(builder'.roots) :
          /\ IsEmptyRange(builder.roots[i])'
          /\ builder'.nodes[builder'.roots[i]].off = offset
    BY <1>15 DEF c, IsEmptyRange
  <2>4. Len(builder'.nodes) = Len(events') + 1
    BY <1>1, <1>2, <1>14 DEF c
  <2> QED
    BY <1>1, <2>1, <2>2, <2>3, <2>4 DEF TreeIsComplete, IsEmptyRange
<1> QED
  BY <1>1, <1>2, <1>7, <1>14, <1>16, <1>17 DEF ToldInv, c, N

LEMMA NextTells ==
  TypeOK /\ TypeOK' /\ RangesInv /\ RangesInv' /\ ToldInv /\ [AstParseNext]_astParseVars
    => ToldInv'
<1>1. ASSUME ToldInv, UNCHANGED astParseVars PROVE ToldInv'
  BY <1>1 DEF ToldInv, astParseVars, astVars, vars, lexVars, TreeIsComplete, IsEmptyRange
<1> QED
  BY <1>1, ParserStepTells, BuildTreeTells DEF AstParseNext

LEMMA ToldInvariant == AstParseSpec /\ []StackBeforeInvalid => [](ToldInv /\ NodesOnStack)
<1>1. AstParseSpec /\ []StackBeforeInvalid => []TypeOK /\ []RangesInv /\ []NodesOnStack
  BY ParserTakesSteps, TypeCorrect, RangesInvariant, NodesStayOnStack, PTL
<1> QED
  BY <1>1, ToldAtFirst, NextTells, PTL DEF AstParseSpec

\* What waits for a parent is on the parsing stack, under the same condition
\* as the parser's calls come in post-order.
THEOREM RootsFollowTheStack == AstParseSpec /\ []StackBeforeInvalid => []RootsLieOnStack
<1>1. TypeOK /\ ToldInv /\ NodesOnStack => RootsLieOnStack
  <2> SUFFICES ASSUME TypeOK, ToldInv, NodesOnStack,
                      NEW n \in ToSet(builder.roots) \intersect DOMAIN events,
                      IsNode(n), ~IsEmptyRange(n)
               PROVE  \E i \in 2 .. Len(stack) :
                        /\ stack[i].off <= builder.nodes[n].off
                        /\ builder.nodes[n].end <= stack[i].end
    BY DEF RootsLieOnStack
  <2>1. builder.nodes[n].off = events[n].off /\ builder.nodes[n].end = events[n].end
    BY RangesOfTypeOK DEF ToldInv, Told, Ranged
  <2>2. OnStack(events[n], stack)
    BY <2>1 DEF NodesOnStack, IsNodeCall, IsNode, IsEmptyRange
  <2> QED
    BY <2>1, <2>2 DEF OnStack
<1> QED
  BY <1>1, ToldInvariant, ParserTakesSteps, TypeCorrect, PTL

\* The tree of a text that was parsed without an error that ends the parser
\* holds all nodes, but for empty ones at the end of the text.
THEOREM TreeHoldsTheText == AstParseSpec /\ []StackBeforeInvalid => []TreeIsComplete
<1>1. ToldInv => TreeIsComplete
  BY DEF ToldInv
<1> QED
  BY <1>1, ToldInvariant, PTL

\* It is the tree that the ranges define, in the order of the text.
THEOREM TreeOfTheParser ==
  AstParseSpec /\ []StackBeforeInvalid => [](AstTypeOK /\ TreeMatchesRanges /\ SiblingsInOrder)
<1>1. ToldInv => AstTypeOK /\ TreeMatchesRanges /\ SiblingsInOrder
  BY DEF ToldInv, Sound, Typed, InOrder, Matches, AstTypeOK, NodeRange, TreeMatchesRanges,
         SiblingsInOrder
<1> QED
  BY <1>1, ToldInvariant, PTL

\* For grammars that do not report invalid tokens there is no condition.
THEOREM TreeWithoutInvalidTokens ==
  ASSUME Invalid = {}
  PROVE  AstParseSpec => [](RootsLieOnStack /\ TreeIsComplete /\ TreeMatchesRanges /\ SiblingsInOrder)
<1>1. StackBeforeInvalid
  BY DEF StackBeforeInvalid, InvalidPending
<1> QED
  BY <1>1, RootsFollowTheStack, TreeHoldsTheText, TreeOfTheParser, PTL
=============================================================================
