----------------------------- MODULE AstBuilder -----------------------------
(***************************************************************************)
(* The builder of parsers/tm/ast/parse.go, which turns the calls a parser  *)
(* makes to its listener into a tree.  The builder keeps a stack of the    *)
(* trees that have no parent yet; a new node adopts those it encloses.     *)
(*                                                                         *)
(* Nodes are numbered in the order they were added: `nodes` holds their    *)
(* ranges, `roots` is b.stack, and `kids` gives the chain that firstChild  *)
(* and next make, for each node.                                           *)
(***************************************************************************)
EXTENDS Integers, SequencesExt

CONSTANTS
  Width,     \* BOUND: the length of the text
  MaxNodes   \* BOUND: how many nodes are reported

ASSUME BuilderBounds == Width \in Nat /\ MaxNodes \in Nat

VARIABLES builder, done

astVars == << builder, done >>

newBuilder == [nodes |-> <<>>, roots |-> <<>>, kids |-> <<>>]

\* Mutant: a node that starts where the new one starts is left outside.
Start_Behind(b, off) ==
  LET before == { i \in DOMAIN b.roots : b.nodes[b.roots[i]].off <= off }
  IN  IF before = {} THEN 0 ELSE Max(before)

\* The nodes at and above this place of the stack start at or behind `off`.
Start(b, off) ==
  LET before == { i \in DOMAIN b.roots : b.nodes[b.roots[i]].off < off }
  IN  IF before = {} THEN 0 ELSE Max(before)

\* ... and those above this place start at or behind `end` as well, which
\* leaves them outside of the new node.
End(b, off, end) ==
  Len(b.roots) - Cardinality({ i \in Start(b, off) + 1 .. Len(b.roots) :
                                 b.nodes[b.roots[i]].off >= end })

\* Mutants: the new node is always put on top; a leaf gets no list of children.
addNode_OnTop(b, range) ==
  LET start == Start(b, range.off)
      end   == End(b, range.off, range.end)
      new   == Len(b.nodes) + 1
  IN  [nodes |-> Append(b.nodes, [off |-> range.off, end |-> range.end]),
       kids  |-> Append(b.kids, SubSeq(b.roots, start + 1, end)),
       roots |-> SubSeq(b.roots, 1, start) \o SubSeq(b.roots, end + 1, Len(b.roots))
                   \o << new >>]

addNode_NoLeaves(b, range) ==
  LET start == Start(b, range.off)
      end   == End(b, range.off, range.end)
      new   == Len(b.nodes) + 1
  IN  [nodes |-> Append(b.nodes, [off |-> range.off, end |-> range.end]),
       kids  |-> IF start = end THEN b.kids
                 ELSE Append(b.kids, SubSeq(b.roots, start + 1, end)),
       roots |-> SubSeq(b.roots, 1, start) \o << new >>
                   \o SubSeq(b.roots, end + 1, Len(b.roots))]

\* The new node adopts what is between the two places and takes its place.
addNode(b, range) ==
  LET start == Start(b, range.off)
      end   == End(b, range.off, range.end)
      new   == Len(b.nodes) + 1
  IN  [nodes |-> Append(b.nodes, [off |-> range.off, end |-> range.end]),
       kids  |-> Append(b.kids, SubSeq(b.roots, start + 1, end)),
       roots |-> SubSeq(b.roots, 1, start) \o << new >>
                   \o SubSeq(b.roots, end + 1, Len(b.roots))]

\* Mutant: File does not reach the end of the text.
build_Short(b, len) == addNode(b, [off |-> 0, end |-> len - 1])

\* build adds a last node, File, for the whole text of length `len`; the root
\* of the tree is the first of the stack.
build(b, len) == addNode(b, [off |-> 0, end |-> len])

Root(b) == b.roots[1]

-----------------------------------------------------------------------------
(***************************************************************************)
(* The builder on its own, driven by any calls in post-order.              *)
(***************************************************************************)
L == INSTANCE Listener WITH events <- builder.nodes

AstInit == builder = newBuilder /\ done = FALSE

Add(off, end) ==
  /\ ~done /\ Len(builder.nodes) < MaxNodes
  /\ builder' = addNode(builder, [off |-> off, end |-> end])
  /\ L!PostOrder(builder'.nodes)
  /\ UNCHANGED done

Build ==
  /\ ~done
  /\ builder' = build(builder, Width)
  /\ done' = TRUE

AstNext ==
  \/ \E off \in 0 .. Width : \E end \in off .. Width : Add(off, end)
  \/ Build
  \/ done /\ UNCHANGED astVars

AstSpec == AstInit /\ [][AstNext]_astVars

-----------------------------------------------------------------------------
(***************************************************************************)
(* Properties.                                                             *)
(***************************************************************************)
AstTypeOK ==
  LET Node == DOMAIN builder.nodes
  IN  /\ builder.nodes \in Seq([off : Nat, end : Nat])
      /\ builder.roots \in Seq(Node)
      /\ builder.kids \in Seq(Seq(Node)) /\ Len(builder.kids) = Len(builder.nodes)
      /\ done \in BOOLEAN

\* The parent a node should have, told from the calls alone: the first later
\* one that encloses it.  Zero means none.
Parent(nodes, i) ==
  LET enclosing == { j \in i + 1 .. Len(nodes) :
                       nodes[j].off <= nodes[i].off /\ nodes[i].off < nodes[j].end }
  IN  IF enclosing = {} THEN 0 ELSE Min(enclosing)

\* The stack discipline of addNode finds for every node exactly that parent:
\* no node is lost, shared or adopted by an outer node before an inner one.
TreeMatchesRanges ==
  \A i \in DOMAIN builder.nodes :
    /\ Parent(builder.nodes, i) = 0 <=> i \in ToSet(builder.roots)
    /\ \A j \in DOMAIN builder.nodes :
         Parent(builder.nodes, i) = j <=> i \in ToSet(builder.kids[j])

Ordered(nodes, s) ==
  \A i, j \in DOMAIN s : i < j => s[i] # s[j] /\ nodes[s[i]].end <= nodes[s[j]].off

\* The trees on the stack and the children of a node stand in the order of
\* the text and do not overlap, so a Node's text is its children's texts with
\* gaps between them.
SiblingsInOrder ==
  /\ Ordered(builder.nodes, builder.roots)
  /\ \A i \in DOMAIN builder.kids : Ordered(builder.nodes, builder.kids[i])
=============================================================================
