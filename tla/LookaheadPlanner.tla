-------------------------- MODULE LookaheadPlanner --------------------------
(***************************************************************************)
(* The planner of runtime lookaheads, lalr/lookahead.go: a list of          *)
(* lookaheads that can be reduced on the same terminal becomes a list of   *)
(* cases, each of them one predicate to evaluate on the input ahead.       *)
(*                                                                         *)
(* A lookahead is [nt, preds]: a nonterminal that stands for the           *)
(* conjunction of its predicates.  A predicate is [input, negated].        *)
(***************************************************************************)
EXTENDS Integers, FiniteSetsExt, SequencesExt

Inputs(las) == UNION { { p.input : p \in Range(las[i].preds) } : i \in DOMAIN las }

\* Lookahead.Accepts: the predicates of la on this input, of which the first counts.
On(la, input) == { k \in DOMAIN la.preds : la.preds[k].input = input }
IsNegated(la, input) == la.preds[Min(On(la, input))].negated

\* Which inputs some lookahead looks at before others, in any number of steps.
Before(las) ==
  LET step == UNION { { << la.preds[k].input, la.preds[k + 1].input >> :
                          k \in 1 .. Len(la.preds) - 1 } : la \in Range(las) }
      grow[E \in SUBSET (Inputs(las) \X Inputs(las))] ==
        LET more == E \union { << p[1][1], p[2][2] >> : p \in { p \in E \X E : p[1][2] = p[2][1] } }
        IN  IF more = E THEN E ELSE grow[more]
  IN  grow[step]

\* The search in newLookaheadRule numbers the inputs by the longest chain that
\* leads to them, and gives up unless there is one chain through all of them.
OrderError(las) ==
  LET before == Before(las)
  IN  CASE \E a \in Inputs(las) : << a, a >> \in before -> "inconsistent order"
        [] \E a, b \in Inputs(las) : a # b /\ { << a, b >>, << b, a >> } \intersect before = {}
             -> "ambiguous order"
        [] OTHER -> "none"

\* The inputs in that order.  The search starts from a node above all of them
\* and lists it too, as input 0.
Order(las) ==
  LET rank(a) == Cardinality({ b \in Inputs(las) : << b, a >> \in Before(las) })
  IN  Append([k \in 1 .. Cardinality(Inputs(las)) |->
                CHOOSE a \in Inputs(las) : rank(a) = k - 1], 0)

NoPick == [at |-> 0, negated |-> FALSE]

\* Mutant: lookaheads that do not depend on the input are left out of account.
pickLookahead_Partial(input, las) ==
  LET about == { i \in DOMAIN las : On(las[i], input) # {} }
      neg   == { i \in about : IsNegated(las[i], input) }
      pos   == about \ neg
  IN  CASE Cardinality(pos) = 1 -> [at |-> Min(pos), negated |-> FALSE]
        [] Cardinality(pos) # 1 /\ Cardinality(neg) = 1 -> [at |-> Min(neg), negated |-> TRUE]
        [] OTHER -> NoPick

\* The lookahead that a predicate on `input` tells from all the others.
pickLookahead(input, las) ==
  LET neg == { i \in DOMAIN las : IsNegated(las[i], input) }
      pos == DOMAIN las \ neg
  IN  CASE \E i \in DOMAIN las : On(las[i], input) = {} -> NoPick
        [] Cardinality(pos) = 1 -> [at |-> Min(pos), negated |-> FALSE]
        [] Cardinality(pos) # 1 /\ Cardinality(neg) = 1 -> [at |-> Min(neg), negated |-> TRUE]
        [] OTHER -> NoPick

\* Element i of s is replaced by the last one, which is cut off.
SwapOut(s, i) == [k \in 1 .. Len(s) - 1 |-> IF k = i THEN s[Len(s)] ELSE s[k]]

\* One turn of the loop: the first input in the order that tells one lookahead
\* from the others makes a case.
Decide(d) ==
  LET able == { i \in DOMAIN d.order : pickLookahead(d.order[i], d.las) # NoPick }
      i    == Min(able)
      pick == pickLookahead(d.order[i], d.las)
  IN  IF d.err # "none" THEN d
      ELSE IF able = {} THEN [d EXCEPT !.err = "cannot decide on the next lookahead"]
      ELSE [d EXCEPT !.cases = Append(@, [input |-> d.order[i], negated |-> pick.negated,
                                          target |-> d.las[pick.at].nt]),
                     !.las   = SwapOut(@, pick.at),
                     !.order = SwapOut(@, i)]

\* The result: cases, default and err.  After an error compile takes the first
\* lookahead without a test.
newLookaheadRule(las) ==
  LET start == [las |-> las, order |-> Order(las), cases |-> << >>, err |-> "none"]
      done  == FoldLeft(LAMBDA d, k : Decide(d), start, Tail(las))
  IN  IF OrderError(las) # "none" THEN [cases |-> << >>, default |-> las[1].nt, err |-> OrderError(las)]
      ELSE IF done.err # "none" THEN [cases |-> << >>, default |-> las[1].nt, err |-> done.err]
      ELSE [cases |-> done.cases, default |-> done.las[1].nt, err |-> "none"]
=============================================================================
