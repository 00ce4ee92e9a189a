-------------------------------- MODULE Tries --------------------------------
(***************************************************************************)
(* resolveWithLookahead of lalr/compile.go with lalr/trie.go: conflicts    *)
(* between reductions that more than one token of lookahead resolves.  It  *)
(* runs on the result of Lalr.                                             *)
(*                                                                         *)
(* A trie is a function from terminals to edges [act, child]: the rule to  *)
(* reduce, or where to look for the terminal after that.  The function     *)
(* without edges stands for nil.  Equal nodes are one in the code          *)
(* (minimize) and have one place in the array of all rows (emit); here     *)
(* they are equal values.                                                  *)
(***************************************************************************)
EXTENDS Lalr

CONSTANT Depths   \* the values of Options.Lookahead

ASSUME DepthAssumption == Depths \subseteq 1 .. 8

nil == << >>

\* What may come after the transitions of gts.
NextOfAll(gts) == UNION { follow[x] : x \in gts \ { AllTokens } }

\* ruleGts has, for every rule in conflict, the transitions it may be followed by;
\* the rules are told from each other by what comes then, if need be in maxDepth
\* tokens.
resolve(ruleGts, maxDepth) ==
  LET trie[depth \in Nat, gts \in [RuleIds -> SUBSET (Transitions \union { AllTokens })]] ==
        LET rules   == { r \in RuleIds : gts[r] # {} }
            next    == [r \in RuleIds |-> NextOfAll(gts[r])]
            all     == { r \in rules : AllTokens \in gts[r] \union next[r] }
            Gts(t)  == [r \in RuleIds |-> { x \in next[r] : x[2] = t }]
            Able(t) == { r \in rules : r \in all \/ Gts(t)[r] # {} }
            Edge(t) ==
              IF Cardinality(Able(t)) = 1 THEN [act |-> Min(Able(t)), child |-> nil]
              ELSE [act   |-> -2,
                    child |-> IF \E r \in Able(t) : Gts(t)[r] = {} THEN nil ELSE trie[depth - 1, Gts(t)]]
            node == [t \in { t \in Terms : Able(t) # {} } |-> Edge(t)]
        IN  IF depth = 0 \/ \E t \in DOMAIN node : node[t].act = -2 /\ node[t].child = nil
            THEN nil ELSE node
  IN  trie[maxDepth, ruleGts]

\* The trie for terminal t of conflict c.
TrieFor(c, t, depth) ==
  resolve([r \in RuleIds |-> IF r \in c.rules
                             THEN { x \in la[<< c.state, r >>] : x = AllTokens \/ x[2] = t }
                             ELSE {}],
          depth - 1)

\* The row of state q, with the action on some terminals replaced.
Patched(q, act) ==
  [k \in DOMAIN tables.lalr[q] |->
     LET t == tables.lalr[q][k][1]
     IN  IF t \in DOMAIN act THEN << t, act[t] >> ELSE tables.lalr[q][k]]

TriesOf(depth) ==
  [x \in { x \in tables.conflicts \X Terms : x[2] \in x[1].next } |-> TrieFor(x[1], x[2], depth)]

\* Every terminal of a conflict that has a trie gets it, even if another one has
\* none and the conflict remains.  An action -3 - i is the i-th trie.
WithTries(trie) ==
  LET found     == { x \in DOMAIN trie : trie[x] # nil }
      all       == SetToSeq({ trie[x] : x \in found })
      In(q)     == { x \in found : x[1].state = q }
      Number(x) == -3 - (CHOOSE i \in DOMAIN all : all[i] = trie[x])
      remaining == { x[1] : x \in DOMAIN trie \ found }
  IN  [tables EXCEPT
         !.lalr      = [q \in DOMAIN @ |->
                          Patched(q, [t \in { x[2] : x \in In(q) } |->
                                        Number(CHOOSE x \in In(q) : x[2] = t)])],
         !.tries     = all,
         !.conflicts = remaining,
         !.rr        = SumOfNext(remaining)]

ResolveWithLookahead ==
  /\ stage = "resolve"
  /\ \E depth \in Depths : tables' = WithTries(TriesOf(depth))
  /\ stage' = "minimize"
  /\ UNCHANGED << g, states, at, final, follow, la >>
=============================================================================
