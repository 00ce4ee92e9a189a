------------------------------ MODULE Minimize ------------------------------
(***************************************************************************)
(* minimize, lalr/minimize.go: states of the compiled automaton with the   *)
(* same actions and equivalent successors become one.  It runs on the      *)
(* result of Lalr and Tries and replaces `tables`.                         *)
(***************************************************************************)
EXTENDS Tries

VARIABLES
  partition,   \* state -> the class it is in so far
  before       \* the tables as they were before states were merged, if they were

minimizeVars == << partition, before >>

MinimizeInit == partition = <<>> /\ before = <<>>

States == DOMAIN tables.action
Classes(p) == Range(p)

\* IntSliceSet.Insert of sig[0], sig[1], ...: equal ones get the same number, a
\* new one gets the next.
Numbered(sig) ==
  [i \in DOMAIN sig |->
     LET first == Min({ j \in DOMAIN sig : sig[j] = sig[i] })
     IN  Cardinality({ sig[j] : j \in 0 .. first - 1 })]

\* computeRuleClasses: rules that the parser cannot tell apart once they are
\* reduced.  Those behind the grammar's rules, for lookaheads, keep their numbers.
ruleClass ==
  Numbered([r \in RuleIds |-> << Lhs(r), Len(Rhs(r)), g.rules[r + 1].act >>])

sigReduce    == 1
sigShift     == 2
sigError     == 3
sigLookahead == 4
sigPartition == 5
sigStart     == 6
sigFinal     == 7
sigMarker    == 8

\* extra: the states that the generated code knows by number, in tables T.
Extra(T, q) ==
  LET Finals  == { i \in InputIds : T.final[i] = q }
      Markers == { m \in DOMAIN g.markers : /\ g.markers[m].name \notin { "lr0", "greedy" }
                                            /\ q \in T.markers[m] }
  IN  { << sigStart, i >> : i \in InputIds \intersect { q } }
      \union { << sigFinal, i >> : i \in Finals }
      \union { << sigMarker, m - 1 >> : m \in Markers }

Class(a) == IF a \in RuleIds THEN ruleClass[a] ELSE a

\* What a state does: numbers that say how, and the pairs of its row.
actionSignature(T, q) ==
  LET act == T.action[q]
      row == T.lalr[q]
  IN  CASE act >= 0 -> << << sigReduce, ruleClass[act] >>, << >> >>
        [] act = -1 -> << << sigShift >>, << >> >>
        [] act = -2 -> << << sigError >>, << >> >>
        [] act = -3 -> << << sigLookahead >>, [k \in DOMAIN row |-> << row[k][1], Class(row[k][2]) >>] >>

InOrder(pairs) ==
  SetToSortSeq(pairs, LAMBDA x, y : x[1] < y[1] \/ (x[1] = y[1] /\ x[2] < y[2]))

\* stateSignature.  The code writes all numbers one after the other, which is the
\* same: the first of them tells how many there are before the pairs.  But nothing
\* stands between the pairs of the row and those of Extra.
stateSignature(T, q) ==
  LET sig == actionSignature(T, q)
  IN  << sig[1], sig[2] \o InOrder(Extra(T, q)) >>

\* partitionStatesByAction.
Partition ==
  /\ stage = "minimize"
  /\ partition' = Numbered([q \in States |-> stateSignature(tables, q)])
  /\ stage' = "refine"
  /\ UNCHANGED << g, states, at, final, follow, la, tables, before >>

\* A state's class and the classes of its successors.
Successors(q) == [s \in DOMAIN tables.goto[q] |-> partition[tables.goto[q][s]]]

Refined == Numbered([q \in States |-> << sigPartition, partition[q], Successors(q) >>])

\* Mutant: the second round is never made.
Converged_AfterOne == TRUE

Converged == Cardinality(Classes(Refined)) = Cardinality(Classes(partition))

\* One round of refinePartitions.
Refine ==
  /\ stage = "refine" /\ ~Converged
  /\ partition' = Refined
  /\ UNCHANGED << g, states, at, final, follow, la, tables, stage, before >>

Members(c) == { q \in States : partition[q] = c }

\* The rest of minimize: the tables over the classes.  The last member decides
\* on the actions of a class.
Rebuild ==
  /\ stage = "refine" /\ Converged
  /\ tables' =
       [tables EXCEPT
          !.action  = [c \in Classes(partition) |-> tables.action[Max(Members(c))]],
          !.lalr    = [c \in Classes(partition) |-> tables.lalr[Max(Members(c))]],
          !.goto    = [c \in Classes(partition) |->
                         LET row == tables.goto[Min(Members(c))]
                         IN  [s \in DOMAIN row |-> partition[row[s]]]],
          !.final   = [i \in DOMAIN @ |-> partition[@[i]]],
          !.markers = [m \in DOMAIN @ |-> { partition[q] : q \in @[m] }]]
  /\ before' = tables
  /\ stage' = "optimize"
  /\ UNCHANGED << g, states, at, final, follow, la, partition >>

\* Options.MinimizeDFA is off.
KeepStates ==
  /\ stage = "minimize"
  /\ stage' = "optimize"
  /\ UNCHANGED << g, states, at, final, follow, la, tables, minimizeVars >>

minimize == Partition \/ Refine \/ Rebuild \/ KeepStates
=============================================================================
