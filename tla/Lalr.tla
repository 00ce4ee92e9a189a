-------------------------------- MODULE Lalr --------------------------------
(***************************************************************************)
(* The construction of LALR tables, lalr/compile.go: the LR(0) states, the *)
(* lookahead sets (DeRemer and Pennello), the resolution of conflicts and  *)
(* the action table.  Tries.tla has the conflicts that a longer lookahead  *)
(* resolves.                                                               *)
(*                                                                         *)
(* Symbols, rules and states are numbers from 0, as in the code: the       *)
(* terminals come first, 0 is EOI.  An item << r, d >> stands for rule r   *)
(* with d symbols behind the dot; the code numbers the items in the same   *)
(* order (the array `right`).                                              *)
(***************************************************************************)
EXTENDS LookaheadPlanner

CONSTANT Grammars
  \* The grammars compiled, records of
  \*   terms, syms  how many terminals and symbols there are
  \*   rules        a sequence of [lhs, rhs, prec, act]: prec is 0 if there is no
  \*                %prec, act is what the parser does when it reduces the rule
  \*   inputs       a sequence of [nt, eoi]
  \*   markers      a sequence of [name, items]: the items that carry the marker
  \*   prec         a sequence of [assoc, terms], the weakest group first
  \*   lookaheads   a sequence of [nt, preds], for the planner; nt has one rule, an
  \*                empty one

EOI == 0

ASSUME GrammarAssumption ==
  \A gr \in Grammars :
    /\ gr.terms \in Nat /\ gr.syms \in Nat /\ gr.terms <= gr.syms
    /\ gr.rules \in Seq([lhs : gr.terms .. gr.syms - 1, rhs : Seq(1 .. gr.syms - 1),
                         prec : 0 .. gr.terms - 1, act : Nat])
    /\ gr.inputs \in Seq([nt : gr.terms .. gr.syms - 1, eoi : BOOLEAN])
    /\ \A i, j \in DOMAIN gr.inputs : gr.inputs[i].nt = gr.inputs[j].nt => i = j
    /\ \A i, j \in DOMAIN gr.lookaheads : gr.lookaheads[i].nt = gr.lookaheads[j].nt => i = j
    /\ \A i \in DOMAIN gr.lookaheads :
         { gr.rules[r].rhs : r \in { r \in DOMAIN gr.rules : gr.rules[r].lhs = gr.lookaheads[i].nt } }
           = { << >> }

VARIABLES
  g,       \* the grammar
  states,  \* the states found so far; state q is states[q + 1]
  at,      \* the state whose transitions are computed next
  final,   \* input -> the state in which its parse ends
  follow,  \* transition -> the transitions on terminals that may follow
  la,      \* << state, rule >> -> those that may follow when the rule is reduced
  tables,  \* the result
  stage    \* what Compile does next

lalrVars == << g, states, at, final, follow, la, tables, stage >>

-----------------------------------------------------------------------------
Terms    == 0 .. g.terms - 1
Nonterms == g.terms .. g.syms - 1
RuleIds  == 0 .. Len(g.rules) - 1
Lhs(r)   == g.rules[r + 1].lhs
Rhs(r)   == g.rules[r + 1].rhs
InputIds == 0 .. Len(g.inputs) - 1

\* The elements of a set of numbers in ascending order.
Sorted(S) == [k \in 1 .. Cardinality(S) |-> CHOOSE x \in S : Cardinality({ y \in S : y < x }) = k - 1]

NextSym(item) == Rhs(item[1])[item[2] + 1]
AtEnd(item)   == item[2] = Len(Rhs(item[1]))

\* The nodes that the edges E (a set of pairs) lead to from n, n included.
Reach(E, n) ==
  LET grow[S \in SUBSET ({ e[2] : e \in E } \union {n})] ==
        LET more == S \union { e[2] : e \in { e \in E : e[1] \in S } }
        IN  IF more = S THEN S ELSE grow[more]
  IN  grow[{n}]

\* Mutant: the rules are gone through only once.
Nullable_OnePass == { Lhs(r) : r \in { r \in RuleIds : Rhs(r) = <<>> } }

\* computeEmpty.
Nullable ==
  LET grow[S \in SUBSET Nonterms] ==
        LET more == { Lhs(r) : r \in { r \in RuleIds : Range(Rhs(r)) \subseteq S } }
        IN  IF more \subseteq S THEN S ELSE grow[S \union more]
  IN  grow[{}]

\* computeSets: the initial items of all nonterminals that a derivation of nt
\* can start with.
RuleItems(nt) ==
  LET first == { << Lhs(r), Rhs(r)[1] >> :
                   r \in { r \in RuleIds : Rhs(r) # <<>> /\ Rhs(r)[1] \in Nonterms } }
  IN  { << r, 0 >> : r \in { r \in RuleIds : Lhs(r) \in Reach(first, nt) } }

Greedy ==
  UNION { g.markers[m].items : m \in { m \in DOMAIN g.markers : g.markers[m].name = "greedy" } }

-----------------------------------------------------------------------------
St(q)   == states[q + 1]
StateIds == 0 .. Len(states) - 1

NewState(core, lr0) ==
  [core |-> core, shifts |-> <<>>, reduce |-> {}, marks |-> {}, lr0 |-> lr0]

gotoState(q, s) == IF s \in DOMAIN St(q).shifts THEN St(q).shifts[s] ELSE -1

stateClosure(q) ==
  IF q \in InputIds THEN RuleItems(g.inputs[q + 1].nt)
  ELSE St(q).core \union
       UNION { RuleItems(NextSym(i)) :
                 i \in { i \in St(q).core : ~AtEnd(i) /\ NextSym(i) \in Nonterms } }

\* The core of the target on s: greedy items push out the others.
Target(closure, s) ==
  LET core == { << i[1], i[2] + 1 >> : i \in { i \in closure : ~AtEnd(i) /\ NextSym(i) = s } }
  IN  IF core \intersect Greedy # {} THEN core \intersect Greedy ELSE core

Init ==
  /\ g \in Grammars
  /\ states = [i \in DOMAIN g.inputs |-> NewState({}, FALSE)]
  /\ at = 0
  /\ final = <<>> /\ follow = <<>> /\ la = <<>> /\ tables = <<>>
  /\ stage = "states"

\* One turn of computeStates: the transitions of state `at`, in the order of
\* the symbols, find their targets by core or append them.
ComputeState ==
  /\ stage = "states" /\ at < Len(states)
  /\ LET closure == stateClosure(at)
         syms    == { NextSym(i) : i \in { i \in closure : ~AtEnd(i) } }
         reduce  == { i[1] : i \in { i \in closure : AtEnd(i) } }
         core    == [s \in syms |-> Target(closure, s)]
         known   == { states[k].core : k \in DOMAIN states }
         fresh   == Sorted({ s \in syms : core[s] \notin known })
         all     == states \o [k \in DOMAIN fresh |-> NewState(core[fresh[k]], FALSE)]
     IN  states' = [all EXCEPT ![at + 1] =
                      [@ EXCEPT !.shifts = [s \in syms |->
                                              (CHOOSE k \in DOMAIN all : all[k].core = core[s]) - 1],
                                !.reduce = reduce,
                                !.marks  = { m \in DOMAIN g.markers :
                                               g.markers[m].items \intersect closure # {} },
                                !.lr0    = \/ reduce = {}
                                           \/ Cardinality(reduce) = 1 /\ syms \intersect Terms = {}]]
  /\ at' = at + 1
  /\ UNCHANGED << g, final, follow, la, tables, stage >>

\* addShift for all of added, pairs of a state and the symbol it gets a transition
\* on: the k-th leads to the k-th new state.
addShifts(added) ==
  LET n      == Len(states)
      Of(k)  == { j \in DOMAIN added : added[j][1] = k - 1 }
      State(k) == IF k <= n THEN states[k] ELSE NewState({}, TRUE)
  IN  [k \in 1 .. n + Len(added) |->
         [State(k) EXCEPT
            !.shifts = [s \in { added[j][2] : j \in Of(k) } |->
                          n - 1 + CHOOSE j \in Of(k) : added[j][2] = s] @@ @,
            !.lr0 = @ /\ (Of(k) = {} \/ DOMAIN State(k).shifts # {} \/ State(k).reduce = {})]]

\* The end of computeStates: every input ends in a state after its
\* nonterminal, or after EOI if it takes the whole text.
AddFinalStates ==
  /\ stage = "states" /\ at = Len(states)
  /\ LET Nt(i)   == g.inputs[i + 1].nt
         lacking == Sorted({ i \in InputIds : Nt(i) \notin DOMAIN St(i).shifts })
         whole   == Sorted({ i \in InputIds : g.inputs[i + 1].eoi })
         NewFor(x, seq) == CHOOSE k \in DOMAIN seq : seq[k] = x
         last    == [i \in InputIds |-> IF i \in Range(lacking) THEN Len(states) - 1 + NewFor(i, lacking)
                                        ELSE St(i).shifts[Nt(i)]]
     IN  /\ states' = addShifts([k \in DOMAIN lacking |-> << lacking[k], Nt(lacking[k]) >>]
                               \o [k \in DOMAIN whole |-> << last[whole[k]], EOI >>])
         /\ final' = [i \in InputIds |->
                        IF i \in Range(whole) THEN Len(states) - 1 + Len(lacking) + NewFor(i, whole)
                        ELSE last[i]]
  /\ stage' = "follow"
  /\ UNCHANGED << g, at, follow, la, tables >>

-----------------------------------------------------------------------------
\* buildLA with useTransitions: follow sets hold transitions << q, s >>, not just
\* their terminals.  Options.Lookahead = 1 keeps the terminals alone.
Transitions == { x \in StateIds \X (0 .. g.syms - 1) : x[2] \in DOMAIN St(x[1]).shifts }
Gotos       == { x \in Transitions : x[2] \in Nonterms }

\* allTokensMarker: any token may follow.
AllTokens == << -1, -1 >>

TerminalsOf(set) == IF AllTokens \in set THEN Terms ELSE { x[2] : x \in set }

\* updateFollow: the sets spread along the edges.
Spread(E, f) == [x \in Transitions |-> UNION { f[n] : n \in Reach(E, x) }]

\* The terminals that come right after the transition; after the nonterminal of
\* an input that does not end with the text, all of them.
Direct(x) ==
  LET to == gotoState(x[1], x[2])
  IN  { << to, t >> : t \in DOMAIN St(to).shifts \intersect Terms }
      \union (IF x[1] \in InputIds /\ ~g.inputs[x[1] + 1].eoi /\ final[x[1]] = to
              THEN { AllTokens } ELSE {})

\* Step 1: the follow sets within a rule, through the empty symbols.
BuildFollow ==
  /\ stage = "follow"
  /\ follow' = LET empties == UNION { { << x, << gotoState(x[1], x[2]), s >> >> :
                                    s \in Nullable \intersect DOMAIN St(gotoState(x[1], x[2])).shifts }
                                  : x \in Transitions }
               IN  Spread(empties, [x \in Transitions |-> Direct(x)])
  /\ stage' = "la"
  /\ UNCHANGED << g, states, at, final, la, tables >>

\* The states the rule r passes from q on; -1 once it was pruned.
Path(q, r) ==
  FoldLeft(LAMBDA p, s : Append(p, IF Last(p) = -1 THEN -1 ELSE gotoState(Last(p), s)),
           << q >>, Rhs(r))

Derivations == { d \in Gotos \X RuleIds : Lhs(d[2]) = d[1][2] /\ Last(Path(d[1][1], d[2])) # -1 }

\* Mutant: the symbols after the inner one are not looked at.
Includes_AnyRest ==
  UNION { LET gt == d[1]  r == d[2]
          IN  { << << Path(gt[1], r)[k], Rhs(r)[k] >>, gt >> :
                  k \in { k \in DOMAIN Rhs(r) : Rhs(r)[k] \in Nonterms } }
          : d \in Derivations }

\* An inner goto inherits what follows the outer one if the rest of the rule
\* can be empty.
Includes ==
  UNION { LET gt == d[1]  r == d[2]
          IN  { << << Path(gt[1], r)[k], Rhs(r)[k] >>, gt >> :
                  k \in { k \in DOMAIN Rhs(r) :
                            /\ Rhs(r)[k] \in Nonterms
                            /\ \A j \in k + 1 .. Len(Rhs(r)) : Rhs(r)[j] \in Nullable } }
          : d \in Derivations }

\* The gotos whose follow sets tell when r is reduced in q.
Lookback(q, r) == { d[1] : d \in { d \in Derivations : d[2] = r /\ Last(Path(d[1][1], r)) = q } }

\* addLookback ends the program when the rule is not reduced in the state it
\* leads to.
InternalError ==
  \E d \in Derivations : LET q == Last(Path(d[1][1], d[2]))
                         IN  ~St(q).lr0 /\ d[2] \notin St(q).reduce

\* Step 2: the follow sets across rules, and the lookaheads of every state
\* with a choice.
BuildLA ==
  /\ stage = "la"
  /\ IF InternalError
     THEN /\ stage' = "internal error"
          /\ UNCHANGED << follow, la >>
     ELSE /\ stage' = "tables"
          /\ follow' = Spread(Includes, follow)
          /\ la' = [x \in { x \in StateIds \X RuleIds : ~St(x[1]).lr0 /\ x[2] \in St(x[1]).reduce } |->
                      UNION { follow'[gt] : gt \in Lookback(x[1], x[2]) }]
  /\ UNCHANGED << g, states, at, final, tables >>

-----------------------------------------------------------------------------
\* populateTables.  Actions: a rule, -1 shift, -2 error; -3 is a row of pairs
\* << terminal, action >>, which the code keeps in one array for all states.  A
\* set of lookaheads that is resolved at runtime is an action behind the rules,
\* numbered by the set, where the code counts them as they come.
ResolutionRule(set)  == Len(g.rules) + SumSet({ 2 ^ i : i \in set })
LookaheadsOf(action) == { i \in DOMAIN g.lookaheads : ((action - Len(g.rules)) \div 2 ^ i) % 2 = 1 }

\* planner.index: the lookahead that r stands for; 0 if it is an ordinary rule.
laIndex(r) ==
  LET las == { i \in DOMAIN g.lookaheads : g.lookaheads[i].nt = Lhs(r) }
  IN  IF las = {} THEN 0 ELSE Min(las)

\* The group of the precedence declarations t is in, 0 if there is none.
precGroup(t) ==
  LET groups == { i \in DOMAIN g.prec : t \in g.prec[i].terms }
  IN  IF groups = {} THEN 0 ELSE Max(groups)

\* Mutant: %prec is not looked at.
rulePrec_Declared(r) ==
  LET terms == SelectSeq(Rhs(r), LAMBDA s : s \in Terms)
  IN  IF terms = <<>> THEN 0 ELSE Last(terms)

rulePrec(r) ==
  LET terms == SelectSeq(Rhs(r), LAMBDA s : s \in Terms)
  IN  IF g.rules[r + 1].prec # 0 THEN g.rules[r + 1].prec
      ELSE IF terms = <<>> THEN 0 ELSE Last(terms)

resolvePrec(r, t) ==
  LET reduce == precGroup(rulePrec(r))
      shift  == precGroup(t)
  IN  CASE t = EOI \/ reduce = 0 \/ shift = 0 -> "conflict"
        [] reduce > shift                     -> "reduce"
        [] reduce < shift                     -> "shift"
        [] OTHER -> CASE g.prec[shift].assoc = "left"  -> "reduce"
                      [] g.prec[shift].assoc = "right" -> "shift"
                      [] OTHER                         -> "error"

\* conflictBuilder.addRule.  A row under construction: next and order hold its
\* pairs, amb says how the terminals that had a choice were resolved.
addRule(row, t, res, r, canShift) ==
  [row EXCEPT !.amb =
     IF t \notin DOMAIN @ THEN (t :> [res |-> res, canShift |-> canShift, rules |-> << r >>]) @@ @
     ELSE [@ EXCEPT ![t].res = IF @ = res THEN res ELSE "conflict", ![t].rules = Append(@, r)]]

\* Rule r and the action `other` of the row are both reductions on t.  Lookaheads
\* are left to the planner; the last one it got is reported in a conflict.
reduceReduce(row, r, t, other) ==
  LET las      == IF other \in RuleIds THEN { laIndex(other) } ELSE LookaheadsOf(other)
      reported == IF other \in RuleIds THEN other ELSE Max({ x \in RuleIds : laIndex(x) \in las })
  IN  IF laIndex(r) # 0 /\ 0 \notin las
      THEN [row EXCEPT !.next[t] = ResolutionRule(las \union { laIndex(r) })]
      ELSE addRule(addRule(row, t, "conflict", r, FALSE), t, "conflict", reported, FALSE)

\* ruleAction, and the plain case before it: rule r is to be reduced on t.
addReduce(row, r, t) ==
  IF t \notin DOMAIN row.next
    THEN [row EXCEPT !.next = (t :> r) @@ @, !.order = Append(@, t)]
  ELSE IF row.next[t] = -3 \/ (t \in DOMAIN row.amb /\ row.amb[t].res = "conflict")
    THEN addRule(row, t, "conflict", r, TRUE)
  ELSE IF row.next[t] = -1
    THEN LET res == resolvePrec(r, t)
         IN  addRule([row EXCEPT !.next[t] = CASE res = "reduce" -> r
                                               [] res = "error"  -> -3
                                               [] OTHER          -> -1], t, res, r, TRUE)
  ELSE reduceReduce(row, r, t, row.next[t])

\* The row of state q: the shifts, then the reductions by rule and terminal.
Row(q) ==
  LET shifts == Sorted(DOMAIN St(q).shifts \intersect Terms)
      start  == [next |-> [t \in Range(shifts) |-> -1], order |-> shifts, amb |-> << >>]
      Rule(row, r) == FoldLeft(LAMBDA acc, t : addReduce(acc, r, t), row,
                               Sorted(TerminalsOf(la[<< q, r >>])))
  IN  FoldLeft(Rule, start, Sorted(St(q).reduce))

\* conflictBuilder.merge: the terminals of state q that have the same rules in
\* conflict are one.  amb is that of the state's row.
Conflicts(q, amb) ==
  LET open == { t \in DOMAIN amb : amb[t].res = "conflict" }
  IN  { [state |-> q, rules |-> Range(amb[t].rules), canShift |-> amb[t].canShift,
         next |-> { u \in open : amb[u] = amb[t] }] : t \in open }

SumOfNext(conflicts) == MapThenSumSet(LAMBDA c : Cardinality(c.next), conflicts)

ActionOf(q) ==
  CASE ~St(q).lr0                 -> -3
    [] St(q).lr0 /\ St(q).reduce # {} -> Min(St(q).reduce)
    [] St(q).lr0 /\ St(q).reduce = {} -> IF DOMAIN St(q).shifts # {} THEN -1 ELSE -2

\* The tables that the rows of the states with a choice give.
TablesOf(rows) ==
  LET found == UNION { Conflicts(q, rows[q].amb) : q \in DOMAIN rows }
      rr    == { c \in found : ~c.canShift }
      used  == { a \in UNION { Range(rows[q].next) : q \in DOMAIN rows } : a >= Len(g.rules) }
      Las(a) == Sorted(LookaheadsOf(a))
  IN  [action    |-> [q \in StateIds |-> ActionOf(q)],
       lalr      |-> [q \in StateIds |->
                        IF St(q).lr0 THEN << >>
                        ELSE [k \in DOMAIN rows[q].order |->
                                LET t == rows[q].order[k]
                                IN  << t, IF rows[q].next[t] = -3 THEN -2 ELSE rows[q].next[t] >>]],
       goto      |-> [q \in StateIds |-> St(q).shifts],
       final     |-> final,
       markers   |-> [m \in DOMAIN g.markers |-> { q \in StateIds : m \in St(q).marks }],
       runtime   |-> [a \in used |->
                        newLookaheadRule([k \in DOMAIN Las(a) |-> g.lookaheads[Las(a)[k]]])],
       tries     |-> << >>,
       conflicts |-> rr,
       sr        |-> SumOfNext(found \ rr),
       rr        |-> SumOfNext(rr)]

PopulateTables ==
  /\ stage = "tables"
  /\ tables' = TablesOf([q \in { q \in StateIds : ~St(q).lr0 } |-> Row(q)])
  /\ stage' = "resolve"
  /\ UNCHANGED << g, states, at, final, follow, la >>

Compile == ComputeState \/ AddFinalStates \/ BuildFollow \/ BuildLA \/ PopulateTables
=============================================================================
