----------------------------- MODULE TokenSets -----------------------------
(***************************************************************************)
(* Token sets, from the grammar's text to sets of terminals: the directives*)
(* are loaded (compiler/syntax.go), the sets are translated into equations *)
(* (syntax/set.go, syntax/nullable.go), which a Closure solves, and the    *)
(* nonterminals that stand for a set are rewritten.                        *)
(*                                                                         *)
(* Symbols are numbers, terminals first; the sequences of symbols of a rule*)
(* are given without the parts that rules() skips.  A set is written as    *)
(* << op, symbol >> for the operators on symbols, << "set", i >> for the   *)
(* named set i, << "union", e, f >>, << "intersection", e, f >> and        *)
(* << "complement", e >>.  Types of nonterminals are left out.             *)
(***************************************************************************)
EXTENDS Closure, FiniteSets

CONSTANTS
  Grammars   \* [nonterms, inputs, named]: what the source files say

VARIABLES
  grammar,   \* the grammar that is compiled
  stage,     \* "load", "nonterms", "prepare", "translate", "expand", "compute", "resolved" or "failed"
  heap,      \* the TokenSet structures: [kind, sym, sub]
  sets,      \* m.Sets, as places in the heap
  values,    \* the nonterminals: choices of rules, sets, or lookaheads
  nullable,  \* the nonterminals that may be empty
  rules,     \* the rules that can be reached from the input: [lhs, rhs, set]
  visited,   \* the proxy node of each structure
  instances, \* the node of each << op, symbol >>
  queue,     \* the << op, symbol >> whose node has no edges yet
  result,    \* the node of each set in sets
  tokens     \* the terminals that replace each set in sets

tokenVars == << grammar, stage, heap, sets, values, nullable, rules, visited, instances, queue, result, tokens >>

Terms == 0 .. BufSize - 1
Nonterms == { BufSize + i - 1 : i \in DOMAIN values }
ValueOf(nt) == values[nt - BufSize + 1]

SymbolOps == { "any", "first", "last", "precede", "follow" }

-----------------------------------------------------------------------------
\* compiler/syntax.go.  A TokenSet structure for e is added to the heap; a named
\* set is the structure that was allocated for it.
RECURSIVE convertSet(_, _)
convertSet(hp, e) ==
  CASE e[1] \in SymbolOps ->
         [heap |-> Append(hp, [kind |-> e[1], sym |-> e[2], sub |-> << >>]), at |-> Len(hp) + 1]
    [] e[1] = "set" -> [heap |-> hp, at |-> e[2]]
    [] OTHER ->
         LET subs == FoldLeft(LAMBDA st, f : LET c == convertSet(st.heap, f)
                                             IN  [heap |-> c.heap, at |-> Append(st.at, c.at)],
                              [heap |-> hp, at |-> << >>], Tail(e))
         IN  [heap |-> Append(subs.heap, [kind |-> e[1], sym |-> 0, sub |-> subs.at]),
              at   |-> Len(subs.heap) + 1]

\* The structures of the named sets are allocated, then each is filled with a copy
\* of what its definition is converted to.
LoadNamed(hp, i) ==
  LET c == convertSet(hp, grammar.named[i])
  IN  [c.heap EXCEPT ![i] = c.heap[c.at]]

LoadDirectives ==
  /\ stage = "load"
  /\ stage' = "nonterms"
  /\ LET blank == [i \in DOMAIN grammar.named |-> [kind |-> "any", sym |-> 0, sub |-> << >>]]
     IN  heap' = FoldLeft(LoadNamed, blank, [i \in DOMAIN blank |-> i])
  /\ sets' = [i \in DOMAIN grammar.named |-> i]
  /\ UNCHANGED << closureVars, grammar, values, nullable, rules, visited, instances, queue, result, tokens >>

\* The sets used in rules; a named one is not added a second time.
LoadNonterm(st, nt) ==
  IF nt.kind # "set" THEN [st EXCEPT !.values = Append(@, nt)]
  ELSE LET c     == convertSet(st.heap, nt.set)
           known == c.at \in Range(st.sets)
       IN  [heap   |-> c.heap,
            sets   |-> IF known THEN st.sets ELSE Append(st.sets, c.at),
            values |-> Append(st.values,
                         [kind |-> "set",
                          index |-> IF known THEN CHOOSE i \in DOMAIN st.sets : st.sets[i] = c.at
                                    ELSE Len(st.sets) + 1])]

LoadNonterms ==
  /\ stage = "nonterms"
  /\ stage' = "prepare"
  /\ LET end == FoldLeft(LoadNonterm, [heap |-> heap, sets |-> sets, values |-> << >>], grammar.nonterms)
     IN  heap' = end.heap /\ sets' = end.sets /\ values' = end.values
  /\ UNCHANGED << closureVars, grammar, nullable, rules, visited, instances, queue, result, tokens >>

-----------------------------------------------------------------------------
\* syntax/nullable.go, for rules; the symbols are looked at until nothing changes.
NullableWith(known, nt) ==
  CASE ValueOf(nt).kind = "set"       -> FALSE
    [] ValueOf(nt).kind = "lookahead" -> TRUE
    [] ValueOf(nt).kind = "choice"    -> \/ ValueOf(nt).rules = << >>
                                         \/ \E r \in Range(ValueOf(nt).rules) : Range(r) \subseteq known

RECURSIVE NullableFrom(_)
NullableFrom(known) ==
  LET next == known \union { nt \in Nonterms : NullableWith(known, nt) }
  IN  IF next = known THEN known ELSE NullableFrom(next)

Nullable == NullableFrom({})

\* The structures below the one at t, itself included.
RECURSIVE SubSets(_, _)
SubSets(t, seen) ==
  FoldLeft(LAMBDA acc, s : IF s \in acc THEN acc ELSE SubSets(s, acc), seen \union { t }, heap[t].sub)

\* The nonterminals that nt mentions.
Mentions(nt) ==
  CASE ValueOf(nt).kind = "choice"    -> FlattenSeq(ValueOf(nt).rules)
    [] ValueOf(nt).kind = "lookahead" -> ValueOf(nt).preds
    [] ValueOf(nt).kind = "set"       ->
         SetToSeq({ heap[t].sym : t \in { t \in SubSets(sets[ValueOf(nt).index], {}) :
                                           heap[t].kind \in SymbolOps } })

RulesFor(nt) ==
  LET Rule(rhs, set) == [lhs |-> nt, rhs |-> rhs, set |-> set]
  IN  CASE ValueOf(nt).kind = "lookahead" -> << Rule(<< >>, 0) >>
        [] ValueOf(nt).kind = "set"       -> << Rule(<< >>, ValueOf(nt).index) >>
        [] ValueOf(nt).kind = "choice"    ->
             [i \in DOMAIN ValueOf(nt).rules |-> Rule(ValueOf(nt).rules[i], 0)]

\* The rules reachable from the first input that ends with EOI, last found first.
RECURSIVE RulesFrom(_, _)
RulesFrom(todo, seen) ==
  IF todo = << >> THEN << >>
  ELSE LET nt  == Last(todo)
           new == FoldLeft(LAMBDA acc, s : IF s \in Nonterms \ (seen \union Range(acc)) THEN Append(acc, s) ELSE acc,
                           << >>, Mentions(nt))
       IN  RulesFor(nt) \o RulesFrom(Front(todo) \o new, seen \union Range(new))

Inputs == SelectSeq(grammar.inputs, LAMBDA inp : inp.eoi)

ReachableRules == IF Inputs = << >> THEN << >> ELSE RulesFrom(<< Inputs[1].nt >>, { Inputs[1].nt })

\* ResolveSets begins, if there is a set.
Prepare ==
  /\ stage = "prepare"
  /\ stage' = IF sets = << >> THEN "resolved" ELSE "translate"
  /\ nullable' = Nullable /\ rules' = ReachableRules
  /\ UNCHANGED << closureVars, grammar, heap, sets, values, visited, instances, queue, result, tokens >>

-----------------------------------------------------------------------------
\* The state of the translation: st = [nodes, instances, queue, visited].
Added(st, node) == [st EXCEPT !.nodes = Append(@, node)]

instantiate_OneBehind(st, op, sym) ==
  IF << op, sym >> \in DOMAIN st.instances THEN st
  ELSE LET leaf == sym \in Terms /\ op \in { "any", "first", "last" }
           ret  == Added(st, NewNode("union", << >>, IF leaf THEN << sym >> ELSE << >>))
       IN  [ret EXCEPT !.instances = (<< op, sym >> :> Len(ret.nodes) + 1) @@ @,
                       !.queue = IF leaf THEN @ ELSE Append(@, << op, sym >>)]

\* The node for op applied to a symbol.
instantiate(st, op, sym) ==
  IF << op, sym >> \in DOMAIN st.instances THEN st
  ELSE LET leaf == sym \in Terms /\ op \in { "any", "first", "last" }
           ret  == Added(st, NewNode("union", << >>, IF leaf THEN << sym >> ELSE << >>))
       IN  [ret EXCEPT !.instances = (<< op, sym >> :> Len(ret.nodes)) @@ @,
                       !.queue = IF leaf THEN @ ELSE Append(@, << op, sym >>)]

\* The node of the structure t is a proxy that is there before t is translated.
RECURSIVE translate(_, _)
translate(st, t) ==
  IF t \in DOMAIN st.visited THEN st
  ELSE LET proxy == Len(st.nodes) + 1
           start == [Added(st, NewNode("union", << >>, << >>)) EXCEPT !.visited = (t :> proxy) @@ @]
           s     == heap[t]
           inner == FoldLeft(translate, start, s.sub)
           leaf  == instantiate(start, s.kind, s.sym)
           whole == Added(inner, NewNode(s.kind, [i \in DOMAIN s.sub |-> inner.visited[s.sub[i]]], << >>))
       IN  IF s.kind \in SymbolOps
           THEN [leaf EXCEPT !.nodes = Include(@, proxy, << leaf.instances[<< s.kind, s.sym >>] >>)]
           ELSE [whole EXCEPT !.nodes = Include(@, proxy, << Len(whole.nodes) >>)]

Translation == [nodes |-> nodes, instances |-> instances, queue |-> queue, visited |-> visited]

Becomes(st) ==
  /\ nodes' = st.nodes /\ instances' = st.instances /\ queue' = st.queue /\ visited' = st.visited

\* The next set of m.Sets.
Translate ==
  /\ stage = "translate" /\ Len(result) < Len(sets)
  /\ LET st == translate(Translation, sets[Len(result) + 1])
     IN  Becomes(st) /\ result' = Append(result, st.visited[sets[Len(result) + 1]])
  /\ stage' = IF Len(result') = Len(sets) THEN "expand" ELSE stage
  /\ UNCHANGED << err, phase, calls, stack, index, lowLink, curr, component, grammar, heap, sets, values, nullable,
                  rules, tokens >>

-----------------------------------------------------------------------------
\* The symbols up to the first one that is not nullable, with it.
Reaching(syms) ==
  LET ends == { i \in DOMAIN syms : syms[i] \notin nullable }
  IN  IF ends = {} THEN syms ELSE SubSeq(syms, 1, CHOOSE i \in ends : \A j \in ends : i <= j)

Transparent(syms) == Range(syms) \subseteq nullable

Instances(op, syms) == [i \in DOMAIN syms |-> << op, syms[i] >>]

\* What is next to the symbol at a position of a rule on one side: the first or the
\* last tokens of its neighbours and, at the edge of the rule, what is next to it.
Beyond(op, edgeOp, near, lhs) ==
  Instances(edgeOp, Reaching(near)) \o (IF Transparent(near) THEN << << op, lhs >> >> ELSE << >>)

\* What op applied to sym includes because of the rule r.
Uses(op, sym, r) ==
  LET n    == Len(r.rhs)
      own  == IF r.lhs # sym THEN << >>
              ELSE CASE op = "any"   -> Instances(op, r.rhs)
                     [] op = "first" -> Instances(op, Reaching(r.rhs))
                     [] op = "last"  -> Instances(op, Reaching(Reverse(r.rhs)))
                     [] OTHER        -> << >>
      near(i) == CASE op = "follow" /\ r.rhs[i] = sym ->
                        Beyond(op, "first", SubSeq(r.rhs, i + 1, n), r.lhs)
                   [] op = "precede" /\ r.rhs[i] = sym ->
                        Beyond(op, "last", Reverse(SubSeq(r.rhs, 1, i - 1)), r.lhs)
                   [] OTHER -> << >>
  IN  own \o FlattenSeq([i \in DOMAIN r.rhs |-> near(i)])

\* The set that stands for sym.
SetOf(op, sym, r) ==
  IF r.lhs = sym /\ r.set # 0 /\ op \in { "any", "first", "last" } THEN << result[r.set] >> ELSE << >>

Expand ==
  /\ stage = "expand" /\ queue # << >>
  /\ LET key  == Last(queue)
         n    == instances[key]
         used == Each(rules, LAMBDA r : Uses(key[1], key[2], r))
         st   == FoldLeft(LAMBDA s, u : instantiate(s, u[1], u[2]),
                          [Translation EXCEPT !.queue = Front(@)], used)
     IN  Becomes([st EXCEPT !.nodes =
                    Include(@, n, Each(rules, LAMBDA r :
                      LET own == Uses(key[1], key[2], r)
                      IN  [i \in DOMAIN own |-> st.instances[own[i]]] \o SetOf(key[1], key[2], r)))])
  /\ UNCHANGED << err, phase, calls, stack, index, lowLink, curr, component, grammar, stage, heap, sets,
                  values, nullable, rules, result, tokens >>

-----------------------------------------------------------------------------
Compute ==
  /\ stage = "expand" /\ queue = << >>
  /\ stage' = "compute"
  /\ BeginCompute
  /\ UNCHANGED << grammar, heap, sets, values, nullable, rules, visited, instances, queue, result, tokens >>

Solve ==
  /\ stage = "compute"
  /\ ClosureStep
  /\ UNCHANGED tokenVars

\* The terminals of a computed set, in order.
Terminals(n) ==
  IF ~nodes[n].inverse THEN nodes[n].set
  ELSE SetToSortSeq(Terms \ Range(nodes[n].set), <)

\* A nonterminal that stands for a set becomes a choice of its terminals, or empty.
Rewritten(value, terminals) ==
  CASE value.kind # "set" -> value
    [] value.kind = "set" /\ terminals = << >> -> [kind |-> "choice", rules |-> << << >> >>]
    [] value.kind = "set" /\ terminals # << >> ->
         [kind |-> "choice", rules |-> [i \in DOMAIN terminals |-> << terminals[i] >>]]

Fail ==
  /\ stage = "compute" /\ phase = "computed" /\ err # << >>
  /\ stage' = "failed"
  /\ UNCHANGED << closureVars, grammar, heap, sets, values, nullable, rules, visited, instances, queue, result, tokens >>

Resolve ==
  /\ stage = "compute" /\ phase = "computed" /\ err = << >>
  /\ stage' = "resolved"
  /\ tokens' = [i \in DOMAIN result |-> Terminals(result[i])]
  /\ values' = [i \in DOMAIN values |->
                  Rewritten(values[i], IF values[i].kind = "set" THEN tokens'[values[i].index] ELSE << >>)]
  /\ UNCHANGED << closureVars, grammar, heap, sets, nullable, rules, visited, instances, queue, result >>

Init ==
  /\ grammar \in Grammars
  /\ stage = "load"
  /\ heap = << >> /\ sets = << >> /\ values = << >> /\ queue = << >> /\ result = << >>
  /\ visited = << >> /\ instances = << >> /\ tokens = << >>
  /\ nullable = {} /\ rules = << >>
  /\ ClosureInit

Finished == stage \in { "resolved", "failed" } /\ UNCHANGED << closureVars, tokenVars >>

Next ==
  \/ LoadDirectives \/ LoadNonterms \/ Prepare \/ Translate \/ Expand \/ Compute \/ Solve \/ Fail \/ Resolve
  \/ Finished

Spec == Init /\ [][Next]_<< closureVars, tokenVars >>
=============================================================================
