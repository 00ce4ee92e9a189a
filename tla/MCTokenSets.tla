---------------------------- MODULE MCTokenSets ----------------------------
(***************************************************************************)
(* TokenSets on three families of grammars, and the meaning of set(...)    *)
(* that its results are compared with, which has no equations between      *)
(* symbols, no components and no sorted sequences.                         *)
(***************************************************************************)
EXTENDS TokenSets

vars == << closureVars, tokenVars >>

-----------------------------------------------------------------------------
\* What can be reached from the members of a set.
RECURSIVE Reach(_, _)
Reach(Succ(_), S) ==
  LET next == S \union UNION { Succ(x) : x \in S }
  IN  IF next = S THEN S ELSE Reach(Succ, next)

Given(nt) == grammar.nonterms[nt - BufSize + 1]
GivenNonterms == { BufSize + i - 1 : i \in DOMAIN grammar.nonterms }
SetNonterms == { nt \in GivenNonterms : Given(nt).kind = "set" }

\* The leaves of a set expression, and the symbols in it, also by way of names.
RECURSIVE Leaves(_)
Operands(e) == { e[i] : i \in 2 .. Len(e) }
Leaves(e) == IF e[1] \in SymbolOps \union { "set" } THEN { e } ELSE UNION { Leaves(f) : f \in Operands(e) }

Symbols(e) ==
  LET Named(leaf) == IF leaf[1] = "set" THEN Leaves(grammar.named[leaf[2]]) ELSE {}
  IN  { leaf[2] : leaf \in { leaf \in Reach(Named, Leaves(e)) : leaf[1] # "set" } }

\* The nonterminals that take part in a text of the first input, or in a set there.
UsedNonterms ==
  LET Next1(nt) == IF nt \notin GivenNonterms THEN {}
                   ELSE CASE Given(nt).kind = "choice"    -> UNION { Range(r) : r \in Range(Given(nt).rules) }
                          [] Given(nt).kind = "lookahead" -> Range(Given(nt).preds)
                          [] Given(nt).kind = "set"       -> Symbols(Given(nt).set)
      first == { i \in DOMAIN grammar.inputs : grammar.inputs[i].eoi }
      start == { grammar.inputs[i].nt : i \in { i \in first : \A j \in first : i <= j } }
  IN  Reach(Next1, start)

Productions ==
  UNION { { << nt, r >> : r \in CASE Given(nt).kind = "choice"    -> Range(Given(nt).rules)
                                  [] Given(nt).kind = "lookahead" -> { << >> }
                                  [] Given(nt).kind = "set"       -> {} } :
          nt \in UsedNonterms \intersect GivenNonterms }

RECURSIVE EmptyFrom(_)
EmptyFrom(S) ==
  LET next == { p[1] : p \in { p \in Productions : Range(p[2]) \subseteq S } }
  IN  IF next \subseteq S THEN S ELSE EmptyFrom(S \union next)
EmptyOnes == EmptyFrom({})

AllEmpty(rhs, i, j) == \A k \in i .. j : rhs[k] \in EmptyOnes

Parts(x) == UNION { Range(p[2]) : p \in { p \in Productions : p[1] = x } }
Heads(x) == UNION { { p[2][i] : i \in { i \in DOMAIN p[2] : AllEmpty(p[2], 1, i - 1) } } :
                    p \in { p \in Productions : p[1] = x } }
Tails(x) == UNION { { p[2][i] : i \in { i \in DOMAIN p[2] : AllEmpty(p[2], i + 1, Len(p[2])) } } :
                    p \in { p \in Productions : p[1] = x } }

\* Symbols of one rule with nothing but empty ones between them.
Neighbours ==
  UNION { { << p[2][i], p[2][j] >> : << i, j >> \in
              { ij \in (DOMAIN p[2]) \X (DOMAIN p[2]) : /\ ij[1] < ij[2]
                                                    /\ AllEmpty(p[2], ij[1] + 1, ij[2] - 1) } } :
          p \in Productions }

\* The symbols that op applied to x stands for: a token follows another one if it
\* begins, and the other one ends, one of two neighbours.
Denoted(op, x) ==
  CASE op = "any"     -> Reach(Parts, { x })
    [] op = "first"   -> Reach(Heads, { x })
    [] op = "last"    -> Reach(Tails, { x })
    [] op = "follow"  -> Reach(Heads, { n[2] : n \in { n \in Neighbours : x \in Reach(Tails, { n[1] }) } })
    [] op = "precede" -> Reach(Tails, { n[1] : n \in { n \in Neighbours : x \in Reach(Heads, { n[2] }) } })

\* The set nonterminals that do not take part in the input are empty.
SetsIn(S) == { << "nonterm", x >> : x \in S \intersect SetNonterms \intersect UsedNonterms }

Keys == { << "set", i >> : i \in DOMAIN grammar.named } \union { << "nonterm", x >> : x \in SetNonterms }
Definition(k) == IF k[1] = "set" THEN grammar.named[k[2]] ELSE Given(k[2]).set

\* The meaning of a set expression, where cur gives the sets that it refers to, and
\* fin those that it refers to below a complement.
RECURSIVE Meaning(_, _, _)
Meaning(e, cur, fin) ==
  CASE e[1] \in SymbolOps -> LET S == Denoted(e[1], e[2])
                             IN  (S \intersect Terms) \union UNION { cur[k] : k \in SetsIn(S) }
    [] e[1] = "set"          -> cur[e]
    [] e[1] = "union"        -> Meaning(e[2], cur, fin) \union Meaning(e[3], cur, fin)
    [] e[1] = "intersection" -> Meaning(e[2], cur, fin) \intersect Meaning(e[3], cur, fin)
    [] e[1] = "complement"   -> Terms \ Meaning(e[2], fin, fin)

\* The least sets that satisfy the definitions, the complements being given.
RECURSIVE Least(_, _)
Least(cur, fin) ==
  LET next == [k \in Keys |-> Meaning(Definition(k), cur, fin)]
  IN  IF next = cur THEN cur ELSE Least(next, fin)

Results == [k \in Keys |-> IF k[1] = "set" THEN Range(tokens[k[2]])
                           ELSE Range(FlattenSeq(values[k[2] - BufSize + 1].rules))]

AsDefined == Results = Least([k \in Keys |-> {}], Results)

-----------------------------------------------------------------------------
\* A set that is nothing but the name of a set defined later, or of itself.
NamesLaterSet == \E i \in DOMAIN grammar.named : /\ grammar.named[i][1] = "set"
                                                 /\ grammar.named[i][2] >= i

\* An intersection that starts with a complement.
StartsInverse ==
  \E t \in DOMAIN visited : heap[t].kind = "intersection" /\ nodes[visited[heap[t].sub[1]]].inverse

\* The two ways in which a set is known to come out wrong are set apart; in all
\* other grammars every named set and every set in a rule is the least one that
\* satisfies its definition, however the sets depend on each other.
SetsAsDefinedApart == stage = "resolved" /\ ~NamesLaterSet /\ ~StartsInverse => AsDefined

\* Intersections that start with a complement are not set apart (closure.go:85).
IntersectionsAsDefined == stage = "resolved" /\ ~NamesLaterSet => AsDefined

-----------------------------------------------------------------------------
\* The sets that a set expression needs, and the complements in it.
Names(e) == UNION { IF leaf[1] = "set" THEN { leaf } ELSE SetsIn(Denoted(leaf[1], leaf[2])) : leaf \in Leaves(e) }

RECURSIVE Complements(_)
Complements(e) == CASE e[1] \in SymbolOps \union { "set" } -> {}
                    [] OTHER -> UNION { Complements(f) : f \in Operands(e) }
                                \union (IF e[1] = "complement" THEN { e } ELSE {})

DependsOnItself(k) ==
  LET Succ(j) == Names(Definition(j))
  IN  \E c \in Complements(Definition(k)) : k \in Reach(Succ, Names(c[2]))

\* set.go:186: an error is reported exactly if a set depends on its own complement,
\* and never because of the order in which Tarjan's algorithm meets the sets.
OnlyCyclesFail ==
  stage \in { "resolved", "failed" } /\ ~NamesLaterSet =>
    (stage = "failed" <=> \E k \in Keys : DependsOnItself(k))

\* The terminals of a node's value.
Members(n) == IF n.inverse THEN Terms \ Range(n.set) ELSE Terms \intersect Range(n.set)

\* closure.go:146: slowClosure repeats its rounds until nothing changes; it comes to
\* an end because no round takes a terminal from a set.
RoundsOnlyAdd ==
  [][phase = "slow" => (StartsInverse \/ \A v \in DOMAIN nodes : Members(nodes[v]) \subseteq Members(nodes'[v]))]_vars

-----------------------------------------------------------------------------
\* Terminals EOI = 0, a = 1, b = 2, c = 3, d = 4; nonterminals from 5 on.
Choice(rs) == [kind |-> "choice", rules |-> rs]
SetOfTokens(e) == [kind |-> "set", set |-> e]
Whole(nonterms, named) ==
  [nonterms |-> nonterms, inputs |-> << [nt |-> 5, eoi |-> TRUE] >>, named |-> named]

\* I: B b C; B: c | a B | (empty); C: C d | L; L: (?= U); U: c; V: a b.  V is used nowhere.
Skeleton == << Choice(<< << 6, 2, 7 >> >>), Choice(<< << 3 >>, << 1, 6 >>, << >> >>),
               Choice(<< << 7, 4 >>, << 8 >> >>), [kind |-> "lookahead", preds |-> << 9 >>],
               Choice(<< << 3 >> >>), Choice(<< << 1, 2 >> >>) >>
Operators == { << "any", 1 >>, << "any", 5 >>, << "any", 10 >>, << "first", 5 >>, << "last", 5 >>,
            << "last", 6 >>, << "follow", 1 >>, << "follow", 6 >>, << "precede", 4 >>, << "precede", 9 >> }
Signed(S) == S \union { << "complement", e >> : e \in S }
Pairs(S) == { << op, e, f >> : op \in { "union", "intersection" }, e \in S, f \in S }

LeafGrammars == { Whole(Skeleton, << e >>) : e \in Signed(Operators) \union Pairs(Signed(Operators)) }

\* Two named sets over each other; the first one is set in the rules, too:
\* I: a S b | b;  S: set(first named set, or another one).
Refs == { << "set", 1 >>, << "set", 2 >>, << "any", 3 >>, << "any", 5 >> }
Mutual == Refs \union { << "complement", e >> : e \in Refs } \union Pairs(Refs)
CyclicGrammars ==
  { Whole(<< Choice(<< << 1, 6, 2 >>, << 2 >> >>), SetOfTokens(e) >>, << f, g >>) :
      e \in { << "set", 1 >>, << "follow", 6 >> }, f \in Mutual, g \in Mutual }

\* Three operands and more, in trees of both shapes.
DeepGrammars ==
  { Whole(Skeleton, << << op, e, << "complement", f >> >>, << "intersection", << "set", 1 >>, g >> >>) :
      op \in { "union", "intersection" }, e \in Pairs({ << "first", 5 >>, << "any", 4 >> }),
      f \in Pairs({ << "any", 6 >>, << "any", 2 >> }), g \in Signed({ << "any", 5 >>, << "follow", 6 >> }) }

PassGrammars == LeafGrammars \union CyclicGrammars \union DeepGrammars
BufferGrammars == LeafGrammars
=============================================================================
