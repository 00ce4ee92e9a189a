------------------------------- MODULE MCLalr -------------------------------
(***************************************************************************)
(* lalr.Compile as a whole (Lalr, Tries, Minimize, PackedTables), the      *)
(* grammars it is run on, and what its tables are compared with: the       *)
(* language and the LR(1) lookaheads of the grammar, defined without an    *)
(* automaton.                                                              *)
(***************************************************************************)
EXTENDS LalrCompile

CONSTANTS
  MaxLen,   \* the texts tried are at most this long
  ExprLen   \* the expressions tried are at most this long

-----------------------------------------------------------------------------
\* resolveDeepLA of the parser's template: the tokens after the next one decide.
RECURSIVE DeepLA(_, _)
DeepLA(node, text) ==
  LET t == Head(text)
  IN  CASE t \notin DOMAIN node -> -2
        [] t \in DOMAIN node /\ node[t].act # -2 -> node[t].act
        [] t \in DOMAIN node /\ node[t].act = -2 ->
             DeepLA(node[t].child, IF t = EOI THEN text ELSE Tail(text))

\* The loop of a generated parser over tables T: actions by state and terminal,
\* goto by state and symbol, final by input.  trees holds the parse tree of every
\* symbol of the stack.
RECURSIVE Loop(_, _, _, _, _, _)
Loop(T, end, stack, trees, text, fuel) ==
  LET q    == Last(stack)
      rest == IF Head(text) = EOI THEN text ELSE Tail(text)
      cell == T.action[q][Head(text)]
      a    == IF cell < -2 THEN DeepLA(T.tries[-3 - cell], rest) ELSE cell
  IN  CASE q = end -> << trees >>
        [] q # end /\ (fuel = 0 \/ a = -2) -> << >>
        [] q # end /\ fuel > 0 /\ a = -1 ->
             IF Head(text) \notin DOMAIN T.goto[q] THEN << >>
             ELSE Loop(T, end, Append(stack, T.goto[q][Head(text)]), Append(trees, << >>), rest, fuel - 1)
        [] q # end /\ fuel > 0 /\ a >= 0 ->
             LET n    == Len(stack) - Len(Rhs(a))
                 left == SubSeq(stack, 1, n)
             IN  IF Lhs(a) \notin DOMAIN T.goto[Last(left)] THEN << >>
                 ELSE Loop(T, end, Append(left, T.goto[Last(left)][Lhs(a)]),
                           Append(SubSeq(trees, 1, n - 1),
                                  << a, SubSeq(trees, n, Len(trees)) >>),
                           text, fuel - 1)

\* What the parser for input i makes of a text: << >> if it reports an error.
Parse(T, i, text) == Loop(T, T.final[i], << T.start[i] >>, << >>, Append(text, EOI), 10 * (MaxLen + 2))

\* tmAction, lalr and gotoState of the tables as they are.
RowAction(q, t) ==
  LET k == { k \in DOMAIN tables.lalr[q] : tables.lalr[q][k][1] = t }
  IN  IF tables.action[q] # -3 THEN tables.action[q]
      ELSE IF k = {} THEN -2 ELSE tables.lalr[q][Min(k)][2]

Plain == [action |-> [q \in States |-> [t \in Terms |-> RowAction(q, t)]],
          tries  |-> tables.tries, goto |-> tables.goto,
          final  |-> tables.final, start |-> [i \in InputIds |-> i]]

\* The packed ones, where an action below -1 shifts to a state, and -1 is an error.
Packed == [action |-> [q \in States |-> [t \in Terms |->
                         LET a == packedAction(q, t) IN  IF a >= 0 THEN a ELSE IF a = -1 THEN -2 ELSE -1]],
           tries  |-> << >>,
           goto   |-> [q \in States |->
                         [t \in { t \in Terms : packedAction(q, t) < -1 } |-> -2 - packedAction(q, t)]
                         @@ [s \in Nonterms |-> gotoNT(q, s)]],
           final  |-> tables.final, start |-> [i \in InputIds |-> i]]

\* The texts of at most MaxLen terminals that derive from each nonterminal.
RECURSIVE Derived(_, _)
Derived(L, n) ==
  LET Of(s) == IF s \in Terms THEN { << s >> } ELSE L[s]
      Join(acc, s) == { x \in { u \o v : u \in acc, v \in Of(s) } : Len(x) <= n }
      more == [A \in Nonterms |-> UNION { FoldLeft(Join, { <<>> }, Rhs(r)) :
                                             r \in { r \in RuleIds : Lhs(r) = A } }]
  IN  IF more = L THEN L ELSE Derived(more, n)

Language(n) == Derived([A \in Nonterms |-> {}], n)

Texts == UNION { [1 .. n -> Terms \ { EOI }] : n \in 0 .. MaxLen }

IsConflictFree ==
  tables.sr + tables.rr = 0 /\ g.prec = << >> /\ Greedy = {} /\ g.lookaheads = << >>

\* The state an input ends in is entered on its nonterminal.  It is sound to end
\* there if it cannot be entered from anywhere else, and possible if the state
\* looks at the next token.
EndsAreSeparate ==
  \A i \in InputIds :
    LET nt == g.inputs[i + 1].nt
        q  == St(i).shifts[nt]
    IN  /\ \A p \in StateIds \ { i } : gotoState(p, nt) # q
        /\ St(q).reduce = {} \/ ~St(q).lr0

\* The transitions whose follow sets a trie is made of: those the rules start with,
\* and those that its edges stand for.
RECURSIVE Walked(_, _)
Walked(node, gts) ==
  gts \union UNION { Walked(node[t].child, { x \in NextOfAll(gts) : x[2] = t }) :
                       t \in { t \in DOMAIN node : node[t].child # nil } }

\* buildLA gives a terminal at the end of a rule nothing of what follows the rule.
\* No trie needs it: everything that starts there goes on with something.
FollowsSuffice ==
  \A q \in States : \A e \in Range(tables.lalr[q]) :
    e[2] < -2 =>
      LET gts == { x \in UNION { la[<< q, r >>] : r \in St(q).reduce } : x = AllTokens \/ x[2] = e[1] }
      IN  \A x \in Walked(tables.tries[-3 - e[2]], gts) :
            /\ x # AllTokens
            /\ \A i \in St(gotoState(x[1], x[2])).core :
                 ~(Range(SubSeq(Rhs(i[1]), i[2] + 1, Len(Rhs(i[1])))) \subseteq Nullable)

\* The parser accepts the sentences of the grammar and nothing else.
Recognizes(T) ==
  LET L == Language(MaxLen)
  IN  \A i \in InputIds : \A w \in Texts :
        (Parse(T, i, w) # << >>) <=>
          \/ w \in L[g.inputs[i + 1].nt]
          \/ ~g.inputs[i + 1].eoi /\ \E n \in 0 .. Len(w) : SubSeq(w, 1, n) \in L[g.inputs[i + 1].nt]

\* lalr.go and README.md:9, "outputs a program able to parse the language
\* defined by the grammar": a grammar without conflicts gives tables that accept
\* its sentences and nothing else.
TablesRecognizeLanguage == (stage = "minimize" /\ IsConflictFree) => Recognizes(Plain)

TablesRecognizeLanguageApart ==
  (stage = "minimize" /\ EndsAreSeparate /\ FollowsSuffice) => TablesRecognizeLanguage

-----------------------------------------------------------------------------
\* The terminals that a text derived from rest and followed by t can start with.
FirstOf(rest, t) ==
  LET first == { << Lhs(r), Rhs(r)[k] >> : << r, k >> \in
                   { x \in RuleIds \X (1 .. 3) :
                       /\ x[2] <= Len(Rhs(x[1]))
                       /\ \A j \in 1 .. x[2] - 1 : Rhs(x[1])[j] \in Nullable } }
      upTo  == { k \in DOMAIN rest : \A j \in 1 .. k - 1 : rest[j] \in Nullable }
  IN  UNION { Reach(first, rest[k]) \intersect Terms : k \in upTo }
      \union (IF Range(rest) \subseteq Nullable THEN { t } ELSE {})

\* The LR(1) items << item, t >> of every state, merged by state: from the items
\* of the inputs, through closures and transitions.
RECURSIVE LR1(_, _)
LR1(items, new) ==
  LET Rest(i)  == SubSeq(Rhs(i[1]), i[2] + 2, Len(Rhs(i[1])))
      Inner(x) == { << x[1], << r, 0 >>, t >> :
                      r \in { r \in RuleIds : Lhs(r) = NextSym(x[2]) },
                      t \in FirstOf(Rest(x[2]), x[3]) }
      Moved(x) == { << gotoState(x[1], NextSym(x[2])), << x[2][1], x[2][2] + 1 >>, x[3] >> }
      more     == UNION { Inner(x) \union Moved(x) : x \in { x \in new : ~AtEnd(x[2]) } }
      kept     == { x \in more : x[2][2] = 0 \/ x[2] \in St(x[1]).core }
  IN  IF kept \subseteq items THEN items ELSE LR1(items \union kept, kept \ items)

Lookaheads ==
  LET start == UNION { LET inp == g.inputs[i + 1]
                       IN  { << i, << r, 0 >>, t >> : r \in { r \in RuleIds : Lhs(r) = inp.nt },
                               t \in IF inp.eoi THEN { EOI } ELSE Terms } : i \in InputIds }
  IN  LR1(start, start)

\* buildLA computes the LALR(1) lookaheads, those of the canonical LR(1) items
\* merged by state, and no more.  A greedy item leaves the state without the
\* items it pushed out, whose follow sets buildLA still adds up.
LookaheadsExact ==
  (stage = "tables" /\ EndsAreSeparate) =>
    LET items == Lookaheads
    IN  \A x \in DOMAIN la :
          LET exact == { i[3] : i \in { i \in items : i[1] = x[1] /\ i[2] = << x[2], Len(Rhs(x[2])) >> } }
          IN  IF Greedy = {} THEN TerminalsOf(la[x]) = exact ELSE exact \subseteq TerminalsOf(la[x])

-----------------------------------------------------------------------------
\* Trees are << rule, children >>, a terminal is << >>.  The rules that end where
\* a tree ends, and those that start with it, as far as they leave a choice: they
\* end, or start, with a nonterminal.
RECURSIVE RightEdge(_), LeftEdge(_), Trees(_, _)
RightEdge(t) ==
  IF t = << >> \/ Last(Rhs(t[1])) \in Terms THEN {} ELSE { t[1] } \union RightEdge(Last(t[2]))
LeftEdge(t) ==
  IF t = << >> \/ Rhs(t[1])[1] \in Terms THEN {} ELSE { t[1] } \union LeftEdge(t[2][1])

\* All parse trees of a text, for rules like those of ExprGrammars: no empty
\* symbols, and a terminal in the middle of three.
Trees(nt, text) ==
  LET n == Len(text)
      Tree(s, i, j) == CASE i > j                    -> {}
                         [] i <= j /\ s \in Terms    -> IF i = j /\ text[i] = s THEN { << >> } ELSE {}
                         [] i <= j /\ s \in Nonterms -> Trees(s, SubSeq(text, i, j))
      Of(rhs) ==
        CASE Len(rhs) = 1 -> { << t >> : t \in Tree(rhs[1], 1, n) }
          [] Len(rhs) = 2 -> Tree(rhs[1], 1, 1) \X Tree(rhs[2], 2, n)
          [] Len(rhs) = 3 -> UNION { Tree(rhs[1], 1, k - 1) \X Tree(rhs[2], k, k)
                                       \X Tree(rhs[3], k + 1, n) :
                                     k \in { k \in DOMAIN text : text[k] = rhs[2] } }
  IN  UNION { { << r, c >> : c \in Of(Rhs(r)) } : r \in { r \in RuleIds : Lhs(r) = nt } }

\* Whether the declarations let rule r end before the operator op, or go on with
\* it.
Level(t) == CHOOSE n \in 0 .. Len(g.prec) :
              IF n = 0 THEN \A k \in DOMAIN g.prec : t \notin g.prec[k].terms ELSE t \in g.prec[n].terms
Operator(r) == IF g.rules[r + 1].prec # 0 THEN g.rules[r + 1].prec
               ELSE CHOOSE t \in Range(Rhs(r)) : t \in Terms
Ends(r, op)   == \/ Level(Operator(r)) > Level(op)
                 \/ Level(Operator(r)) = Level(op) /\ g.prec[Level(op)].assoc = "left"
GoesOn(r, op) == \/ Level(Operator(r)) < Level(op)
                 \/ Level(Operator(r)) = Level(op) /\ g.prec[Level(op)].assoc = "right"

RECURSIVE Follows(_)
Follows(t) ==
  t # << >> =>
    LET rhs == Rhs(t[1])
    IN  /\ \A k \in DOMAIN t[2] : Follows(t[2][k])
        /\ Len(rhs) = 3 => \A r \in RightEdge(t[2][1]) : Ends(r, rhs[2])
        /\ Last(rhs) \in Nonterms =>
             \A r \in LeftEdge(Last(t[2])) : GoesOn(t[1], Rhs(r)[2])

\* lalr.go:57-60 and :68-69, how operators group: the tables of an expression
\* grammar whose conflicts are all resolved by precedence give every sentence the
\* tree that the declarations ask for, and reject it if there is none.
TreesFollowPrecedence ==
  (stage = "minimize" /\ g.prec # << >> /\ tables.sr + tables.rr = 0) =>
    LET nt == g.inputs[1].nt
    IN  \A w \in Language(ExprLen)[nt] :
          { p[1] : p \in Range(Parse(Plain, 0, w)) } = { t \in Trees(nt, w) : Follows(t) }

-----------------------------------------------------------------------------
\* v says which inputs the text ahead matches.
Holds(x, v) == \A p \in Range(x.preds) : v[p.input] # p.negated

\* lookaheadRule of a generated parser: the first case that applies decides.
Outcome(rule, v) ==
  LET hits == { k \in DOMAIN rule.cases : v[rule.cases[k].input] # rule.cases[k].negated }
  IN  IF hits = {} THEN rule.default ELSE rule.cases[Min(hits)].target

\* lalr.go:73-75, "When two or more lookahead nonterminals can be reduced in the
\* same state, their predicates are used to determine which one should be reduced":
\* on every terminal where several can be, one rule chooses among all of them, and
\* whatever lies ahead, it never chooses another one than the one whose predicates
\* hold; so no two can hold at once (lookahead.go:84, "mutually exclusive").
LookaheadsDecide ==
  (stage = "minimize" /\ tables.sr + tables.rr = 0) =>
    \A q \in States : \A t \in Terms :
      LET able == { r \in St(q).reduce : ~St(q).lr0 /\ t \in TerminalsOf(la[<< q, r >>]) }
          las  == { laIndex(r) : r \in able }
          a    == RowAction(q, t)
      IN  (Cardinality(able) > 1 /\ 0 \notin las) =>
            /\ a \in DOMAIN tables.runtime /\ LookaheadsOf(a) = las
            /\ tables.runtime[a].err = "none" =>
                 \A v \in [1 .. Len(g.inputs) - 1 -> BOOLEAN] : \A i \in las :
                   Holds(g.lookaheads[i], v) => Outcome(tables.runtime[a], v) = g.lookaheads[i].nt

-----------------------------------------------------------------------------
\* compile.go:23, DefaultReduce: "Bison compatibility mode, perform a default
\* reduction in non-LR(0) states instead of reporting an error": the error comes
\* later, but it comes; neither that nor merging and packing change the language.
PackedTablesRecognizeLanguage ==
  (/\ stage = "done" /\ IsConflictFree /\ EndsAreSeparate
   /\ before = << >> \/ SignaturesTellApart(before)
   /\ BasesAreUnique) => Recognizes(Packed)

-----------------------------------------------------------------------------
R(lhs, rhs) == [lhs |-> lhs, rhs |-> rhs, prec |-> 0, act |-> 0]

Grammar(terms, syms, rules) ==
  [terms |-> terms, syms |-> syms, rules |-> rules, inputs |-> << [nt |-> terms, eoi |-> TRUE] >>,
   markers |-> << >>, prec |-> << >>, lookaheads |-> << >>]

\* All grammars S: x | z; A: y and S: x; A: y | z, and some S: x | 1; A: y | z, over
\* two terminals and with at most two symbols in a rule, where S uses A, z is a
\* text, and every nonterminal derives one.
Rhss  == UNION { [1 .. n -> 1 .. 4] : n \in 0 .. 2 }
Uses  == { x \in Rhss : 4 \in Range(x) }
Bases == UNION { [1 .. n -> 1 .. 2] : n \in 0 .. 2 }
SmallGrammars ==
  { Grammar(3, 5, << R(3, x), R(3, z), R(4, y) >>) :
      x \in Uses, y \in { y \in Rhss : 4 \notin Range(y) }, z \in Bases }
  \union
  { Grammar(3, 5, << R(3, x), R(4, y), R(4, z) >>) :
      x \in { x \in Uses : 3 \notin Range(x) }, y \in Rhss \ Bases, z \in Bases }
  \union
  { Grammar(3, 5, << R(3, x), R(3, << 1 >>), R(4, y), R(4, z) >>) :
      x \in Uses, y \in Rhss \ Bases, z \in { << >>, << 2 >> } }

\* Expressions over EOI, id, o1, o2, m: binary operators in one group or two, and
\* a prefix operator with a group of its own or with that of m.
Assoc == { "left", "right", "nonassoc" }
ExprGrammars ==
  LET binary == << R(5, << 1 >>), R(5, << 5, 2, 5 >>), R(5, << 5, 3, 5 >>) >>
      minus  == Append(binary, [R(5, << 2, 5 >>) EXCEPT !.prec = 4])
      P(rules, prec) == [Grammar(5, 6, rules) EXCEPT !.prec = prec]
      Group(a, terms) == [assoc |-> a, terms |-> terms]
  IN  { P(binary, << Group(a, { 2, 3 }) >>) : a \in Assoc }
      \union { P(binary, << Group(a[1], { 3 }), Group(a[2], { 2 }) >>) : a \in Assoc \X Assoc }
      \union { P(minus, << Group(a[1], { 2 }), Group(a[2], { 3, 4 }) >>) : a \in Assoc \X Assoc }

Greedily(gr, items) == [gr EXCEPT !.markers = << [name |-> "greedy", items |-> items] >>]

\* Empty symbols in a row; two inputs, the second one without EOI; a marked
\* state; a greedy modifier; a rule cut off by a greedy one.
OtherGrammars ==
  { Grammar(4, 7, << R(4, << 5, 6, 4 >>), R(4, << 3 >>), R(5, << 1 >>), R(5, << >>),
                     R(6, << 2 >>), R(6, << >>) >>),
    Grammar(4, 8, << R(4, << 5, 6, 3 >>), R(5, << 1 >>), R(5, << 7 >>), R(6, << 2 >>),
                     R(6, << 7 >>), R(7, << >>) >>),
    [Grammar(5, 7, << R(5, << 6 >>), R(6, << 1, 6, 2 >>), R(6, << 3 >>), R(6, << 4 >>) >>)
       EXCEPT !.inputs = << [nt |-> 5, eoi |-> TRUE], [nt |-> 6, eoi |-> FALSE] >>],
    [Grammar(4, 6, << R(4, << 1, 5 >>), R(4, << 2, 5 >>), R(5, << 3, 3 >>), R(5, << 1, 3 >>) >>)
       EXCEPT !.markers = << [name |-> "mark", items |-> { << 2, 1 >> }] >>],
    Greedily(Grammar(3, 5, << R(3, << 4, 2 >>), R(3, << 4 >>), R(4, << 1 >>), R(4, << 1, 2 >>) >>),
             { << 2, 1 >> }),
    Greedily(Grammar(3, 5, << R(3, << 4, 2 >>), R(3, << 1, 1 >>), R(4, << 1 >>), R(4, << 1, 2 >>) >>),
             { << 1, 1 >>, << 3, 1 >> }) }

\* S: A x | B y, where A and B are both e, and C is z and comes once at most in x
\* and in y: conflicts of A and B.
DeepGrammars ==
  LET tails == { w \in UNION { [1 .. n -> { 1, 2, 7 }] : n \in 1 .. 3 } :
                   w[1] # 2 /\ Cardinality({ k \in DOMAIN w : w[k] = 7 }) <= 1 }
  IN  { Grammar(4, 8, << R(4, << 5 >> \o p[1]), R(4, << 6 >> \o p[2]),
                         R(5, << 3 >>), R(6, << 3 >>), R(7, z) >>) :
          p \in { p \in tails \X tails : Len(p[1]) <= Len(p[2]) }, z \in { << >>, << 1 >>, << 1, 2 >> } }

\* Lookaheads A, B, C over the inputs P and Q, all in front of a, or C in front of b.
LookaheadGrammars ==
  LET Lit(i)  == { << [input |-> i, negated |-> n] >> : n \in BOOLEAN }
      two(i, j) == { x \o y : x \in Lit(i), y \in Lit(j) }
      sorted  == Lit(1) \union Lit(2) \union two(1, 2)
      G(last, preds) ==
        [Grammar(3, 9, << R(3, << 4, 1 >>), R(3, << 5, 1 >>), R(3, << 6, last >>), R(4, << >>),
                          R(5, << >>), R(6, << >>), R(7, << 1 >>), R(8, << 1, 1 >>) >>)
           EXCEPT !.inputs     = @ \o [k \in 1 .. 2 |-> [nt |-> 6 + k, eoi |-> FALSE]],
                  !.lookaheads = [k \in 1 .. 3 |-> [nt |-> 3 + k, preds |-> preds[k]]]]
  IN  { G(1, p) : p \in sorted \X sorted \X sorted }
      \union { G(2, p) : p \in (sorted \union two(2, 1)) \X (sorted \union two(2, 1))
                               \X { << [input |-> 1, negated |-> FALSE] >> } }

AllGrammars == SmallGrammars \union DeepGrammars \union LookaheadGrammars \union ExprGrammars \union OtherGrammars

-----------------------------------------------------------------------------
\* The conflict between A and B on a is resolved by what comes after: nothing, or b.
DeepFollow == { Grammar(4, 7, << R(4, << 5, 1 >>), R(4, << 6, 1, 2 >>), R(5, << 3 >>), R(6, << 3 >>) >>) }

\* The state after the input is also entered inside a sentence, or does not look
\* at the next token.
SharedEnd  == { Grammar(5, 7, << R(5, << 6 >>), R(6, << 5, 2 >>), R(6, << 1 >>), R(6, << 3, 6, 4 >>) >>) }
SkippedEnd == { Grammar(3, 6, << R(3, << 4, 2 >>), R(3, << 1 >>), R(4, << 3, 5 >>), R(5, << >>) >>) }

\* The state behind 5 1 carries the marker; that behind 4 1 does not, but its row
\* has one entry more, on the terminal 8, and so they have the same signature.
SharedSignature ==
  { [Grammar(9, 13, << R(10, << 4, 1 >>), R(10, << 5, 1 >>), R(11, << 4, 1, 2 >>), R(11, << 5, 1, 2 >>),
                       R(9, << 10, 3 >>), R(9, << 11 >>), R(9, << 6, 10, 8 >>), R(9, << 6, 11 >>),
                       R(9, << 6, 12 >>), R(12, << 5, 1, 7 >>) >>)
       EXCEPT !.markers = << [name |-> "mark", items |-> { << 1, 2 >> }] >>] }
=============================================================================
