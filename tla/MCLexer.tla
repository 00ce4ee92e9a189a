------------------------------ MODULE MCLexer ------------------------------
(***************************************************************************)
(* Lexer on families of rules, and the meaning of regular expressions that *)
(* its tokens are compared with: the places where a match can end, without *)
(* instructions and states.                                                *)
(***************************************************************************)
EXTENDS Lexer

-----------------------------------------------------------------------------
\* Characters: newline = 1, a = 2, b = 3, and two above ASCII.
nl == << "class", { 1 } >>
a == << "class", { 2 } >>
b == << "class", { 3 } >>
hi == << "class", { 4, 5 } >>
OneOf(S) == << "class", S >>
Repeat(r, from, to) == << "repeat", from, to, r >>
Concat(r, s) == << "concat", r, s >>
Either(r, s) == << "alternate", r, s >>
Opt(r) == Repeat(r, 0, 1)
Star(r) == Repeat(r, 0, -1)
Plus(r) == Repeat(r, 1, -1)

\* a   ab   aab?   a+   [abc]+   a(b|[cd])*b   a{1,2}b   [\na]+   [^\n]+   c a?   a{eoi}   (ab|b)+\n?
\* where c and d are the characters above ASCII.
Patterns == { a, Concat(a, b), Concat(a, Concat(a, Opt(b))), Plus(a), Plus(OneOf(2 .. 4)),
              Concat(a, Concat(Star(Either(b, hi)), b)), Concat(Repeat(a, 1, 2), b), Plus(OneOf({ 1, 2 })),
              Plus(OneOf(2 .. 5)), Concat(OneOf({ 4 }), Opt(a)), Concat(a, << "eoi" >>),
              Concat(Plus(Either(Concat(a, b), b)), Opt(nl)) }
Few == { a, Concat(a, Concat(a, Opt(b))), Concat(a, Concat(Star(Either(b, hi)), b)), Plus(OneOf(2 .. 5)), Concat(a, << "eoi" >>) }
\* a(\nb)?   a([\nb]+a)?   give newlines back to the checkpoint behind a; the second loops on them.
GivesBack == { Concat(a, Opt(Concat(nl, b))), Concat(a, Opt(Concat(Plus(OneOf({ 1, 3 })), a))) }
Empties == { Repeat(Concat(Opt(a), Opt(b)), 2, 2), Either(Star(a), b), Repeat(Opt(a), 1, -1) }

Rule(re, prec, act) == [re |-> re, starts |-> { 0 }, precedence |-> prec, action |-> act, space |-> FALSE]
Only(rule, sc) == [rule EXCEPT !.starts = { sc }]
Both(rule) == [rule EXCEPT !.starts = { 0, 1 }]
Space(re) == [Rule(re, 0, 1) EXCEPT !.space = TRUE]
Input(rs) == [rules |-> rs, backtracking |-> TRUE]
Strict(rs) == [rules |-> rs, backtracking |-> FALSE]

PairRules == { Input(<< Rule(p, 0, 2), Rule(q, prec, 3) >>) : p, q \in Patterns, prec \in { 0, 1 } }
StrictRules == { Strict(<< Rule(p, 1, 2), Rule(q, 0, 3) >>) : p, q \in Few }
EmptyRules == { Input(<< Rule(a, 0, 2), Rule(e, 0, 3) >>) : e \in Empties }
             \union { Input(<< Rule(e, 1, 2), Rule(a, 0, 3) >>) : e \in Empties }
Spaces == { nl, Plus(nl), Plus(OneOf({ 1, 2 })), Concat(nl, Opt(nl)), Concat(nl, << "eoi" >>) }
SpaceRules == { Input(<< Space(s), Rule(p, 1, 2), Rule(q, 2, 0) >>) : s \in Spaces, p, q \in Few }
\* The newlines given back are read again: as tokens of their own, in runs or as spaces.
GiveBackRules == { Input(<< Rule(p, 0, 2), Rule(q, prec, 3) >>) :
                   p \in GivesBack, q \in GivesBack \union { a, nl, Plus(nl), Plus(OneOf({ 1, 2 })) }, prec \in { 0, 1 } }
                 \union { Input(<< Space(s), Rule(p, 1, 2) >>) : s \in Spaces, p \in GivesBack }
ThreeRules == { Input(<< Rule(p, 0, 2), Rule(q, prec, 3), Rule(a, 0, act) >>) :
              p, q \in { a, Concat(a, b), Plus(a) }, prec \in { 0, 1 }, act \in { 2, 4 } }
ConditionRules == { Input(<< Both(Space(s)), Only(Rule(p, 0, 2), 0), Only(Rule(q, 0, 3), 1), Both(Rule(b, 0, 4)) >>) :
                   s \in { nl, Plus(nl) }, p, q \in { a, Concat(a, b), Plus(OneOf({ 1, 2 })) } }
AllRuleSets == PairRules \union StrictRules \union EmptyRules \union SpaceRules \union GiveBackRules
               \union ThreeRules \union ConditionRules

SeqsUpTo(S, n) == UNION { [1 .. k -> S] : k \in 0 .. n }
ShortTexts == SeqsUpTo(1 .. 5, 3)
SourceTexts == [1 .. 3 -> { 1, 2, 3, 4 }] \union { << c, 5, d >> : c, d \in { 2, 4 } }

-----------------------------------------------------------------------------
vars == << tableVars, lexerVars >>

\* The places where a match of re that begins behind the first i of w can end.
RECURSIVE Ends(_, _, _)
RECURSIVE Times(_, _, _, _)
EndsFrom(re, w, S) == UNION { Ends(re, w, i) : i \in S }
Times(re, w, S, n) == IF n = 0 THEN S ELSE Times(re, w, EndsFrom(re, w, S), n - 1)
Ends(re, w, i) ==
  CASE re[1] = "class"     -> { j \in { i + 1 } : j <= Len(w) /\ w[j] \in re[2] }
    [] re[1] = "eoi"       -> { j \in { i + 1 } : j <= Len(w) /\ w[j] = EOI }
    [] re[1] = "concat"    -> IF Len(re) = 1 THEN { i } ELSE EndsFrom(Last(re), w, Ends(Front(re), w, i))
    [] re[1] = "alternate" -> UNION { Ends(r, w, i) : r \in Range(Tail(re)) }
    [] re[1] = "repeat"    -> UNION { Times(re[4], w, { i }, n) :
                                      n \in re[2] .. (IF re[3] = -1 THEN re[2] + Len(w) ELSE re[3]) }

\* Whether w, behind its first i, is all of a match or the beginning of a longer one.
RECURSIVE Begins(_, _, _)
Begins(re, w, i) ==
  \/ i = Len(w)
  \/ CASE re[1] \in { "class", "eoi" } -> Ends(re, w, i) = { Len(w) }
       [] re[1] = "concat"    -> \E k \in 2 .. Len(re) : \E j \in Ends(SubSeq(re, 1, k - 1), w, i) : Begins(re[k], w, j)
       [] re[1] = "alternate" -> \E r \in Range(Tail(re)) : Begins(r, w, i)
       [] re[1] = "repeat"    -> \E n \in 0 .. (IF re[3] = -1 THEN re[2] + Len(w) ELSE re[3] - 1) :
                                   \E j \in Times(re[4], w, { i }, n) : Begins(re[4], w, j)

Active(sc) == { r \in DOMAIN rules : sc \in rules[r].starts }
Accepts(r, w) == Len(w) \in Ends(rules[r].re, w, 0)
Matching(sc, w) == { r \in Active(sc) : Accepts(r, w) }
Extends(sc, w) == w = << >> \/ \E r \in Active(sc) : Begins(rules[r].re, w, 0)
Highest(rs) == { r \in rs : \A q \in rs : rules[q].precedence <= rules[r].precedence }
Actions(rs) == { rules[r].action : r \in rs }

-----------------------------------------------------------------------------
\* The longest beginning of a token is read; it is that token, of the rule of highest
\* precedence, or else the last token that could not go on with the next character.
Defined(sc, rest) ==
  LET w       == Append(rest, EOI)
      Word(n) == SubSeq(w, 1, n)
      read    == CHOOSE n \in 0 .. Len(w) : /\ Extends(sc, Word(n))
                                            /\ \A k \in n + 1 .. Len(w) : ~Extends(sc, Word(k))
      Acts(n) == Actions(Highest(Matching(sc, Word(n))))
      final   == Acts(read)
      marks   == { n \in 1 .. read - 1 : Acts(n) # {} /\ Acts(n + 1) = {} }
      mark    == CHOOSE n \in marks : \A k \in marks : k <= n
      Length(n) == IF n > Len(rest) THEN Len(rest) ELSE n
  IN  CASE final \notin { {}, { INVALID } } -> [toks |-> final, len |-> Length(read)]
        [] final \in { {}, { INVALID } } /\ marks # {} -> [toks |-> Acts(mark), len |-> mark]
        [] final = {} /\ read = 0 /\ rest = << >> -> [toks |-> { EndOfText }, len |-> 0]
        [] final = {} /\ read = 0 /\ rest # << >> -> [toks |-> { INVALID }, len |-> 1]
        [] OTHER -> [toks |-> { INVALID }, len |-> Length(read)]

\* The first token from o on that is not a space.
RECURSIVE FirstToken(_, _)
FirstToken(sc, o) ==
  LET d == Defined(sc, SubSeq(source, o + 1, Len(source)))
  IN  IF d.toks \subseteq SpaceActions THEN FirstToken(sc, o + d.len)
      ELSE [toks |-> d.toks, start |-> o, end |-> o + d.len]

\* lex.go:22, "Precedence disambiguates between rules that match the same prefix": the
\* tokens that Next returns are those that the rules define, one after the other, with
\* only spaces between them; the states, checkpoints and accelerators do not show.
TokensAsDefined ==
  tokens # << >> =>
    LET t   == Last(tokens)
        ref == FirstToken(t.condition, IF Len(tokens) = 1 THEN 0 ELSE tokens[Len(tokens) - 1].end)
    IN  ref.toks = { t.tok } /\ t.start = ref.start /\ t.end = ref.end

\* parsers/tm/lexer.go: however tokens are skipped, scanned in runs or taken back behind
\* the newlines they have read, the line of a token is that of its first character, and
\* so is that of the place reached.
LinesCounted ==
  /\ tokens # << >> => Last(tokens).line = 1 + Newlines(0, Last(tokens).start)
  /\ pc # "init" => line = 1 + Newlines(0, offset)

-----------------------------------------------------------------------------
Words == { << >> } \union UNION { { Append(t, EOI), t } : t \in ShortTexts }
Compiled == stage \in { "ready", "failed" } /\ pc = "init"
Conditions == 0 .. Len(stateMap) - 1

\* generator.go:111: "two rules are identical" is reported if a text may be either of
\* two tokens, and only if two rules of equal precedence match one text.
IdenticalRulesReported ==
  Compiled =>
    /\ (\E sc \in Conditions, w \in Words : Cardinality(Actions(Highest(Matching(sc, w)))) > 1) => identical
    /\ identical => \E sc \in Conditions, w \in Words :
                      \E q, r \in Matching(sc, w) : /\ rules[q].precedence = rules[r].precedence
                                                    /\ rules[q].action # rules[r].action

\* generator.go:156: a lexer needs backtracking exactly if a token can go on with a
\* character that leads to no other token at once.
BacktrackingReported ==
  Compiled =>
    LET Needed == \E sc \in Conditions, w \in Words :
                    /\ w # << >>
                    /\ Matching(sc, Front(w)) # {} /\ Matching(sc, w) = {}
                    /\ Extends(sc, w)
    IN  /\ backtrack # << >> <=> Needed
        /\ needsBacktracking <=> Needed /\ ~allowBacktracking

\* compile.go:84: a rule that accepts the empty text is an error; Next would return its
\* token for ever.
EmptyTextReported == Compiled => (emptyRule <=> \E r \in DOMAIN rules : Accepts(r, << >>))
=============================================================================
