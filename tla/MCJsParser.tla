----------------------------- MODULE MCJsParser -----------------------------
(***************************************************************************)
(* JsParser over JsGrammar, for TLC, and the rules of automatic semicolon  *)
(* insertion (ECMA-262, 12.9.1) as a definition to compare it with.        *)
(***************************************************************************)
EXTENDS JsParser, JsGrammar

\* BOUND: the texts.  Each is some fixed tokens, then all sequences of a few
\* tokens with and without line breaks, then fixed tokens again.
Line(w) == [i \in DOMAIN w |-> [sym |-> w[i], nl |-> FALSE]]

Between(first, tokens, n, last) ==
  { Line(first) \o w \o Line(last) :
      w \in UNION { [1 .. k -> [sym : tokens, nl : BOOLEAN]] : k \in 0 .. n } }

JsTexts ==
  Between(<<>>, {"a", ";", "{", "}", "++", "return"}, 3, <<>>) \union
  Between(<<"{", "a">>, {"a", ";", "}", "++"}, 3, <<"a">>) \union
  Between(<<"a", ">", ">", "a">>, {"a", "++", ".", "("}, 2, <<"a">>) \union
  Between(<<"for", "(">>, {"a", ";", ")"}, 4, << "a", ")", ";" >>) \union
  Between(<<"for", "(", "a">>, {"a", ";", "++"}, 2, << "a", ";", "a", ")", ";" >>) \union
  Between(<<"{", "do">>, {"a", ";", "return"}, 2, <<"while", "(", "a", ")", ";", "}">>) \union
  Between(<<"do", ";", "while", "(", "a", ")">>, {"a", "}", "(", "while"}, 2, <<>>) \union
  Between(<<"a", "<">>, {"a", "<", ">"}, 4, << "a" >>) \union
  Between(<<"{", "a">>, {"a", "}", "(", ")", "."}, 3, <<>>) \union
  Between(<<"(", "a">>, {"a", "=>", ")", ";"}, 3, << ")" >>)

\* A line break ends the statement after `return`.
JsRestrictedAfter == [t \in {"return"} |-> [before |-> JsTerminals, in |-> JsStates]]

-----------------------------------------------------------------------------
(***************************************************************************)
(* Automatic semicolon insertion by the book, on whole token sequences.    *)
(***************************************************************************)
\* The stack after one more token; <<>> if the token is not allowed there.
After(stk, t) ==
  LET s == Reduced(stk, t)
  IN  IF gotoState(Last(s), t) = NoState THEN <<>> ELSE Append(s, gotoState(Last(s), t))

StackAfter(w) ==
  LET run[i \in 0 .. Len(w)] ==
        IF i = 0 THEN << Start >>
        ELSE IF run[i - 1] = <<>> THEN <<>> ELSE After(run[i - 1], w[i])
  IN  run[Len(w)]

\* The places of the grammar where no line break may be, and the tokens that
\* can come there.  After `return` those are the tokens that begin an expression;
\* stream_impl.go takes `;` for one of them.
LineBreakForbidden == { << 7, t >> : t \in {"a", "(", "++", ";"} } \union {<< 15, "++" >>, << 1, "=>" >>}

\* The semicolon would be an empty statement or belong to the header of a for
\* statement.  stream_impl.go sees that only if no reduction comes before it or
\* another semicolon stands right in front of it.
EmptyOrHeader(c) ==
  \/ gotoState(Last(Reduced(c.stk, c.t)), ";") \in {JsEmptyStatement} \union JsForSC
  \/ c.out # <<>> /\ Last(c.out) = ";"

\* Where the reading stands: at the token t, i.e. text[i] or what begins with it,
\* behind the symbols `out`, which led to the stack stk.  with and semi are the
\* stacks after t and after a semicolon.
Reading(i, stk, out) ==
  LET wide == /\ i < Len(text) /\ text[i].sym = ">"
              /\ text[i + 1] = [sym |-> ">", nl |-> FALSE]
              /\ After(stk, ">>") # <<>>
      t    == IF i > Len(text) THEN EOI ELSE IF wide THEN ">>" ELSE text[i].sym
  IN  [i |-> i, stk |-> stk, out |-> out, t |-> t,
       with |-> After(stk, t), semi |-> After(stk, ";")]

\* The token sequence that the rules make of the text, as far as it can be
\* continued to a sentence.
Corrected ==
  LET Break(c) == c.i <= Len(text) /\ text[c.i].nl
      Wanted(c) ==
        IF c.with # <<>>
        THEN Break(c) /\ << Last(Reduced(c.stk, c.t)), c.t >> \in LineBreakForbidden
        ELSE \/ Break(c) \/ c.t \in {"}", EOI}
             \/ c.semi # <<>> /\ Last(c.semi) \in JsDoWhile
      Behind(c) == c.i + (IF c.t = ">>" THEN 2 ELSE 1)
      read[x \in [c : [i : Nat, stk : Seq(Nat), out : Seq(STRING), t : STRING,
                       with : Seq(Nat), semi : Seq(Nat)], wanted : BOOLEAN]] ==
        LET c      == x.c
            insert == x.wanted /\ c.semi # <<>> /\ ~EmptyOrHeader(c)
            stk    == IF insert THEN After(c.semi, c.t) ELSE c.with
            out    == IF insert THEN Append(c.out, ";") ELSE c.out
            then   == Reading(Behind(c), stk, Append(out, c.t))
        IN  IF stk = <<>> \/ (x.wanted /\ ~insert) THEN [ok |-> FALSE, out |-> out]
            ELSE IF c.t = EOI THEN [ok |-> TRUE, out |-> Append(out, c.t)]
            ELSE read[[c |-> then, wanted |-> Wanted(then)]]
      start == Reading(1, << Start >>, <<>>)
  IN  read[[c |-> start, wanted |-> Wanted(start)]]

Symbols == [i \in DOMAIN consumed |-> consumed[i].sym]

-----------------------------------------------------------------------------
(***************************************************************************)
(* Properties.                                                             *)
(***************************************************************************)
\* Up to the first syntax error the parser reads the token sequence that the
\* rules of semicolon insertion make of the text, and there is an error only
\* if they make no sentence of it -- apart from the two rules that
\* stream_impl.go reads differently (EmptyOrHeader, LineBreakForbidden).
SemicolonsByTheRulesApart ==
  LET corrected == Corrected
  IN  /\ pc = "accepted" /\ errors = 0 => corrected = [ok |-> TRUE, out |-> Symbols]
      /\ pc = "failed" /\ errors = 1 /\ recovery.pos = {} =>
           corrected = [ok |-> FALSE, out |-> Symbols]

\* parse returns on every text, after a number of steps that is linear in its
\* length: semicolons are not inserted for ever, and every turn of the recovery
\* loop gets closer to the end of the text.
ReturnsInTime == turns <= 8 * (Len(text) + 2)

\* ".. a semicolon is never inserted automatically .. if that semicolon would
\* become one of the two semicolons in the header of a for statement"
\* (stream_impl.go:139-141).
NoSemicolonInForHeader ==
  pc = "accepted" /\ errors = 0 =>
    \A i \in DOMAIN consumed :
      consumed[i].sym = ";" /\ consumed[i].from = consumed[i].to =>
        Last(StackAfter(SubSeq(Symbols, 1, i))) \notin ForSC
=============================================================================
