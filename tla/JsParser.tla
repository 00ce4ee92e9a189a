------------------------------ MODULE JsParser ------------------------------
(***************************************************************************)
(* The hand-written part of the JavaScript parser: the token stream that   *)
(* inserts semicolons and splits `>>` (parsers/js/stream_impl.go), and the *)
(* parsing loop and recovery that know about it (parser_impl.go).          *)
(*                                                                         *)
(* TokenStream.next asks the parser's stack, through reduceAll, whether    *)
(* the token it has in hand would be accepted; while the parser recovers   *)
(* it cannot, and inserts by simpler rules.  A token in front of which a   *)
(* semicolon was put waits in `delayed`.                                   *)
(*                                                                         *)
(* The stack is that of the states.  Ranges of nodes, comments and what    *)
(* the listener hears of them are LRParser.  The text is shorter than the  *)
(* 512 tokens after which parse looks at the context.                      *)
(***************************************************************************)
EXTENDS Integers, SequencesExt, FiniteSetsExt

CONSTANTS
  Texts,          \* BOUND: the texts parsed: sequences of [sym, nl], where nl
                  \* tells that the token starts on a new line
  State, Start, End,
  RuleLen, RuleSymbol,
  Edges, ReduceAlways, ReduceOn, \* the tables of the grammar
  DefGoto,        \* nonterminal -> the goto its column of gotos leaves out
  AfterErr, RecoveryScope,
  EmptyStatement, ForSC, DoWhile, NoLineBreak, \* states marked in the grammar
  RestrictedAfter, \* token -> the next tokens and the states in which a line
                   \* break between the two ends the statement
  RestrictedBefore, \* tokens that no line break may precede
  PostfixTokens    \* tokens that no line break may precede in NoLineBreak states

EOI    == "EOI"
ErrSym == "error"

NoState  == -1
NoSymbol == [sym |-> "none", from |-> 0, to |-> 0]

ASSUME JsAssumption ==
  /\ Start \in State /\ End \in State
  /\ \A e \in Edges : e[3] \in State
  /\ RuleLen \in [DOMAIN RuleLen -> Nat]
  /\ \A r \in DOMAIN RuleLen : DefGoto[RuleSymbol[r]] \in State
  /\ \A q \in DOMAIN ReduceAlways : ReduceAlways[q] \in DOMAIN RuleLen
  /\ \A e \in ReduceOn : e[3] \in DOMAIN RuleLen
  /\ \A e \in Edges : e[1] \intersect DOMAIN ReduceAlways = {}
  /\ \A e \in ReduceOn : e[1] \intersect DOMAIN ReduceAlways = {}
  /\ Texts \subseteq Seq([sym : STRING, nl : BOOLEAN])
  /\ \A t \in Texts : \A i \in DOMAIN t : t[i].sym # EOI

VARIABLES
  text,
  at,         \* what the lexer has read of the text
  lastToken,  \* TokenStream.lastToken
  delayed,    \* TokenStream.delayed
  next,       \* Parser.next
  stack,      \* the states on the parsing stack
  recovering, \* shifts left before errors are reported again
  recovery,   \* the locals of recoverFromError and skipBrokenCode
  errors,     \* number of syntax errors reported
  consumed,   \* history: the symbols shifted or skipped, in order
  turns,      \* history: number of steps made
  pc          \* "start", "parse", "recover", "skip", or how parse returned

vars == << text, at, lastToken, delayed, next, stack, recovering, recovery, errors,
           consumed, turns, pc >>

streamVars == << text, at, lastToken, delayed >>

(***************************************************************************)
(* The tables.                                                             *)
(***************************************************************************)
\* The pairs of a state and a symbol for which there is an entry.
Shiftable == UNION { e[1] \X {e[2]} : e \in Edges }

Transition ==
  [p \in Shiftable |->
     (CHOOSE e \in Edges : p[1] \in e[1] /\ p[2] = e[2])[3]]

Reduction ==
  [p \in UNION { e[1] \X e[2] : e \in ReduceOn } |->
     (CHOOSE e \in ReduceOn : p[1] \in e[1] /\ p[2] \in e[2])[3]]

gotoNT(q, n) ==
  IF << q, n >> \in Shiftable THEN Transition[<< q, n >>] ELSE DefGoto[n]

gotoState(q, t) ==
  IF << q, t >> \in Shiftable THEN Transition[<< q, t >>] ELSE NoState

NeedsLookahead(q) == q \notin DOMAIN ReduceAlways

\* The rule that state q reduces by when t comes next, if it is to reduce.
RuleOn(q, t) == IF ~NeedsLookahead(q) THEN { ReduceAlways[q] }
                ELSE IF << q, t >> \in DOMAIN Reduction THEN { Reduction[<< q, t >>] }
                ELSE {}

Pushed(stk, r) ==
  LET base == SubSeq(stk, 1, Len(stk) - RuleLen[r])
  IN  Append(base, gotoNT(Last(base), RuleSymbol[r]))

\* The stack after the reductions that t triggers.
Reduced(stk, t) ==
  LET run[s \in Seq(State)] ==
        LET rules == IF Last(s) = End THEN {} ELSE RuleOn(Last(s), t)
        IN  IF rules = {} THEN s ELSE run[Pushed(s, CHOOSE r \in rules : TRUE)]
  IN  run[stk]

\* The state in which these reductions end, and whether t is accepted there.
reduceAll(stk, t) ==
  LET q == Last(Reduced(stk, t))
  IN  [state |-> q,
       ok    |-> IF q = End THEN t = EOI ELSE gotoState(q, t) # NoState]

cur == Last(stack)

-----------------------------------------------------------------------------
(***************************************************************************)
(* TokenStream.next.  `stk` is the stack it is given, or <<>> for nil.     *)
(***************************************************************************)
recoveryMode == pc \in {"recover", "skip"}

\* The lexer reads `>>` as one token; it is set back to read `>` if the parser
\* could not use that token.
Lexed(stk) ==
  LET left  == Len(text) - at
      wide  == left >= 2 /\ text[at + 1].sym = ">" /\ text[at + 2] = [sym |-> ">", nl |-> FALSE]
      whole == wide /\ (stk = <<>> \/ reduceAll(stk, ">>").ok)
  IN  CASE left = 0 -> [sym |-> EOI, from |-> at, to |-> at]
        [] left > 0 /\ whole  -> [sym |-> ">>", from |-> at, to |-> at + 2]
        [] left > 0 /\ ~whole -> [sym |-> text[at + 1].sym, from |-> at, to |-> at + 1]

newLine == at < Len(text) /\ text[at + 1].nl

\* A line break between the last token and t that the grammar does not allow,
\* as far as the two tokens and the current state tell.
Restricted(t, q) ==
  /\ newLine
  /\ IF lastToken \in DOMAIN RestrictedAfter
     THEN t \in RestrictedAfter[lastToken].before /\ q \in RestrictedAfter[lastToken].in
     ELSE t \in RestrictedBefore

\* Mutant: the states are looked up before the pending reductions.
Unacceptable_Stale(t, stk) ==
  LET sim == reduceAll(stk, t)
      q   == Last(stk)
  IN  IF sim.ok THEN newLine /\ t \in PostfixTokens /\ q \in NoLineBreak
      ELSE IF t = "}" THEN reduceAll(stk, ";").ok \/ lastToken = "."
      ELSE \/ newLine \/ t = EOI
           \/ lastToken = ")" /\ gotoState(q, ";") \in DoWhile

\* The token t needs a semicolon in front of it, judging by the reductions it
\* would trigger.
Unacceptable(t, stk) ==
  LET sim == reduceAll(stk, t)
  IN  IF sim.ok THEN newLine /\ t \in PostfixTokens /\ sim.state \in NoLineBreak
      ELSE IF t = "}" THEN reduceAll(stk, ";").ok \/ lastToken = "."
      ELSE \/ newLine \/ t = EOI
           \/ lastToken = ")" /\ gotoState(sim.state, ";") \in DoWhile

\* insertSC refuses what would become an empty statement or a semicolon in the
\* header of a for statement.
Forbidden(q) == gotoState(q, ";") \in {EmptyStatement} \union ForSC

\* Mutant: no insertion is refused.
SemicolonBefore(t, stk) ==
  /\ newLine \/ t \in {"}", EOI} \/ lastToken = ")"
  /\ lastToken # ";"
  /\ IF recoveryMode THEN newLine \/ t \in {"}", EOI}
     ELSE \/ Restricted(t, Last(stk)) /\ ~Forbidden(Last(stk))
          \/ /\ ~Restricted(t, Last(stk))
             /\ Unacceptable(t, stk)
             /\ ~Forbidden(reduceAll(stk, t).state)

Semicolon == [sym |-> ";", from |-> at, to |-> at]

\* Mutant: the delayed token is not forgotten when it is handed over.
TakeDelayed_Again ==
  /\ delayed # NoSymbol
  /\ next' = delayed
  /\ UNCHANGED << text, at, lastToken, delayed >>

TakeDelayed ==
  /\ delayed # NoSymbol
  /\ next' = delayed
  /\ delayed' = NoSymbol
  /\ UNCHANGED << text, at, lastToken >>

TakeToken(stk) ==
  /\ delayed = NoSymbol
  /\ LET tok == Lexed(stk)
     IN  /\ at' = tok.to
         /\ lastToken' = tok.sym
         /\ IF SemicolonBefore(tok.sym, stk)
            THEN next' = Semicolon /\ delayed' = tok
            ELSE next' = tok /\ delayed' = NoSymbol
  /\ UNCHANGED text

-----------------------------------------------------------------------------
(***************************************************************************)
(* The parsing loop.  A reduction of an empty range also asks for a token; *)
(* the symbols it reduces end with an inserted semicolon, so that token is *)
(* the delayed one, and when it is taken makes no difference.              *)
(***************************************************************************)
TokenWanted ==
  /\ next = NoSymbol
  /\ \/ pc = "start"
     \/ pc = "parse" /\ cur # End /\ NeedsLookahead(cur)
     \/ pc = "skip"

Init ==
  /\ text \in Texts
  /\ at = 0 /\ lastToken = "none"
  /\ delayed = NoSymbol /\ next = NoSymbol
  /\ stack = << Start >>
  /\ recovering = 0 /\ errors = 0
  /\ recovery = [pos |-> {}, syms |-> {}, scopes |-> <<>>]
  /\ consumed = <<>> /\ turns = 0
  /\ pc = "start"

\* In the middle of skipBrokenCode the stream is not told the stack.
Fetch ==
  /\ turns' = turns + 1
  /\ TokenWanted
  /\ TakeDelayed \/ TakeToken(IF pc = "skip" THEN <<>> ELSE stack)
  /\ pc' = IF pc = "start" THEN "parse" ELSE pc
  /\ UNCHANGED << stack, recovering, recovery, errors, consumed >>

InLoop == pc = "parse" /\ cur # End /\ ~TokenWanted

Reduce ==
  /\ turns' = turns + 1
  /\ InLoop
  /\ \E r \in RuleOn(cur, next.sym) : stack' = Pushed(stack, r)
  /\ UNCHANGED << streamVars, next, recovering, recovery, errors, consumed, pc >>

Shift ==
  /\ turns' = turns + 1
  /\ InLoop /\ gotoState(cur, next.sym) # NoState
  /\ stack' = Append(stack, gotoState(cur, next.sym))
  /\ consumed' = Append(consumed, next)
  /\ next' = IF next.sym = EOI THEN next ELSE NoSymbol
  /\ recovering' = IF recovering > 0 THEN recovering - 1 ELSE 0
  /\ UNCHANGED << streamVars, recovery, errors, pc >>

Erroneous ==
  InLoop /\ RuleOn(cur, next.sym) = {} /\ gotoState(cur, next.sym) = NoState

\* The error is reported unless the parser is still recovering from another
\* one; the handler may stop the parser.
SyntaxError ==
  /\ turns' = turns + 1
  /\ Erroneous
  /\ IF recovering = 0
     THEN errors' = errors + 1 /\ pc' \in {"recover", "failed"}
     ELSE pc' = "recover" /\ UNCHANGED errors
  /\ recovering' = 4
  /\ UNCHANGED << streamVars, next, stack, recovery, consumed >>

Accept ==
  /\ turns' = turns + 1
  /\ pc = "parse" /\ cur = End
  /\ pc' = "accepted"
  /\ UNCHANGED << streamVars, next, stack, recovering, recovery, errors, consumed >>

-----------------------------------------------------------------------------
(***************************************************************************)
(* recoverFromError and skipBrokenCode.                                    *)
(***************************************************************************)
ErrorPositions ==
  LET shiftable == { n \in DOMAIN stack : gotoState(stack[n], ErrSym) # NoState }
  IN  { n \in shiftable : ~ \E m \in shiftable : m > n /\ stack[m] \in RecoveryScope }

StartRecovery ==
  /\ turns' = turns + 1
  /\ pc = "recover"
  /\ IF ErrorPositions = {} THEN pc' = "failed" /\ UNCHANGED recovery
     ELSE /\ recovery' = [pos |-> ErrorPositions, syms |-> AfterErr, scopes |-> <<>>]
          /\ pc' = "skip"
  /\ UNCHANGED << streamVars, next, stack, recovering, errors, consumed >>

\* The open brackets after the bracket t; one that matches none closes all.
Scopes(scopes, t) ==
  LET closing == [b \in {"{", "("} |-> IF b = "{" THEN "}" ELSE ")"]
      same    == { i \in DOMAIN scopes : scopes[i] = t }
  IN  CASE t \in {"{", "("} -> Append(scopes, closing[t])
        [] t \in {"}", ")"} -> SubSeq(scopes, 1, Max(same \union {1}) - 1)
        [] OTHER -> scopes

SkipStops ==
  /\ pc = "skip" /\ next # NoSymbol
  /\ \/ next.sym = EOI
     \/ recovery.scopes = <<>> /\ next.sym \in recovery.syms

SkipToken ==
  /\ turns' = turns + 1
  /\ pc = "skip" /\ next # NoSymbol /\ ~SkipStops
  /\ recovery' = [recovery EXCEPT !.scopes = Scopes(@, next.sym)]
  /\ consumed' = Append(consumed, next)
  /\ next' = NoSymbol
  /\ UNCHANGED << streamVars, stack, recovering, errors, pc >>

\* t is accepted after `error` when the n lowest states stay on the stack.
Fits(n, t) ==
  reduceAll(Append(SubSeq(stack, 1, n), gotoState(stack[n], ErrSym)), t).ok

FitsBehind(n) == delayed # NoSymbol /\ Fits(n, delayed.sym)

Matching == { n \in recovery.pos : Fits(n, next.sym) \/ FitsBehind(n) }

\* Mutant: the token behind the semicolon matches, but is not made the next one.
Recover_StaysInFront ==
  /\ turns' = turns + 1
  /\ SkipStops /\ Matching # {}
  /\ LET n == Max(Matching)
     IN  stack' = Append(SubSeq(stack, 1, n), gotoState(stack[n], ErrSym))
  /\ recovery' = [pos |-> {}, syms |-> {}, scopes |-> <<>>]
  /\ pc' = "parse"
  /\ UNCHANGED << streamVars, next, recovering, errors, consumed >>

\* Put `error` at the topmost position where the token in hand fits or, if
\* that is an inserted semicolon, the token behind it.
Recover ==
  /\ turns' = turns + 1
  /\ SkipStops /\ Matching # {}
  /\ LET n == Max(Matching)
     IN  /\ stack' = Append(SubSeq(stack, 1, n), gotoState(stack[n], ErrSym))
         /\ IF Fits(n, next.sym) THEN UNCHANGED << streamVars, next >> ELSE TakeDelayed
  /\ recovery' = [pos |-> {}, syms |-> {}, scopes |-> <<>>]
  /\ pc' = "parse"
  /\ UNCHANGED << recovering, errors, consumed >>

DropSymbol ==
  /\ turns' = turns + 1
  /\ SkipStops /\ Matching = {} /\ next.sym # EOI
  /\ recovery' = [recovery EXCEPT !.syms = @ \ {next.sym}, !.scopes = <<>>]
  /\ UNCHANGED << streamVars, next, stack, recovering, errors, consumed, pc >>

GiveUp ==
  /\ turns' = turns + 1
  /\ SkipStops /\ Matching = {} /\ next.sym = EOI
  /\ pc' = "failed"
  /\ UNCHANGED << streamVars, next, stack, recovering, recovery, errors, consumed >>

-----------------------------------------------------------------------------
Step == \/ Fetch \/ Reduce \/ Shift \/ SyntaxError \/ Accept
        \/ StartRecovery \/ SkipToken \/ Recover \/ DropSymbol \/ GiveUp

Finished == pc \in {"accepted", "failed"} /\ UNCHANGED vars

Next == Step \/ Finished

Spec == Init /\ [][Next]_vars

-----------------------------------------------------------------------------
\* A symbol is the end of the text t, an inserted semicolon, or what t has in
\* the symbol's range.
OfText(t, s) ==
  \/ s.sym = EOI /\ s.from = Len(t) /\ s.to = s.from
  \/ s.sym = ";" /\ s.to = s.from
  \/ s.to = s.from + 1 /\ s.to \in DOMAIN t /\ s.sym = t[s.to].sym
  \/ s.to = s.from + 2 /\ s.to \in DOMAIN t /\ s.sym = ">>"
       /\ t[s.to - 1].sym = ">" /\ t[s.to].sym = ">"

\* Inserting, delaying, splitting and looking behind a semicolon neither lose,
\* repeat nor reorder a token: what the parser has consumed, what it has in
\* hand and what is delayed cover what the lexer has read, each inserted
\* semicolon right at the end of the token in front of it, and nothing comes
\* after the end of the text.
EveryTokenOnce ==
  LET InHand(s) == IF s = NoSymbol THEN <<>> ELSE << s >>
      all       == consumed \o InHand(next) \o InHand(delayed)
  IN  /\ \A i \in DOMAIN all :
           /\ OfText(text, all[i])
           /\ all[i].from = IF i = 1 THEN 0 ELSE all[i - 1].to
           /\ i > 1 /\ all[i - 1].sym = EOI => all[i].sym = EOI
      /\ at = IF all = <<>> THEN 0 ELSE Last(all).to

\* The token on which recoverFromError stops, be it the one in hand or the one
\* behind an inserted semicolon, is consumed without another syntax error: the
\* reductions that reduceAll tried are those that the loop then makes.
RecoveredTokenIsConsumed == recovering = 4 => ~Erroneous
=============================================================================
