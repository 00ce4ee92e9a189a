--------------------------- MODULE JsParser_proofs ---------------------------
(***************************************************************************)
(* Theorems about JsParser that hold for every grammar's tables, every     *)
(* rule of insertion and every text, with proofs checked by TLAPS.         *)
(***************************************************************************)
EXTENDS JsParser, CommonLemmas, SequenceTheorems

SymbolSet == [sym : STRING \union {"none", EOI, ";", ">>"}, from : Nat, to : Nat]

\* Where the symbols that the parser has consumed end.
Behind(s) == IF s = <<>> THEN 0 ELSE Last(s).to

TokenTypes ==
  /\ text \in Seq([sym : STRING, nl : BOOLEAN])
  /\ \A i \in DOMAIN text : text[i].sym # EOI
  /\ at \in 0 .. Len(text)
  /\ consumed \in Seq(SymbolSet)
  /\ next \in SymbolSet /\ delayed \in SymbolSet

ConsumedInOrder ==
  \A i \in DOMAIN consumed :
    /\ OfText(text, consumed[i])
    /\ consumed[i].from = IF i = 1 THEN 0 ELSE consumed[i - 1].to

\* Once the end of the text is consumed it stays in hand.
EndStays ==
  \A i \in DOMAIN consumed :
    consumed[i].sym = EOI =>
      /\ next.sym = EOI
      /\ i < Len(consumed) => consumed[i + 1].sym = EOI

\* Only an inserted semicolon stands in front of a delayed token.
HandFollows ==
  next # NoSymbol =>
    /\ OfText(text, next) /\ next.from = Behind(consumed)
    /\ delayed # NoSymbol => next.sym = ";" /\ next.from = next.to

DelayedFollows ==
  delayed # NoSymbol =>
    /\ OfText(text, delayed)
    /\ delayed.from = IF next = NoSymbol THEN Behind(consumed) ELSE next.to

LexerStandsBehind ==
  at = IF delayed # NoSymbol THEN delayed.to
       ELSE IF next # NoSymbol THEN next.to ELSE Behind(consumed)

\* EveryTokenOnce, told of the places a token passes through, and what makes it
\* inductive.
TokenInv ==
  /\ TokenTypes /\ ConsumedInOrder /\ EndStays
  /\ HandFollows /\ DelayedFollows /\ LexerStandsBehind

-----------------------------------------------------------------------------
LEMMA SymbolType ==
  ASSUME NEW t \in STRING \union {"none", EOI, ";", ">>"}, NEW m \in Nat, NEW n \in Nat
  PROVE  [sym |-> t, from |-> m, to |-> n] \in SymbolSet
BY DEF SymbolSet

LEMMA BehindAppend ==
  ASSUME NEW s \in Seq(SymbolSet), NEW e
  PROVE  Behind(Append(s, e)) = e.to
BY DEF Behind, Last

LEMMA BehindIsLast ==
  ASSUME NEW s \in Seq(SymbolSet)
  PROVE  /\ Behind(s) \in Nat
         /\ Behind(s) = IF Len(s) + 1 = 1 THEN 0 ELSE s[Len(s) + 1 - 1].to
<1>1. CASE s = <<>>
  BY <1>1 DEF Behind
<1>2. CASE s # <<>>
  <2>1. Len(s) \in Nat \ {0}
    BY <1>2, EmptySeq
  <2>2. s[Len(s)] \in SymbolSet
    BY <2>1, ElementOfSeq
  <2>3. Behind(s) = s[Len(s)].to
    BY <1>2 DEF Behind, Last
  <2>4. s[Len(s)].to \in Nat
    BY <2>2 DEF SymbolSet
  <2>5. Len(s) + 1 # 1 /\ Len(s) + 1 - 1 = Len(s)
    BY <2>1
  <2> QED
    BY <2>3, <2>4, <2>5
<1> QED
  BY <1>1, <1>2

\* A state that reduces without a look at the next token has no transition on
\* tokens, so only a token in hand is ever shifted.
LEMMA ShiftsTakeTokens ==
  ASSUME InLoop, gotoState(cur, next.sym) # NoState
  PROVE  next # NoSymbol
<1>1. << cur, next.sym >> \in Shiftable
  BY DEF gotoState
<1>2. PICK e \in Edges : cur \in e[1]
  BY <1>1 DEF Transition, Shiftable
<1>3. NeedsLookahead(cur)
  BY <1>2, JsAssumption DEF NeedsLookahead
<1> QED
  BY <1>3 DEF InLoop, TokenWanted

LEMMA InitTokens == Init => TokenInv
<1> SUFFICES ASSUME Init PROVE TokenInv
  OBVIOUS
<1>1. consumed = <<>> /\ next = NoSymbol /\ delayed = NoSymbol /\ at = 0
  BY DEF Init
<1>2. text \in Seq([sym : STRING, nl : BOOLEAN]) /\ \A i \in DOMAIN text : text[i].sym # EOI
  BY JsAssumption DEF Init
<1>3. at \in 0 .. Len(text)
  BY <1>1, <1>2, LenProperties
<1>4. NoSymbol \in SymbolSet /\ consumed \in Seq(SymbolSet) /\ DOMAIN consumed = {}
  BY <1>1 DEF NoSymbol, SymbolSet
<1> QED
  BY <1>1, <1>2, <1>3, <1>4
  DEF TokenInv, TokenTypes, ConsumedInOrder, EndStays, HandFollows, DelayedFollows,
      LexerStandsBehind, Behind

-----------------------------------------------------------------------------
\* What the lexer returns is the next of the text.
LEMMA LexedToken ==
  ASSUME TokenInv, NEW stk
  PROVE  /\ Lexed(stk) \in SymbolSet /\ Lexed(stk) # NoSymbol /\ OfText(text, Lexed(stk))
         /\ Lexed(stk).from = at /\ Lexed(stk).to \in at .. Len(text)
<1>1. /\ text \in Seq([sym : STRING, nl : BOOLEAN]) /\ Len(text) \in Nat
      /\ DOMAIN text = 1 .. Len(text) /\ at \in 0 .. Len(text)
  BY LenProperties DEF TokenInv, TokenTypes
<1>2. \A i \in 1 .. Len(text) : text[i] \in [sym : STRING, nl : BOOLEAN]
  BY <1>1, ElementOfSeq
<1> DEFINE left  == Len(text) - at
           wide  == left >= 2 /\ text[at + 1].sym = ">"
                      /\ text[at + 2] = [sym |-> ">", nl |-> FALSE]
           whole == wide /\ (stk = <<>> \/ reduceAll(stk, ">>").ok)
<1>3. CASE at = Len(text)
  <2>1. Lexed(stk) = [sym |-> EOI, from |-> at, to |-> at]
    <3>1. left = 0
      BY <1>1, <1>3
    <3> QED
      BY <3>1 DEF Lexed
  <2>2. at = Len(text) /\ at \in at .. Len(text) /\ at \in Nat
    BY <1>1, <1>3
  <2>3. Lexed(stk) \in SymbolSet /\ Lexed(stk) # NoSymbol
    BY <2>1, <2>2 DEF SymbolSet, NoSymbol, EOI
  <2>4. Lexed(stk).sym = EOI /\ Lexed(stk).from = at /\ Lexed(stk).to = at
    BY <2>1
  <2>5. OfText(text, Lexed(stk))
    BY <2>2, <2>4 DEF OfText
  <2> QED
    BY <2>2, <2>3, <2>4, <2>5
<1>4. CASE left > 0 /\ whole
  <2>1. Lexed(stk) = [sym |-> ">>", from |-> at, to |-> at + 2]
    BY <1>1, <1>4 DEF Lexed
  <2>2. /\ at + 2 \in DOMAIN text /\ (at + 2) - 1 = at + 1
        /\ at + 2 \in at .. Len(text) /\ at \in Nat /\ at + 2 \in Nat
    BY <1>1, <1>4
  <2>3. text[at + 1].sym = ">" /\ text[at + 2].sym = ">"
    BY <1>4
  <2>4. Lexed(stk) \in SymbolSet /\ Lexed(stk) # NoSymbol
    BY <2>1, <2>2 DEF SymbolSet, NoSymbol
  <2>5. Lexed(stk).sym = ">>" /\ Lexed(stk).from = at /\ Lexed(stk).to = at + 2
    BY <2>1
  <2>6. OfText(text, Lexed(stk))
    BY <2>2, <2>3, <2>5 DEF OfText
  <2> QED
    BY <2>2, <2>4, <2>5, <2>6
<1>5. CASE left > 0 /\ ~whole
  <2>1. Lexed(stk) = [sym |-> text[at + 1].sym, from |-> at, to |-> at + 1]
    BY <1>1, <1>5 DEF Lexed
  <2>2. /\ at + 1 \in DOMAIN text /\ at + 1 \in at .. Len(text)
        /\ at \in Nat /\ at + 1 \in Nat /\ at + 1 # 0
    BY <1>1, <1>5
  <2>3. text[at + 1].sym \in STRING
    BY <1>1, <1>2, <2>2
  <2>4. Lexed(stk).sym = text[at + 1].sym /\ Lexed(stk).from = at /\ Lexed(stk).to = at + 1
    BY <2>1
  <2>5. Lexed(stk) \in SymbolSet
    <3>1. text[at + 1].sym \in STRING \union {"none", EOI, ";", ">>"}
      BY <2>3
    <3>2. at \in Nat /\ at + 1 \in Nat
      BY <2>2
    <3> QED
      BY <2>1, <3>1, <3>2, SymbolType
  <2>6. Lexed(stk) # NoSymbol
    BY <2>2, <2>4 DEF NoSymbol
  <2>7. OfText(text, Lexed(stk))
    BY <2>2, <2>4 DEF OfText
  <2> QED
    BY <2>2, <2>4, <2>5, <2>6, <2>7
<1>6. at = Len(text) \/ left > 0
  <2>1. ASSUME NEW m \in Nat, NEW n \in 0 .. m PROVE n = m \/ m - n > 0
    OBVIOUS
  <2> QED
    BY <1>1, <2>1
<1> QED
  BY <1>3, <1>4, <1>5, <1>6

LEMMA TakeDelayedTokens ==
  ASSUME TokenInv, TakeDelayed, next = NoSymbol \/ next.sym # EOI, UNCHANGED consumed
  PROVE  TokenInv'
<1>1. /\ delayed # NoSymbol /\ next' = delayed /\ delayed' = NoSymbol
      /\ UNCHANGED << text, at, consumed >>
  BY DEF TakeDelayed
<1>2. delayed.from = Behind(consumed)
  <2>1. CASE next = NoSymbol
    BY <1>1, <2>1 DEF TokenInv, DelayedFollows
  <2>2. CASE next # NoSymbol
    BY <1>1, <2>2 DEF TokenInv, DelayedFollows, HandFollows
  <2> QED
    BY <2>1, <2>2
<1>3. next.sym # EOI
  BY DEF NoSymbol, EOI
<1>4. NoSymbol \in SymbolSet
  BY DEF NoSymbol, SymbolSet
<1>5. TokenTypes'
  BY <1>1, <1>4 DEF TokenInv, TokenTypes
<1>6. ConsumedInOrder' /\ EndStays'
  <2>1. ConsumedInOrder'
    BY <1>1 DEF TokenInv, ConsumedInOrder
  <2>2. \A i \in DOMAIN consumed : consumed[i].sym # EOI
    BY <1>3 DEF TokenInv, EndStays
  <2>3. EndStays'
    BY <1>1, <2>2 DEF EndStays
  <2> QED
    BY <2>1, <2>3
<1>7. HandFollows' /\ DelayedFollows'
  BY <1>1, <1>2 DEF TokenInv, HandFollows, DelayedFollows
<1>8. LexerStandsBehind'
  BY <1>1 DEF TokenInv, LexerStandsBehind
<1> QED
  BY <1>5, <1>6, <1>7, <1>8 DEF TokenInv

LEMMA TakeTokenTokens ==
  ASSUME TokenInv, NEW stk, TakeToken(stk), next = NoSymbol, UNCHANGED consumed
  PROVE  TokenInv'
<1> DEFINE tok == Lexed(stk)
<1>1. /\ tok \in SymbolSet /\ tok # NoSymbol /\ OfText(text, tok)
      /\ tok.from = at /\ tok.to \in at .. Len(text)
  BY LexedToken
<1>2. /\ delayed = NoSymbol /\ at' = tok.to /\ UNCHANGED << text, consumed >>
      /\ \/ next' = Semicolon /\ delayed' = tok
         \/ next' = tok /\ delayed' = NoSymbol
  BY DEF TakeToken
<1> HIDE DEF tok
<1>3. at = Behind(consumed) /\ at \in 0 .. Len(text) /\ Len(text) \in Nat
  BY <1>2, LenProperties DEF TokenInv, TokenTypes, LexerStandsBehind
<1>4. /\ Semicolon \in SymbolSet /\ Semicolon # NoSymbol
      /\ Semicolon.sym = ";" /\ Semicolon.from = at /\ Semicolon.to = at
  <2>1. at \in Nat
    BY <1>3
  <2> QED
    BY <2>1 DEF Semicolon, NoSymbol, SymbolSet
<1>5. OfText(text, Semicolon)
  BY <1>4 DEF OfText
<1>6. NoSymbol \in SymbolSet /\ next.sym # EOI
  BY DEF NoSymbol, SymbolSet, EOI
<1>7. at' \in 0 .. Len(text)
  BY <1>1, <1>2, <1>3
<1>8. TokenTypes'
  BY <1>1, <1>2, <1>4, <1>6, <1>7 DEF TokenInv, TokenTypes
<1>9. ConsumedInOrder' /\ EndStays'
  BY <1>2, <1>6 DEF TokenInv, ConsumedInOrder, EndStays
<1>10. HandFollows' /\ DelayedFollows'
  <2>2. OfText(text', next') /\ (delayed' # NoSymbol => OfText(text', delayed'))
    BY <1>1, <1>2, <1>5
  <2> QED
    BY <1>1, <1>2, <1>3, <1>4, <2>2 DEF HandFollows, DelayedFollows
<1>11. LexerStandsBehind'
  BY <1>1, <1>2, <1>4 DEF LexerStandsBehind
<1> QED
  BY <1>8, <1>9, <1>10, <1>11 DEF TokenInv

\* A token moves from the parser's hand to what it has consumed.
LEMMA ConsumeTokens ==
  ASSUME TokenInv, next # NoSymbol, consumed' = Append(consumed, next),
         next' = IF next.sym = EOI THEN next ELSE NoSymbol, UNCHANGED streamVars
  PROVE  TokenInv'
<1>1. /\ UNCHANGED << text, at, delayed >>
      /\ consumed \in Seq(SymbolSet) /\ next \in SymbolSet /\ NoSymbol \in SymbolSet
      /\ Len(consumed) \in Nat /\ DOMAIN consumed = 1 .. Len(consumed)
  BY LenProperties DEF TokenInv, TokenTypes, streamVars, NoSymbol, SymbolSet
<1>2. /\ consumed' \in Seq(SymbolSet) /\ DOMAIN consumed' = 1 .. Len(consumed) + 1
      /\ Len(consumed') = Len(consumed) + 1
      /\ \A i \in 1 .. Len(consumed) : consumed'[i] = consumed[i]
      /\ consumed'[Len(consumed) + 1] = next
  BY <1>1, AppendProperties, LenProperties
<1>3. Behind(consumed') = next.to
  BY <1>1, BehindAppend
<1>4. OfText(text, next) /\ next.from = Behind(consumed)
  BY DEF TokenInv, HandFollows
<1>5. TokenTypes'
  BY <1>1, <1>2 DEF TokenInv, TokenTypes
<1>6. ConsumedInOrder'
  <2> SUFFICES ASSUME NEW i \in DOMAIN consumed'
               PROVE  /\ OfText(text', consumed'[i])
                      /\ consumed'[i].from = IF i = 1 THEN 0 ELSE consumed'[i - 1].to
    BY DEF ConsumedInOrder
  <2>1. CASE i \in 1 .. Len(consumed)
    <3>1. OfText(text, consumed[i]) /\ consumed[i].from = IF i = 1 THEN 0 ELSE consumed[i - 1].to
      BY <1>1, <2>1 DEF TokenInv, ConsumedInOrder
    <3>2. consumed'[i] = consumed[i] /\ (i # 1 => consumed'[i - 1] = consumed[i - 1])
      BY <1>1, <1>2, <2>1
    <3> QED
      BY <1>1, <3>1, <3>2
  <2>2. CASE i = Len(consumed) + 1
    <3>1. consumed'[i] = next /\ (i # 1 => consumed'[i - 1] = consumed[i - 1])
      <4>1. i # 1 => i - 1 \in 1 .. Len(consumed)
        BY <1>1, <2>2
      <4> QED
        BY <1>2, <2>2, <4>1
    <3>2. OfText(text', next)
      BY <1>1, <1>4
    <3> QED
      <4>1. next.from = IF i = 1 THEN 0 ELSE consumed[i - 1].to
        BY <1>1, <1>4, <2>2, BehindIsLast
      <4> QED
        BY <3>1, <3>2, <4>1
  <2> QED
    BY <1>1, <1>2, <2>1, <2>2
<1>7. EndStays'
  <2> SUFFICES ASSUME NEW i \in DOMAIN consumed', consumed'[i].sym = EOI
               PROVE  /\ next'.sym = EOI
                      /\ i < Len(consumed') => consumed'[i + 1].sym = EOI
    BY DEF EndStays
  <2>1. next.sym = EOI
    BY <1>1, <1>2 DEF TokenInv, EndStays
  <2>2. ASSUME i < Len(consumed')
        PROVE  consumed'[i + 1].sym = EOI
    <3>1. i \in 1 .. Len(consumed)
      BY <1>1, <1>2, <2>2
    <3>2. CASE i = Len(consumed)
      BY <1>2, <2>1, <3>2
    <3>3. CASE i < Len(consumed)
      <4>1. i + 1 \in 1 .. Len(consumed) /\ consumed[i].sym = EOI
        BY <1>1, <1>2, <3>1, <3>3
      <4> QED
        BY <1>1, <1>2, <3>1, <3>3, <4>1 DEF TokenInv, EndStays
    <3> QED
      BY <1>1, <3>1, <3>2, <3>3
  <2> QED
    BY <2>1, <2>2
<1>8. CASE next.sym = EOI
  <2>1. next' = next /\ delayed' = NoSymbol /\ delayed = NoSymbol
    BY <1>1, <1>8 DEF TokenInv, HandFollows, EOI
  <2>2. next.to = next.from
    <3>1. \A i \in DOMAIN text : text[i].sym # EOI
      BY DEF TokenInv, TokenTypes
    <3> QED
      BY <1>4, <1>8, <3>1 DEF OfText, EOI
  <2>3. HandFollows' /\ DelayedFollows'
    BY <1>1, <1>3, <1>4, <2>1, <2>2 DEF HandFollows, DelayedFollows
  <2>4. LexerStandsBehind'
    BY <1>1, <2>1 DEF TokenInv, LexerStandsBehind
  <2> QED
    BY <1>5, <1>6, <1>7, <2>3, <2>4 DEF TokenInv
<1>9. CASE next.sym # EOI
  <2>1. next' = NoSymbol
    BY <1>9
  <2>2. HandFollows' /\ DelayedFollows'
    BY <1>1, <1>3, <2>1 DEF TokenInv, HandFollows, DelayedFollows
  <2>3. LexerStandsBehind'
    BY <1>1, <1>3, <2>1 DEF TokenInv, LexerStandsBehind
  <2> QED
    BY <1>5, <1>6, <1>7, <2>2, <2>3 DEF TokenInv
<1> QED
  BY <1>8, <1>9

LEMMA NextTokens == TokenInv /\ [Next]_vars => TokenInv'
<1> SUFFICES ASSUME TokenInv, [Next]_vars PROVE TokenInv'
  OBVIOUS
<1>1. CASE UNCHANGED << streamVars, next, consumed >>
  <2>1. UNCHANGED << text, at, delayed, next, consumed >>
    BY <1>1 DEF streamVars
  <2>2. TokenTypes' /\ ConsumedInOrder' /\ EndStays'
    BY <2>1 DEF TokenInv, TokenTypes, ConsumedInOrder, EndStays
  <2>3. HandFollows' /\ DelayedFollows' /\ LexerStandsBehind'
    BY <2>1 DEF TokenInv, HandFollows, DelayedFollows, LexerStandsBehind
  <2> QED
    BY <2>2, <2>3 DEF TokenInv
<1>2. CASE Fetch
  BY <1>2, TakeDelayedTokens, TakeTokenTokens DEF Fetch, TokenWanted
<1>3. CASE Shift
  BY <1>3, ShiftsTakeTokens, ConsumeTokens DEF Shift
<1>4. CASE SkipToken
  BY <1>4, ConsumeTokens DEF SkipToken, SkipStops
<1>5. CASE Recover
  <2>1. CASE TakeDelayed
    <3>1. next # NoSymbol /\ delayed # NoSymbol
      BY <1>5, <2>1 DEF Recover, SkipStops, TakeDelayed
    <3>2. next.sym # EOI
      BY <3>1 DEF TokenInv, HandFollows, EOI
    <3> QED
      BY <1>5, <2>1, <3>2, TakeDelayedTokens DEF Recover
  <2>2. CASE UNCHANGED << streamVars, next >>
    BY <1>1, <1>5, <2>2 DEF Recover
  <2> QED
    BY <1>5, <2>1, <2>2 DEF Recover
<1>6. CASE Reduce
  BY <1>1, <1>6 DEF Reduce
<1>7. CASE SyntaxError
  BY <1>1, <1>7 DEF SyntaxError
<1>8. CASE Accept
  BY <1>1, <1>8 DEF Accept
<1>9. CASE StartRecovery
  BY <1>1, <1>9 DEF StartRecovery
<1>10. CASE DropSymbol
  BY <1>1, <1>10 DEF DropSymbol
<1>11. CASE GiveUp
  BY <1>1, <1>11 DEF GiveUp
<1>12. CASE Finished \/ UNCHANGED vars
  BY <1>1, <1>12 DEF Finished, vars, streamVars
<1> QED
  BY <1>2, <1>3, <1>4, <1>5, <1>6, <1>7, <1>8, <1>9, <1>10, <1>11, <1>12 DEF Next, Step

\* The places of a token in a row.
LEMMA TokensInARow == TokenInv => EveryTokenOnce
<1> SUFFICES ASSUME TokenInv PROVE EveryTokenOnce
  OBVIOUS
<1> DEFINE InHand(s) == IF s = NoSymbol THEN <<>> ELSE << s >>
           some == consumed \o InHand(next)
           all  == some \o InHand(delayed)
<1>1. /\ consumed \in Seq(SymbolSet) /\ Len(consumed) \in Nat
      /\ DOMAIN consumed = 1 .. Len(consumed)
      /\ next \in SymbolSet /\ delayed \in SymbolSet
  BY LenProperties DEF TokenInv, TokenTypes
<1> DEFINE Row(s) ==
      /\ s \in Seq(SymbolSet)
      /\ \A i \in DOMAIN s :
           /\ OfText(text, s[i])
           /\ s[i].from = IF i = 1 THEN 0 ELSE s[i - 1].to
           /\ i > 1 /\ s[i - 1].sym = EOI => s[i].sym = EOI
           
           NoEnd(s) == \A i \in DOMAIN s : s[i].sym # EOI
<1>2. Row(consumed)
  <2> SUFFICES ASSUME NEW i \in DOMAIN consumed
               PROVE  /\ OfText(text, consumed[i])
                      /\ consumed[i].from = IF i = 1 THEN 0 ELSE consumed[i - 1].to
                      /\ i > 1 /\ consumed[i - 1].sym = EOI => consumed[i].sym = EOI
    BY <1>1
  <2>1. OfText(text, consumed[i]) /\ consumed[i].from = IF i = 1 THEN 0 ELSE consumed[i - 1].to
    BY DEF TokenInv, ConsumedInOrder
  <2>2. ASSUME i > 1, consumed[i - 1].sym = EOI
        PROVE  consumed[i].sym = EOI
    <3>1. i - 1 \in DOMAIN consumed /\ i - 1 < Len(consumed) /\ (i - 1) + 1 = i
      BY <1>1, <2>2
    <3> QED
      BY <2>2, <3>1 DEF TokenInv, EndStays
  <2> QED
    BY <2>1, <2>2
<1>3. ASSUME NEW s, NEW e \in SymbolSet, Row(s), e.from = Behind(s), OfText(text, e),
             NoEnd(s) \/ e.sym = EOI
      PROVE  /\ s \o << e >> = Append(s, e)
             /\ Row(Append(s, e)) /\ Behind(Append(s, e)) = e.to
             /\ NoEnd(s) /\ e.sym # EOI => NoEnd(Append(s, e))
  <2> DEFINE t == Append(s, e)
  <2>1. s \in Seq(SymbolSet) /\ Len(s) \in Nat /\ DOMAIN s = 1 .. Len(s)
    BY <1>3, LenProperties
  <2>2. /\ t \in Seq(SymbolSet) /\ DOMAIN t = 1 .. Len(s) + 1
        /\ \A i \in 1 .. Len(s) : t[i] = s[i]
        /\ t[Len(s) + 1] = e
    BY <2>1, AppendProperties, LenProperties
  <2>3. e.from = IF Len(s) + 1 = 1 THEN 0 ELSE s[Len(s) + 1 - 1].to
    BY <1>3, <2>1, BehindIsLast
  <2>4. s \o << e >> = t /\ Behind(t) = e.to
    BY <2>1, AppendIsConcat, BehindAppend
  <2> HIDE DEF t
  <2>5. ASSUME NEW i \in DOMAIN t
        PROVE  /\ OfText(text, t[i])
               /\ t[i].from = IF i = 1 THEN 0 ELSE t[i - 1].to
               /\ i > 1 /\ t[i - 1].sym = EOI => t[i].sym = EOI
    <3>1. CASE i \in 1 .. Len(s)
      <4>1. t[i] = s[i] /\ (i > 1 => i - 1 \in 1 .. Len(s) /\ t[i - 1] = s[i - 1]) /\ i >= 1
        BY <2>1, <2>2, <3>1
      <4> QED
        BY <1>3, <2>1, <3>1, <4>1
    <3>2. CASE i = Len(s) + 1
      <4>1. t[i] = e /\ (i > 1 => i - 1 \in 1 .. Len(s) /\ t[i - 1] = s[i - 1]) /\ i >= 1
        BY <2>1, <2>2, <3>2
      <4> QED
        BY <1>3, <2>1, <2>3, <3>2, <4>1
    <3> QED
      BY <2>1, <2>2, <3>1, <3>2
  <2>6. NoEnd(s) /\ e.sym # EOI => NoEnd(t)
    BY <2>1, <2>2
  <2> QED
    BY <2>2, <2>4, <2>5, <2>6 DEF t
<1> HIDE DEF Row, NoEnd
<1>4. /\ Row(some) /\ (delayed # NoSymbol => NoEnd(some))
      /\ Behind(some) = IF next = NoSymbol THEN Behind(consumed) ELSE next.to
  <2>1. next.sym # EOI => NoEnd(consumed)
    BY DEF TokenInv, EndStays, NoEnd
  <2>2. CASE next = NoSymbol
    <3>1. some = consumed
      BY <1>1, <2>2, ConcatEmptySeq
    <3> QED
      BY <1>2, <2>1, <2>2, <3>1 DEF NoSymbol, EOI
  <2>3. CASE next # NoSymbol
    <3>1. /\ next.from = Behind(consumed) /\ OfText(text, next)
          /\ delayed # NoSymbol => next.sym = ";"
      BY <2>3 DEF TokenInv, HandFollows
    <3> QED
      BY <1>1, <1>2, <1>3, <2>1, <2>3, <3>1 DEF EOI
  <2> QED
    BY <2>2, <2>3
<1>5. Row(all) /\ at = Behind(all)
  <2>1. CASE delayed = NoSymbol
    <3>1. all = some
      BY <1>4, <2>1, ConcatEmptySeq DEF Row
    <3> QED
      BY <1>4, <2>1, <3>1 DEF TokenInv, LexerStandsBehind
  <2>2. CASE delayed # NoSymbol
    <3>1. delayed.from = Behind(some) /\ OfText(text, delayed) /\ at = delayed.to
      BY <1>4, <2>2 DEF TokenInv, DelayedFollows, LexerStandsBehind
    <3> HIDE DEF some
    <3>2. all = Append(some, delayed) /\ Row(Append(some, delayed))
          /\ Behind(Append(some, delayed)) = delayed.to
      BY <1>1, <1>3, <1>4, <2>2, <3>1
    <3> QED
      BY <3>1, <3>2
  <2> QED
    BY <2>1, <2>2
<1> QED
  BY <1>5 DEF EveryTokenOnce, Row, Behind

\* The parser consumes every token of the text once and in order, whatever the
\* grammar's tables, the rules of insertion and the errors in the text are.
THEOREM TokensConsumedOnce == Spec => []EveryTokenOnce
<1>1. Spec => []TokenInv
  BY InitTokens, NextTokens, PTL DEF Spec
<1> QED
  BY <1>1, TokensInARow, PTL

-----------------------------------------------------------------------------
(***************************************************************************)
(* After a recovery the loop makes the reductions that reduceAll tried.    *)
(***************************************************************************)
LEMMA GotoType ==
  ASSUME NEW q, NEW t, gotoState(q, t) # NoState
  PROVE  gotoState(q, t) \in State
<1>1. << q, t >> \in Shiftable /\ gotoState(q, t) = Transition[<< q, t >>]
  BY DEF gotoState
<1>2. \E e \in Edges : q \in e[1] /\ t = e[2]
  BY <1>1 DEF Transition, Shiftable
<1> DEFINE e == CHOOSE e \in Edges : q \in e[1] /\ t = e[2]
<1>3. e \in Edges
  BY <1>2
<1>4. Transition[<< q, t >>] = e[3]
  BY <1>1 DEF Transition, Shiftable
<1> QED
  BY <1>1, <1>3, <1>4, JsAssumption

LEMMA GotoNTType ==
  ASSUME NEW q, NEW r \in DOMAIN RuleLen
  PROVE  gotoNT(q, RuleSymbol[r]) \in State
<1> DEFINE t == RuleSymbol[r]
<1>1. CASE << q, t >> \in Shiftable
  <2>1. \E e \in Edges : q \in e[1] /\ t = e[2]
    BY <1>1 DEF Transition, Shiftable
  <2> DEFINE e == CHOOSE e \in Edges : q \in e[1] /\ t = e[2]
  <2>2. e \in Edges
    BY <2>1
  <2>3. Transition[<< q, t >>] = e[3]
    BY <1>1 DEF Transition, Shiftable
  <2> QED
    BY <1>1, <2>2, <2>3, JsAssumption DEF gotoNT
<1>2. CASE << q, t >> \notin Shiftable
  BY <1>2, JsAssumption DEF gotoNT
<1> QED
  BY <1>1, <1>2

LEMMA RuleOnType ==
  ASSUME NEW q, NEW t, NEW r \in RuleOn(q, t)
  PROVE  r \in DOMAIN RuleLen /\ RuleOn(q, t) = {r}
<1>1. CASE ~NeedsLookahead(q)
  <2>1. q \in DOMAIN ReduceAlways /\ RuleOn(q, t) = {ReduceAlways[q]}
    BY <1>1 DEF RuleOn, NeedsLookahead
  <2> QED
    BY <2>1, JsAssumption
<1>2. CASE NeedsLookahead(q)
  <2>1. << q, t >> \in DOMAIN Reduction /\ RuleOn(q, t) = {Reduction[<< q, t >>]}
    BY <1>2 DEF RuleOn
  <2>2. \E e \in ReduceOn : q \in e[1] /\ t \in e[2]
    BY <2>1 DEF Reduction
  <2> DEFINE e == CHOOSE e \in ReduceOn : q \in e[1] /\ t \in e[2]
  <2>3. e \in ReduceOn
    BY <2>2
  <2>4. Reduction[<< q, t >>] = e[3]
    BY <2>1 DEF Reduction
  <2> QED
    BY <2>1, <2>3, <2>4, JsAssumption
<1> QED
  BY <1>1, <1>2

LEMMA PushedType ==
  ASSUME NEW s \in Seq(State), NEW r \in DOMAIN RuleLen
  PROVE  Pushed(s, r) \in Seq(State)
<1> DEFINE base == SubSeq(s, 1, Len(s) - RuleLen[r])
           q == gotoNT(Last(base), RuleSymbol[r])
<1>1. base \in Seq(State)
  <2>1. RuleLen[r] \in Nat /\ Len(s) \in Nat
    BY JsAssumption
  <2>2. Len(s) - RuleLen[r] \in Int /\ Len(s) - RuleLen[r] <= Len(s)
    BY <2>1
  <2> QED
    BY <2>1, <2>2
<1>2. q \in State
  BY GotoNTType
<1>3. Pushed(s, r) = Append(base, q)
  BY DEF Pushed
<1> HIDE DEF base, q
<1> QED
  BY <1>1, <1>2, <1>3

\* reduceAll takes one reduction after the other, also where they do not end.
LEMMA ReducedUnfolds ==
  ASSUME NEW s \in Seq(State), NEW t
  PROVE  /\ Last(s) = End \/ RuleOn(Last(s), t) = {} => Reduced(s, t) = s
         /\ Last(s) # End => \A r \in RuleOn(Last(s), t) : Reduced(s, t) = Reduced(Pushed(s, r), t)
<1> DEFINE Rules(x) == IF Last(x) = End THEN {} ELSE RuleOn(Last(x), t)
           Turn(x)  == Pushed(x, CHOOSE r \in Rules(x) : TRUE)
           IsRun(f) == f = [x \in Seq(State) |-> IF Rules(x) = {} THEN x ELSE f[Turn(x)]]
           stop == { x \in Seq(State) : Rules(x) = {} }
           nx   == [x \in Seq(State) |-> IF Rules(x) = {} THEN x ELSE Turn(x)]
           val  == [x \in Seq(State) |-> x]
<1>1. ASSUME NEW x \in Seq(State), NEW r \in Rules(x)
      PROVE  /\ Turn(x) = Pushed(x, r) /\ Turn(x) \in Seq(State)
             /\ Last(x) # End
  <2>1. Last(x) # End /\ r \in RuleOn(Last(x), t)
    BY <1>1
  <2>2. Rules(x) = {r} /\ r \in DOMAIN RuleLen
    BY <2>1, RuleOnType
  <2>3. (CHOOSE e \in Rules(x) : TRUE) = r
    <3> HIDE DEF Rules
    <3> QED
      BY <2>2
  <2> QED
    BY <2>1, <2>2, <2>3, PushedType
<1>2. nx \in [Seq(State) -> Seq(State)]
  <2> HIDE DEF Rules, Turn
  <2> QED
    BY <1>1
<1>3. PICK f : IsLoop(f, Seq(State), stop, nx, val)
  <2> HIDE DEF stop, nx, val
  <2> QED
    BY <1>2, LoopExists
<1>4. f = [x \in Seq(State) |-> IF x \in stop THEN val[x] ELSE f[nx[x]]]
  BY <1>3 DEF IsLoop
<1>5. ASSUME NEW x \in Seq(State)
      PROVE  (IF x \in stop THEN val[x] ELSE f[nx[x]])
               = IF Rules(x) = {} THEN x ELSE f[Turn(x)]
  <2> HIDE DEF Rules, Turn
  <2> QED
    OBVIOUS
<1> HIDE DEF stop, nx, val
<1>6. IsRun(f)
  <2> HIDE DEF Rules, Turn
  <2> QED
    BY <1>4, <1>5
<1> DEFINE run == CHOOSE g : IsRun(g)
<1>7. \A x : Reduced(x, t) = run[x]
  BY DEF Reduced
<1>8. IsRun(run)
  <2> HIDE DEF IsRun
  <2> QED
    BY <1>6
<1> HIDE DEF run
<1>9. \A x \in Seq(State) : run[x] = IF Rules(x) = {} THEN x ELSE run[Turn(x)]
  <2> HIDE DEF Rules, Turn
  <2> QED
    BY <1>8
<1>10. ASSUME Last(s) = End \/ RuleOn(Last(s), t) = {}
       PROVE  Reduced(s, t) = s
  <2>1. Rules(s) = {}
    BY <1>10
  <2> HIDE DEF Rules, Turn
  <2> QED
    BY <1>7, <1>9, <2>1
<1>11. ASSUME Last(s) # End, NEW r \in RuleOn(Last(s), t)
       PROVE  Reduced(s, t) = Reduced(Pushed(s, r), t)
  <2>1. r \in Rules(s)
    BY <1>11
  <2>2. Turn(s) = Pushed(s, r)
    BY <1>1, <2>1
  <2> HIDE DEF Rules, Turn
  <2> QED
    BY <1>7, <1>9, <2>1, <2>2
<1> QED
  BY <1>10, <1>11

\* While the counter is at four and the parser runs, it has the token in hand on
\* which the recovery stopped, and that token is accepted from its stack.
RecoveredFits ==
  pc = "parse" /\ recovering = 4 => next # NoSymbol /\ reduceAll(stack, next.sym).ok

RecoveryInv ==
  /\ stack \in Seq(State)
  /\ recovering \in 0 .. 4
  /\ pc = "start" => recovering = 0
  /\ pc = "skip" => recovery.pos \subseteq { n \in DOMAIN stack : gotoState(stack[n], ErrSym) # NoState }
  /\ RecoveredFits

LEMMA InitRecovery == Init => RecoveryInv
<1> SUFFICES ASSUME Init
             PROVE  RecoveryInv
  OBVIOUS
<1>1. stack = << Start >> /\ recovering = 0 /\ pc = "start"
  BY DEF Init
<1>2. stack \in Seq(State)
  BY <1>1, JsAssumption
<1> QED
  BY <1>1, <1>2 DEF RecoveryInv, RecoveredFits

LEMMA ReduceRecovery == RecoveryInv /\ Reduce => RecoveryInv'
<1> SUFFICES ASSUME RecoveryInv, Reduce
             PROVE  RecoveryInv'
  OBVIOUS
<1>1. /\ pc = "parse" /\ pc' = "parse" /\ recovering' = recovering /\ next' = next
      /\ Last(stack) # End
  BY DEF Reduce, InLoop, cur
<1>2. PICK r \in RuleOn(Last(stack), next.sym) : stack' = Pushed(stack, r)
  BY DEF Reduce, cur
<1>3. stack \in Seq(State) /\ r \in DOMAIN RuleLen
  BY RuleOnType DEF RecoveryInv
<1>4. stack' \in Seq(State)
  BY <1>2, <1>3, PushedType
<1>5. Reduced(stack', next.sym) = Reduced(stack, next.sym)
  BY <1>1, <1>2, <1>3, ReducedUnfolds
<1>6. reduceAll(stack', next.sym) = reduceAll(stack, next.sym)
  BY <1>5 DEF reduceAll
<1>7. RecoveredFits'
  BY <1>1, <1>6 DEF RecoveryInv, RecoveredFits
<1> QED
  BY <1>1, <1>4, <1>7 DEF RecoveryInv

LEMMA ShiftRecovery == RecoveryInv /\ Shift => RecoveryInv'
<1> SUFFICES ASSUME RecoveryInv, Shift
             PROVE  RecoveryInv'
  OBVIOUS
<1> DEFINE q == gotoState(cur, next.sym)
<1>1. /\ pc = "parse" /\ pc' = "parse" /\ q # NoState /\ stack' = Append(stack, q)
      /\ recovering' = IF recovering > 0 THEN recovering - 1 ELSE 0
  BY DEF Shift, InLoop
<1>2. q \in State
  BY <1>1, GotoType
<1> HIDE DEF q
<1>3. stack' \in Seq(State)
  BY <1>1, <1>2 DEF RecoveryInv
<1>4. recovering' \in 0 .. 4 /\ recovering' # 4
  BY <1>1 DEF RecoveryInv
<1> QED
  BY <1>1, <1>3, <1>4 DEF RecoveryInv, RecoveredFits

LEMMA RecoverRecovery == RecoveryInv /\ Recover => RecoveryInv'
<1> SUFFICES ASSUME RecoveryInv, Recover
             PROVE  RecoveryInv'
  OBVIOUS
<1> DEFINE n == Max(Matching)
           s == Append(SubSeq(stack, 1, n), gotoState(stack[n], ErrSym))
<1>1. /\ pc = "skip" /\ pc' = "parse" /\ next # NoSymbol /\ Matching # {}
      /\ stack' = s /\ recovering' = recovering
      /\ IF Fits(n, next.sym) THEN next' = next ELSE TakeDelayed
  BY DEF Recover, SkipStops
<1>2. stack \in Seq(State) /\ Len(stack) \in Nat /\ DOMAIN stack = 1 .. Len(stack)
  BY DEF RecoveryInv
<1>3. n \in Matching
  <2>1. Matching \in SUBSET (0 .. Len(stack))
    BY <1>1, <1>2 DEF Matching, RecoveryInv
  <2> QED
    BY <1>1, <1>2, <2>1, MaxOfSet
<1> HIDE DEF n
<1>4. /\ n \in 1 .. Len(stack) /\ gotoState(stack[n], ErrSym) # NoState
      /\ Fits(n, next.sym) \/ FitsBehind(n)
  BY <1>1, <1>2, <1>3 DEF Matching, RecoveryInv
<1>5. stack' \in Seq(State)
  <2>1. gotoState(stack[n], ErrSym) \in State
    BY <1>4, GotoType
  <2>2. SubSeq(stack, 1, n) \in Seq(State)
    BY <1>2, <1>4
  <2> QED
    BY <1>1, <2>1, <2>2
<1>6. next' # NoSymbol /\ Fits(n, next'.sym)
  BY <1>1, <1>4 DEF FitsBehind, TakeDelayed
<1>7. reduceAll(stack', next'.sym).ok
  BY <1>1, <1>6 DEF Fits
<1>8. RecoveredFits'
  BY <1>6, <1>7 DEF RecoveredFits
<1> QED
  BY <1>1, <1>5, <1>8 DEF RecoveryInv

LEMMA NextRecovery == RecoveryInv /\ [Next]_vars => RecoveryInv'
<1> SUFFICES ASSUME RecoveryInv, [Next]_vars
             PROVE  RecoveryInv'
  OBVIOUS
<1>1. CASE Fetch
  <2>1. /\ UNCHANGED << stack, recovering, recovery >>
        /\ pc' = IF pc = "start" THEN "parse" ELSE pc
        /\ next = NoSymbol
    BY <1>1 DEF Fetch, TokenWanted
  <2>2. pc' = "parse" => recovering # 4
    BY <2>1 DEF RecoveryInv, RecoveredFits
  <2> QED
    BY <2>1, <2>2 DEF RecoveryInv, RecoveredFits
<1>2. CASE SyntaxError
  BY <1>2 DEF SyntaxError, RecoveryInv, RecoveredFits
<1>3. CASE Accept
  BY <1>3 DEF Accept, RecoveryInv, RecoveredFits
<1>4. CASE StartRecovery
  BY <1>4 DEF StartRecovery, ErrorPositions, RecoveryInv, RecoveredFits
<1>5. CASE SkipToken
  BY <1>5 DEF SkipToken, RecoveryInv, RecoveredFits
<1>6. CASE DropSymbol
  BY <1>6 DEF DropSymbol, SkipStops, RecoveryInv, RecoveredFits
<1>7. CASE GiveUp
  BY <1>7 DEF GiveUp, RecoveryInv, RecoveredFits
<1>8. CASE UNCHANGED vars
  BY <1>8 DEF vars, RecoveryInv, RecoveredFits
<1> QED
  BY <1>1, <1>2, <1>3, <1>4, <1>5, <1>6, <1>7, <1>8, ReduceRecovery, ShiftRecovery,
     RecoverRecovery DEF Next, Step, Finished

\* Where the recovery put `error` the token it chose is accepted: the token in
\* hand, or the one behind an inserted semicolon that is then taken instead.  No
\* error is met before that token is shifted, whatever the tables are.
THEOREM RecoveredTokenConsumed == Spec => []RecoveredTokenIsConsumed
<1>1. Spec => []RecoveryInv
  BY InitRecovery, NextRecovery, PTL DEF Spec
<1>2. RecoveryInv => RecoveredTokenIsConsumed
  <2> SUFFICES ASSUME RecoveryInv, recovering = 4, Erroneous
               PROVE  FALSE
    BY DEF RecoveredTokenIsConsumed
  <2>1. /\ pc = "parse" /\ Last(stack) # End /\ RuleOn(Last(stack), next.sym) = {}
        /\ gotoState(Last(stack), next.sym) = NoState
    BY DEF Erroneous, InLoop, cur
  <2>2. reduceAll(stack, next.sym).ok
    BY <2>1 DEF RecoveryInv, RecoveredFits
  <2>3. Reduced(stack, next.sym) = stack
    BY <2>1, ReducedUnfolds DEF RecoveryInv
  <2> QED
    BY <2>1, <2>2, <2>3 DEF reduceAll
<1> QED
  BY <1>1, <1>2, PTL
=============================================================================
