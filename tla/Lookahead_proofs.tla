--------------------------- MODULE Lookahead_proofs ---------------------------
(***************************************************************************)
(* The cache of lookaheads changes no answer, for all tables, texts, sizes *)
(* of the cache and hash functions.                                        *)
(*                                                                         *)
(* The standard to compare with is a parser without a cache, given as a    *)
(* relation between a loop and the answer it ends with: a loop that has    *)
(* ended answers whether it is in its end state, a loop that can go on     *)
(* answers what it answers afterwards, and one that needs a lookahead goes *)
(* on by what the loop of that lookahead answers.                          *)
(***************************************************************************)
EXTENDS Lookahead, CommonLemmas

Tokens(t) == { NextToken(t, at) : at \in 0 .. Len(t) }

Loops(t) ==
  [nested : BOOLEAN,
   end    : {End} \union { LookaheadRule[r].end : r \in DOMAIN LookaheadRule },
   next   : Tokens(t) \union {NoToken},
   at     : 0 .. Len(t),
   stack  : Seq(State \union {NoState})]

\* What the loop l answers, when E holds the answers of the loops it turns into
\* and of the lookaheads it asks for.
Follows(t, E, l, v) ==
  \/ Ended(t, l) /\ v = Matches(l)
  \/ Wants(l) /\ << Fetched(t, l), v >> \in E
  \/ Acts(t, l, Shift) /\ << Shifted(l), v >> \in E
  \/ \E r \in DOMAIN RuleLen \ DOMAIN LookaheadRule :
       Acts(t, l, Reduce(r)) /\ << Reduced(l, RuleLen[r], RuleSymbol[r]), v >> \in E
  \/ \E r \in DOMAIN LookaheadRule, a \in BOOLEAN :
       /\ Acts(t, l, Reduce(r))
       /\ << AskedLoop(r, FirstToken(t, l)), a >> \in E
       /\ << Reduced(l, 0, Chosen(r, a)), v >> \in E

ClosedUnderSteps(t, E) ==
  \A l \in Loops(t), v \in BOOLEAN : Follows(t, E, l, v) => << l, v >> \in E

\* The smallest such relation: without a cache, l answers v.
Answers(t, l, v) ==
  \A E \in SUBSET (Loops(t) \X BOOLEAN) : ClosedUnderSteps(t, E) => << l, v >> \in E

\* "A miss only costs time, never correctness" (parser.go:69-71): what parse
\* returns is what it would return without a cache.
AnswersWithoutCache ==
  pc \in {"accepted", "failed"} => Answers(text, ParseLoop(text), pc = "accepted")

\* An answer in the cache is the answer of every lookahead that has its key,
\* whichever rule asks for it.
CacheTruthful ==
  \A s \in DOMAIN cache :
    /\ cache[s].value \in BOOLEAN
    /\ \A r \in DOMAIN LookaheadRule, tok \in Tokens(text) :
         cache[s].key = Key(tok, r) =>
           Answers(text, AskedLoop(r, tok), cache[s].value)

-----------------------------------------------------------------------------
(***************************************************************************)
(* The lexer, and the loops.                                               *)
(***************************************************************************)
LEMMA TokenIsThatAtItsOffset ==
  ASSUME NEW t \in Texts, NEW at \in 0 .. Len(t)
  PROVE  /\ NextToken(t, at).off \in 0 .. Len(t)
         /\ NextToken(t, at).at \in 0 .. Len(t)
         /\ NextToken(t, at) =
              IF NextToken(t, at).off = Len(t)
                THEN [sym |-> EOI, off |-> Len(t), at |-> Len(t)]
                ELSE [sym |-> t[NextToken(t, at).off + 1],
                      off |-> NextToken(t, at).off, at |-> NextToken(t, at).off + 1]
<1> DEFINE left == { j \in at + 1 .. Len(t) : t[j] \notin Ignored }
           first == Min(left)
<1>1. Len(t) \in Nat
  BY LookaheadAssumption
<1>2. CASE left = {}
  <2>1. NextToken(t, at) = [sym |-> EOI, off |-> Len(t), at |-> Len(t)]
    BY <1>2 DEF NextToken
  <2> QED
    BY <1>1, <2>1
<1>3. CASE left # {}
  <2>1. left \in SUBSET Nat /\ left \subseteq at + 1 .. Len(t)
    BY <1>1
  <2>2. first \in left
    <3> HIDE DEF left
    <3> QED
      BY <1>3, <2>1, MinOfSet
  <2>3. first \in at + 1 .. Len(t)
    BY <2>2
  <2>4. NextToken(t, at) = [sym |-> t[first], off |-> first - 1, at |-> first]
    BY <1>3 DEF NextToken
  <2> HIDE DEF first
  <2>5. first - 1 + 1 = first /\ first - 1 # Len(t) /\ first - 1 \in 0 .. Len(t)
        /\ first \in 0 .. Len(t)
    BY <1>1, <2>3
  <2> QED
    BY <2>4, <2>5
<1> QED
  BY <1>2, <1>3

LEMMA TokensByOffset ==
  ASSUME NEW t \in Texts, NEW x \in Tokens(t), NEW y \in Tokens(t), x.off = y.off
  PROVE  x = y
<1>1. PICK i \in 0 .. Len(t) : x = NextToken(t, i)
  BY DEF Tokens
<1>2. PICK j \in 0 .. Len(t) : y = NextToken(t, j)
  BY DEF Tokens
<1> QED
  BY <1>1, <1>2, TokenIsThatAtItsOffset

LEMMA NextTokenIsToken ==
  ASSUME NEW t \in Texts, NEW at \in 0 .. Len(t)
  PROVE  NextToken(t, at) \in Tokens(t) /\ NextToken(t, at).at \in 0 .. Len(t)
BY TokenIsThatAtItsOffset DEF Tokens

LEMMA TokenPlace ==
  ASSUME NEW t \in Texts, NEW tok \in Tokens(t)
  PROVE  tok.at \in 0 .. Len(t)
BY NextTokenIsToken DEF Tokens

LEMMA FirstTokenIsToken ==
  ASSUME NEW t \in Texts, NEW l \in Loops(t)
  PROVE  FirstToken(t, l) \in Tokens(t)
BY NextTokenIsToken DEF FirstToken, Loops

LEMMA GotoType ==
  ASSUME NEW q, NEW s
  PROVE  gotoState(q, s) \in State \union {NoState}
BY LookaheadAssumption DEF gotoState

LEMMA AskedLoopType ==
  ASSUME NEW t \in Texts, NEW r \in DOMAIN LookaheadRule, NEW tok \in Tokens(t)
  PROVE  AskedLoop(r, tok) \in Loops(t)
BY LookaheadAssumption, TokenPlace DEF AskedLoop, Loop, Loops

LEMMA ParseLoopType ==
  ASSUME NEW t \in Texts
  PROVE  ParseLoop(t) \in Loops(t)
<1>1. 0 \in 0 .. Len(t)
  BY LookaheadAssumption
<1>2. NextToken(t, 0) \in Tokens(t) /\ NextToken(t, 0).at \in 0 .. Len(t)
  BY <1>1, NextTokenIsToken
<1> QED
  BY <1>2, LookaheadAssumption DEF ParseLoop, Loop, Loops

LEMMA FetchedType ==
  ASSUME NEW t \in Texts, NEW l \in Loops(t)
  PROVE  Fetched(t, l) \in Loops(t)
<1>1. NextToken(t, l.at) \in Tokens(t) /\ NextToken(t, l.at).at \in 0 .. Len(t)
  BY NextTokenIsToken DEF Loops
<1> QED
  BY <1>1 DEF Fetched, Loops

LEMMA ShiftedType ==
  ASSUME NEW t \in Texts, NEW l \in Loops(t)
  PROVE  Shifted(l) \in Loops(t)
<1> DEFINE q == gotoState(cur(l), l.next.sym)
<1>1. q \in State \union {NoState}
  BY GotoType
<1> HIDE DEF q
<1>2. Append(l.stack, q) \in Seq(State \union {NoState})
  BY <1>1 DEF Loops
<1>3. Shifted(l) = [l EXCEPT !.stack = Append(l.stack, q),
                             !.next = IF q = NoState \/ l.next.sym = EOI THEN l.next ELSE NoToken]
  BY DEF Shifted, q
<1> QED
  BY <1>2, <1>3 DEF Loops

LEMMA ReducedType ==
  ASSUME NEW t \in Texts, NEW l \in Loops(t), NEW n \in Nat, NEW s
  PROVE  Reduced(l, n, s) \in Loops(t)
<1> DEFINE base == SubSeq(l.stack, 1, Len(l.stack) - n)
           q == gotoState(Last(base), s)
<1>1. q \in State \union {NoState}
  BY GotoType
<1>2. base \in Seq(State \union {NoState})
  <2>1. l.stack \in Seq(State \union {NoState}) /\ Len(l.stack) - n \in Int
        /\ Len(l.stack) - n <= Len(l.stack) /\ Len(l.stack) \in Nat
    BY DEF Loops
  <2> QED
    BY <2>1
<1>3. Reduced(l, n, s) = [l EXCEPT !.stack = Append(base, q)]
  BY DEF Reduced
<1> HIDE DEF base, q
<1>4. Append(base, q) \in Seq(State \union {NoState})
  BY <1>1, <1>2
<1> QED
  BY <1>3, <1>4 DEF Loops

-----------------------------------------------------------------------------
(***************************************************************************)
(* The answers without a cache: the relation is closed, every pair in it   *)
(* has a reason in it, and no loop has two answers.                        *)
(***************************************************************************)
AllAnswers(t) == { p \in Loops(t) \X BOOLEAN : Answers(t, p[1], p[2]) }

LEMMA InAllAnswers ==
  ASSUME NEW t, NEW l \in Loops(t), NEW v \in BOOLEAN
  PROVE  << l, v >> \in AllAnswers(t) <=> Answers(t, l, v)
BY DEF AllAnswers

LEMMA FollowsMonotone ==
  ASSUME NEW t, NEW D, NEW E, D \subseteq E, NEW l, NEW v, Follows(t, D, l, v)
  PROVE  Follows(t, E, l, v)
BY DEF Follows

LEMMA AnswersClosed ==
  ASSUME NEW t
  PROVE  ClosedUnderSteps(t, AllAnswers(t))
<1> SUFFICES ASSUME NEW l \in Loops(t), NEW v \in BOOLEAN, Follows(t, AllAnswers(t), l, v)
             PROVE  Answers(t, l, v)
  BY InAllAnswers DEF ClosedUnderSteps
<1> SUFFICES ASSUME NEW E \in SUBSET (Loops(t) \X BOOLEAN), ClosedUnderSteps(t, E)
             PROVE  << l, v >> \in E
  BY DEF Answers
<1>1. AllAnswers(t) \subseteq E
  BY DEF AllAnswers, Answers
<1>2. Follows(t, E, l, v)
  BY <1>1, FollowsMonotone
<1> QED
  BY <1>2 DEF ClosedUnderSteps

LEMMA AnswersFollow ==
  ASSUME NEW t, NEW l \in Loops(t), NEW v \in BOOLEAN
  PROVE  Answers(t, l, v) <=> Follows(t, AllAnswers(t), l, v)
<1>1. ASSUME Follows(t, AllAnswers(t), l, v)
      PROVE  Answers(t, l, v)
  BY <1>1, AnswersClosed, InAllAnswers DEF ClosedUnderSteps
<1>2. ASSUME Answers(t, l, v)
      PROVE  Follows(t, AllAnswers(t), l, v)
  <2> DEFINE E == { p \in AllAnswers(t) : Follows(t, AllAnswers(t), p[1], p[2]) }
  <2>1. E \in SUBSET (Loops(t) \X BOOLEAN) /\ E \subseteq AllAnswers(t)
    BY DEF AllAnswers
  <2>2. ASSUME NEW m \in Loops(t), NEW w \in BOOLEAN, Follows(t, E, m, w)
        PROVE  << m, w >> \in E
    <3>1. Follows(t, AllAnswers(t), m, w)
      BY <2>1, <2>2, FollowsMonotone
    <3>2. << m, w >> \in AllAnswers(t)
      BY <3>1, AnswersClosed DEF ClosedUnderSteps
    <3> QED
      BY <3>1, <3>2
  <2>3. << l, v >> \in E
    <3>1. ClosedUnderSteps(t, E)
      BY <2>2 DEF ClosedUnderSteps
    <3> HIDE DEF E
    <3> QED
      BY <1>2, <2>1, <3>1 DEF Answers
  <2> QED
    BY <2>3
<1> QED
  BY <1>1, <1>2

\* What a loop does next is determined.
LEMMA OneAction ==
  ASSUME NEW t, NEW l
  PROVE  /\ Wants(l) => ~Ended(t, l) /\ \A a : ~Acts(t, l, a)
         /\ Goes(l) \/ (Ended(t, l) /\ ~Wants(l) /\ \A a : ~Acts(t, l, a))
         /\ \A a, b : Acts(t, l, a) /\ Acts(t, l, b) => a = b
         /\ Ended(t, l) => \A a : Acts(t, l, a) => a = Error
BY DEF Wants, Acts, Ended

LEMMA ActionsDiffer ==
  /\ Shift # Error
  /\ \A r : Reduce(r) # Shift /\ Reduce(r) # Error
  /\ \A r, s : Reduce(r) = Reduce(s) => r = s
<1>1. Shift.op = "shift" /\ Error.op = "error"
  BY DEF Shift, Error
<1>2. \A r : Reduce(r).op = "reduce" /\ Reduce(r).rule = r
  BY DEF Reduce
<1>3. Shift # Error
  BY <1>1
<1>4. \A r : Reduce(r) # Shift /\ Reduce(r) # Error
  BY <1>1, <1>2
<1>5. \A r, s : Reduce(r) = Reduce(s) => r = s
  BY <1>2
<1> QED
  BY <1>3, <1>4, <1>5

\* A loop without a cache has at most one answer: the relation is a function.
\* So what AnswersWithoutCache says of parse leaves it no choice.
THEOREM AnswersAreUnique ==
  ASSUME NEW t \in Texts, NEW l \in Loops(t),
         Answers(t, l, TRUE), Answers(t, l, FALSE)
  PROVE  FALSE
<1> DEFINE Sure == { p \in AllAnswers(t) : << p[1], ~p[2] >> \notin AllAnswers(t) }
<1>1. Sure \in SUBSET (Loops(t) \X BOOLEAN) /\ Sure \subseteq AllAnswers(t)
  BY DEF AllAnswers
<1>2. ASSUME NEW m \in Loops(t), NEW v \in BOOLEAN, Follows(t, Sure, m, v)
      PROVE  << m, v >> \in Sure
  <2>1. << m, v >> \in AllAnswers(t)
    BY <1>1, <1>2, FollowsMonotone, AnswersClosed DEF ClosedUnderSteps
  <2>2. ASSUME << m, ~v >> \in AllAnswers(t)
        PROVE  FALSE
    <3> DEFINE w == ~v
    <3>0. w \in BOOLEAN /\ w # v
      OBVIOUS
    <3>1. Follows(t, AllAnswers(t), m, w)
      <4>1. Answers(t, m, w)
        BY <2>2, <3>0, InAllAnswers
      <4> HIDE DEF w
      <4> QED
        BY <3>0, <4>1, AnswersFollow
    <3>2. \A k : << k, v >> \in Sure => << k, w >> \notin AllAnswers(t)
      OBVIOUS
    <3>3. \A k, a : << k, a >> \in Sure => << k, ~a >> \notin AllAnswers(t)
      OBVIOUS
    <3> HIDE DEF w, Sure
    <3>4. CASE Ended(t, m) /\ v = Matches(m)
      <4>1. Ended(t, m) /\ w = Matches(m)
        BY <3>1, <3>4, OneAction, ActionsDiffer DEF Follows
      <4> QED
        BY <3>0, <3>4, <4>1
    <3>5. CASE Wants(m) /\ << Fetched(t, m), v >> \in Sure
      <4>1. << Fetched(t, m), w >> \in AllAnswers(t)
        BY <3>1, <3>5, OneAction DEF Follows
      <4> QED
        BY <3>2, <3>5, <4>1
    <3>6. CASE Acts(t, m, Shift) /\ << Shifted(m), v >> \in Sure
      <4>1. << Shifted(m), w >> \in AllAnswers(t)
        BY <3>1, <3>6, OneAction, ActionsDiffer DEF Follows
      <4> QED
        BY <3>2, <3>6, <4>1
    <3>7. ASSUME NEW r \in DOMAIN RuleLen \ DOMAIN LookaheadRule, Acts(t, m, Reduce(r)),
                 << Reduced(m, RuleLen[r], RuleSymbol[r]), v >> \in Sure
          PROVE  FALSE
      <4>1. << Reduced(m, RuleLen[r], RuleSymbol[r]), w >> \in AllAnswers(t)
        BY <3>1, <3>7, OneAction, ActionsDiffer DEF Follows
      <4> QED
        BY <3>2, <3>7, <4>1
    <3>8. ASSUME NEW r \in DOMAIN LookaheadRule, NEW a \in BOOLEAN, Acts(t, m, Reduce(r)),
                 << AskedLoop(r, FirstToken(t, m)), a >> \in Sure,
                 << Reduced(m, 0, Chosen(r, a)), v >> \in Sure
          PROVE  FALSE
      <4>1. PICK b \in BOOLEAN :
              /\ << AskedLoop(r, FirstToken(t, m)), b >> \in AllAnswers(t)
              /\ << Reduced(m, 0, Chosen(r, b)), w >> \in AllAnswers(t)
        BY <3>1, <3>8, OneAction, ActionsDiffer DEF Follows
      <4>2. a = b
        <5>1. << AskedLoop(r, FirstToken(t, m)), ~a >> \notin AllAnswers(t)
          BY <3>3, <3>8
        <5> QED
          BY <4>1, <5>1
      <4> QED
        BY <3>2, <3>8, <4>1, <4>2
    <3> QED
      BY <1>2, <3>4, <3>5, <3>6, <3>7, <3>8 DEF Follows
  <2> QED
    BY <2>1, <2>2
<1>3. << l, TRUE >> \in Sure
  <2>1. ClosedUnderSteps(t, Sure)
    BY <1>2 DEF ClosedUnderSteps
  <2> HIDE DEF Sure
  <2> QED
    BY <1>1, <2>1 DEF Answers
<1>4. << l, FALSE >> \in AllAnswers(t)
  BY InAllAnswers
<1> QED
  BY <1>3, <1>4

-----------------------------------------------------------------------------
(***************************************************************************)
(* The inductive invariant.  A nested call has the rule and the key that   *)
(* its caller waits for, and whatever its loop will answer is the answer   *)
(* of the lookahead that was asked for; likewise parse and its loop.       *)
(***************************************************************************)
Keys(t) == [off : 0 .. Len(t),
            end : {0} \union { LookaheadRule[r].end : r \in DOMAIN LookaheadRule }]

Frames(t) == [loop : Loops(t), rule : {0} \union DOMAIN LookaheadRule, key : Keys(t)]

LookaheadTypeOK ==
  /\ text \in Texts
  /\ frames \in Seq(Frames(text)) /\ Len(frames) # 0

\* If the loop l answers at all, it answers what the loop m does.
StandsFor(t, l, m) == \A v \in BOOLEAN : Answers(t, l, v) => Answers(t, m, v)

Serves(t, f, caller) ==
  /\ f.rule \in DOMAIN LookaheadRule
  /\ Acts(t, caller.loop, Reduce(f.rule))
  /\ f.key = Key(FirstToken(t, caller.loop), f.rule)
  /\ StandsFor(t, f.loop, AskedLoop(f.rule, FirstToken(t, caller.loop)))

CallsServe ==
  /\ \A i \in 2 .. Len(frames) : Serves(text, frames[i], frames[i - 1])
  /\ StandsFor(text, frames[1].loop, ParseLoop(text))

IInv ==
  /\ LookaheadTypeOK
  /\ CallsServe
  /\ CacheTruthful
  /\ AnswersWithoutCache

LEMMA TopIsLast ==
  ASSUME LookaheadTypeOK
  PROVE  /\ Len(frames) \in Nat \ {0}
         /\ frames[Len(frames)] \in Frames(text)
         /\ top = frames[Len(frames)].loop /\ top \in Loops(text)
<1>1. Len(frames) \in Nat \ {0}
  BY DEF LookaheadTypeOK
<1>2. frames[Len(frames)] \in Frames(text)
  BY <1>1 DEF LookaheadTypeOK
<1>3. top = frames[Len(frames)].loop
  BY DEF top, Last
<1> QED
  BY <1>1, <1>2, <1>3 DEF Frames

WithLoop(fs, n, l) == [fs EXCEPT ![n].loop = l]

LEMMA LoopReplaced ==
  ASSUME NEW t \in Texts, NEW fs \in Seq(Frames(t)), NEW n \in Nat \ {0}, n = Len(fs),
         NEW l \in Loops(t), NEW new, new = WithLoop(fs, n, l)
  PROVE  /\ new \in Seq(Frames(t)) /\ Len(new) = n
         /\ \A i \in 1 .. n - 1 : new[i] = fs[i]
         /\ new[n].loop = l /\ new[n].rule = fs[n].rule /\ new[n].key = fs[n].key
<1> DEFINE f == [fs[n] EXCEPT !.loop = l]
<1>1. fs[n] \in Frames(t) /\ n \in 1 .. Len(fs) /\ DOMAIN fs = 1 .. n
  OBVIOUS
<1>2. f \in Frames(t) /\ f.loop = l /\ f.rule = fs[n].rule /\ f.key = fs[n].key
  BY <1>1 DEF Frames
<1>3. new = [fs EXCEPT ![n] = f]
  BY DEF WithLoop
<1> HIDE DEF f
<1>4. new \in Seq(Frames(t)) /\ Len(new) = n
  BY <1>1, <1>2, <1>3
<1>5. new[n] = f /\ \A i \in 1 .. n - 1 : new[i] = fs[i]
  BY <1>1, <1>3
<1> QED
  BY <1>2, <1>4, <1>5

\* Going on as the topmost loop would without a cache keeps the invariant.
LEMMA TopGoesOn ==
  ASSUME IInv, pc = "parse", NEW l \in Loops(text), StandsFor(text, l, top),
         TopBecomes(l), UNCHANGED << text, cache, pc >>
  PROVE  IInv'
<1> DEFINE n == Len(frames)
<1>1. n \in Nat \ {0} /\ top = frames[n].loop /\ text \in Texts /\ frames \in Seq(Frames(text))
  BY TopIsLast DEF IInv, LookaheadTypeOK
<1>2. /\ frames' \in Seq(Frames(text)) /\ Len(frames') = n
      /\ \A i \in 1 .. n - 1 : frames'[i] = frames[i]
      /\ frames'[n].loop = l /\ frames'[n].rule = frames[n].rule
      /\ frames'[n].key = frames[n].key
  <2>1. frames' = WithLoop(frames, n, l)
    BY DEF TopBecomes, WithLoop
  <2> HIDE DEF n
  <2> QED
    BY <1>1, <2>1, LoopReplaced DEF n
<1>3. LookaheadTypeOK'
  BY <1>1, <1>2 DEF LookaheadTypeOK
<1> HIDE DEF n
<1>4. ASSUME NEW i \in 2 .. n
      PROVE  Serves(text, frames'[i], frames'[i - 1])
  <2>1. Serves(text, frames[i], frames[i - 1])
    BY <1>1 DEF IInv, CallsServe, n
  <2>2. i - 1 \in 1 .. n - 1 /\ frames'[i - 1] = frames[i - 1]
    BY <1>1, <1>2
  <2>3. CASE i = n
    BY <1>1, <1>2, <2>1, <2>2, <2>3 DEF Serves, StandsFor
  <2>4. CASE i # n
    <3>1. frames'[i] = frames[i]
      BY <1>1, <1>2, <2>4
    <3> QED
      BY <2>1, <2>2, <3>1
  <2> QED
    BY <2>3, <2>4
<1>5. StandsFor(text, frames'[1].loop, ParseLoop(text))
  <2>1. StandsFor(text, frames[1].loop, ParseLoop(text))
    BY DEF IInv, CallsServe
  <2>2. CASE n = 1
    BY <1>1, <1>2, <2>1, <2>2 DEF StandsFor
  <2>3. CASE n # 1
    BY <1>1, <1>2, <2>1, <2>3
  <2> QED
    BY <2>2, <2>3
<1>6. CallsServe'
  BY <1>2, <1>4, <1>5 DEF CallsServe
<1>7. CacheTruthful' /\ AnswersWithoutCache'
  BY DEF IInv, CacheTruthful, AnswersWithoutCache
<1> QED
  BY <1>3, <1>6, <1>7 DEF IInv

LEMMA StandsForReason ==
  ASSUME NEW t, NEW l \in Loops(t), NEW m \in Loops(t),
         \A v \in BOOLEAN : << m, v >> \in AllAnswers(t) => Follows(t, AllAnswers(t), l, v)
  PROVE  StandsFor(t, m, l)
<1> SUFFICES ASSUME NEW v \in BOOLEAN, Answers(t, m, v)
             PROVE  Answers(t, l, v)
  BY DEF StandsFor
<1>1. << m, v >> \in AllAnswers(t)
  BY InAllAnswers
<1> QED
  BY <1>1, AnswersFollow

\* A step of Follows makes the old loop stand for the new one.
LEMMA ReasonsHold ==
  ASSUME NEW t \in Texts, NEW l \in Loops(t)
  PROVE  /\ Ended(t, l) => Answers(t, l, Matches(l))
         /\ Wants(l) => StandsFor(t, Fetched(t, l), l)
         /\ Acts(t, l, Shift) => StandsFor(t, Shifted(l), l)
         /\ \A r \in DOMAIN RuleLen \ DOMAIN LookaheadRule :
              Acts(t, l, Reduce(r)) => StandsFor(t, Reduced(l, RuleLen[r], RuleSymbol[r]), l)
         /\ \A r \in DOMAIN LookaheadRule, a \in BOOLEAN :
              Acts(t, l, Reduce(r)) /\ Answers(t, AskedLoop(r, FirstToken(t, l)), a) =>
                StandsFor(t, Reduced(l, 0, Chosen(r, a)), l)
<1>1. Matches(l) \in BOOLEAN
  BY DEF Matches
<1>2. Ended(t, l) => Answers(t, l, Matches(l))
  BY <1>1, AnswersFollow DEF Follows
<1>3. Wants(l) => StandsFor(t, Fetched(t, l), l)
  BY FetchedType, StandsForReason DEF Follows
<1>4. Acts(t, l, Shift) => StandsFor(t, Shifted(l), l)
  BY ShiftedType, StandsForReason DEF Follows
<1>5. ASSUME NEW r \in DOMAIN RuleLen \ DOMAIN LookaheadRule, Acts(t, l, Reduce(r))
      PROVE  StandsFor(t, Reduced(l, RuleLen[r], RuleSymbol[r]), l)
  <2>1. RuleLen[r] \in Nat
    BY LookaheadAssumption
  <2>2. Reduced(l, RuleLen[r], RuleSymbol[r]) \in Loops(t)
    BY <2>1, ReducedType
  <2> QED
    BY <1>5, <2>2, StandsForReason DEF Follows
<1>6. ASSUME NEW r \in DOMAIN LookaheadRule, NEW a \in BOOLEAN, Acts(t, l, Reduce(r)),
             Answers(t, AskedLoop(r, FirstToken(t, l)), a)
      PROVE  StandsFor(t, Reduced(l, 0, Chosen(r, a)), l)
  <2>1. Reduced(l, 0, Chosen(r, a)) \in Loops(t)
    BY ReducedType
  <2>2. << AskedLoop(r, FirstToken(t, l)), a >> \in AllAnswers(t)
    BY <1>6, FirstTokenIsToken, AskedLoopType, InAllAnswers
  <2> QED
    BY <1>6, <2>1, <2>2, StandsForReason DEF Follows
<1> QED
  BY <1>2, <1>3, <1>4, <1>5, <1>6

-----------------------------------------------------------------------------
LEMMA InitKeeps == Init => IInv
<1> SUFFICES ASSUME Init
             PROVE  IInv
  OBVIOUS
<1>1. text \in Texts /\ frames = << Frame(ParseLoop(text), 0, NoKey) >>
      /\ cache = <<>> /\ pc = "parse"
  BY DEF Init
<1>2. Frame(ParseLoop(text), 0, NoKey) \in Frames(text)
  <2>1. ParseLoop(text) \in Loops(text) /\ 0 \in 0 .. Len(text)
    BY <1>1, ParseLoopType, LookaheadAssumption
  <2> QED
    BY <2>1 DEF Frame, Frames, Keys, NoKey
<1>3. LookaheadTypeOK
  BY <1>1, <1>2 DEF LookaheadTypeOK
<1>4. CallsServe
  <2>1. Len(frames) = 1 /\ frames[1].loop = ParseLoop(text)
    BY <1>1 DEF Frame
  <2> QED
    BY <2>1 DEF CallsServe, StandsFor
<1>5. CacheTruthful
  <2>1. DOMAIN cache = {}
    BY <1>1
  <2> QED
    BY <2>1 DEF CacheTruthful
<1> QED
  BY <1>1, <1>3, <1>4, <1>5 DEF IInv, AnswersWithoutCache

LEMMA FetchKeeps == IInv /\ Fetch => IInv'
<1> SUFFICES ASSUME IInv, Fetch
             PROVE  IInv'
  OBVIOUS
<1>1. text \in Texts /\ top \in Loops(text)
  BY TopIsLast DEF IInv, LookaheadTypeOK
<1>2. Fetched(text, top) \in Loops(text) /\ StandsFor(text, Fetched(text, top), top)
  BY <1>1, FetchedType, ReasonsHold DEF Fetch
<1> QED
  BY <1>2, TopGoesOn DEF Fetch, Running

LEMMA ReduceKeeps == IInv /\ ReduceStep => IInv'
<1> SUFFICES ASSUME IInv, ReduceStep
             PROVE  IInv'
  OBVIOUS
<1>1. text \in Texts /\ top \in Loops(text)
  BY TopIsLast DEF IInv, LookaheadTypeOK
<1>2. PICK r \in DOMAIN RuleLen \ DOMAIN LookaheadRule :
        /\ Running /\ Acts(text, top, Reduce(r))
        /\ TopBecomes(Reduced(top, RuleLen[r], RuleSymbol[r]))
        /\ UNCHANGED << text, size, cache, runs, shifts, pc >>
  BY DEF ReduceStep
<1>3. RuleLen[r] \in Nat
  BY LookaheadAssumption
<1>4. /\ Reduced(top, RuleLen[r], RuleSymbol[r]) \in Loops(text)
      /\ StandsFor(text, Reduced(top, RuleLen[r], RuleSymbol[r]), top)
  BY <1>1, <1>2, <1>3, ReducedType, ReasonsHold
<1> QED
  BY <1>2, <1>4, TopGoesOn DEF Running

LEMMA ShiftKeeps == IInv /\ ShiftToken => IInv'
<1> SUFFICES ASSUME IInv, ShiftToken
             PROVE  IInv'
  OBVIOUS
<1>1. text \in Texts /\ top \in Loops(text)
  BY TopIsLast DEF IInv, LookaheadTypeOK
<1>2. Shifted(top) \in Loops(text) /\ StandsFor(text, Shifted(top), top)
  BY <1>1, ShiftedType, ReasonsHold DEF ShiftToken
<1> QED
  BY <1>2, TopGoesOn DEF ShiftToken, Running

LEMMA AskCacheKeeps == IInv /\ AskCache => IInv'
<1> SUFFICES ASSUME IInv, AskCache
             PROVE  IInv'
  OBVIOUS
<1> DEFINE tok == FirstToken(text, top)
           value(r) == cache[Slot(Key(tok, r))].value
<1>1. text \in Texts /\ top \in Loops(text)
  BY TopIsLast DEF IInv, LookaheadTypeOK
<1>2. PICK r \in DOMAIN LookaheadRule :
        /\ Running /\ Acts(text, top, Reduce(r)) /\ cacheGet(Key(tok, r))
        /\ TopBecomes(Reduced(top, 0, Chosen(r, value(r))))
        /\ UNCHANGED << text, size, cache, runs, shifts, pc >>
  BY DEF AskCache, Asks
<1>3. tok \in Tokens(text)
  BY <1>1, FirstTokenIsToken
<1>4. value(r) \in BOOLEAN /\ Answers(text, AskedLoop(r, tok), value(r))
  <2> HIDE DEF tok
  <2> QED
    BY <1>2, <1>3 DEF cacheGet, IInv, CacheTruthful
<1> HIDE DEF value
<1>5. /\ Reduced(top, 0, Chosen(r, value(r))) \in Loops(text)
      /\ StandsFor(text, Reduced(top, 0, Chosen(r, value(r))), top)
  BY <1>1, <1>2, <1>4, ReducedType, ReasonsHold
<1> QED
  BY <1>2, <1>5, TopGoesOn DEF Running

LEMMA AskParserKeeps == IInv /\ AskParser => IInv'
<1> SUFFICES ASSUME IInv, AskParser
             PROVE  IInv'
  OBVIOUS
<1> DEFINE tok == FirstToken(text, top)
           n == Len(frames)
<1>1. /\ text \in Texts /\ frames \in Seq(Frames(text)) /\ n \in Nat \ {0}
      /\ top = frames[n].loop /\ top \in Loops(text)
  BY TopIsLast DEF IInv, LookaheadTypeOK
<1>2. PICK r \in DOMAIN LookaheadRule :
        /\ Running /\ Acts(text, top, Reduce(r))
        /\ frames' = Append(frames, Frame(AskedLoop(r, tok), r, Key(tok, r)))
        /\ UNCHANGED << text, cache, pc >>
  BY DEF AskParser, Asks
<1> DEFINE f == Frame(AskedLoop(r, tok), r, Key(tok, r))
<1>3. tok \in Tokens(text) /\ tok.off \in 0 .. Len(text)
  BY <1>1, FirstTokenIsToken, TokenIsThatAtItsOffset DEF Tokens
<1>4. f \in Frames(text)
  <2>1. AskedLoop(r, tok) \in Loops(text)
    BY <1>1, <1>3, AskedLoopType
  <2> HIDE DEF tok
  <2> QED
    BY <2>1, <1>3 DEF Frame, Frames, Keys, Key
<1>5. Serves(text, f, frames[n])
  BY <1>1, <1>2 DEF Serves, StandsFor, Frame
<1>6. frames' = Append(frames, f)
  BY <1>2
<1> HIDE DEF f, tok, n
<1>7. /\ frames' \in Seq(Frames(text)) /\ Len(frames') = n + 1 /\ frames'[n + 1] = f
      /\ \A i \in 1 .. n : frames'[i] = frames[i]
  BY <1>1, <1>4, <1>6 DEF n
<1>8. LookaheadTypeOK'
  BY <1>1, <1>2, <1>7 DEF LookaheadTypeOK
<1>9. ASSUME NEW i \in 2 .. n + 1
      PROVE  Serves(text, frames'[i], frames'[i - 1])
  <2>1. i - 1 \in 1 .. n /\ frames'[i - 1] = frames[i - 1]
    BY <1>1, <1>7
  <2>2. CASE i = n + 1
    BY <1>1, <1>5, <1>7, <2>1, <2>2
  <2>3. CASE i # n + 1
    <3>1. i \in 2 .. n /\ frames'[i] = frames[i]
      BY <1>1, <1>7, <2>3
    <3> QED
      BY <2>1, <3>1 DEF IInv, CallsServe, n
  <2> QED
    BY <2>2, <2>3
<1>10. CallsServe'
  <2>1. frames'[1] = frames[1]
    BY <1>1, <1>7
  <2> QED
    BY <1>2, <1>7, <1>9, <2>1 DEF IInv, CallsServe
<1>11. CacheTruthful' /\ AnswersWithoutCache'
  BY <1>2 DEF IInv, CacheTruthful, AnswersWithoutCache
<1> QED
  BY <1>8, <1>10, <1>11 DEF IInv

\* Two rules that ask for lookaheads with one key ask for the same one.
LEMMA OneLookaheadPerKey ==
  ASSUME NEW t \in Texts, NEW x \in Tokens(t), NEW y \in Tokens(t),
         NEW r \in DOMAIN LookaheadRule, NEW s \in DOMAIN LookaheadRule,
         Key(x, r) = Key(y, s)
  PROVE  AskedLoop(r, x) = AskedLoop(s, y)
<1>1. x.off = y.off /\ LookaheadRule[r].end = LookaheadRule[s].end
  BY DEF Key
<1>2. x = y /\ LookaheadRule[r].start = LookaheadRule[s].start
  BY <1>1, TokensByOffset, OneStartForEachEnd
<1> QED
  BY <1>1, <1>2 DEF AskedLoop

LEMMA AnswerKeeps == IInv /\ Answer => IInv'
<1> SUFFICES ASSUME IInv, Answer
             PROVE  IInv'
  OBVIOUS
<1> DEFINE n      == Len(frames)
           callee == frames[n]
           caller == frames[n - 1].loop
           r      == callee.rule
           tok    == FirstToken(text, caller)
           v      == Matches(top)
           l      == Reduced(caller, 0, Chosen(r, v))
<1>1. /\ text \in Texts /\ frames \in Seq(Frames(text)) /\ n \in Nat \ {0}
      /\ top = callee.loop /\ top \in Loops(text)
  BY TopIsLast DEF IInv, LookaheadTypeOK
<1>2. n \in 2 .. n /\ n > 1 /\ Ended(text, top)
  BY <1>1 DEF Answer, Nested
<1>3. caller \in Loops(text)
  <2>1. frames[n - 1] \in Frames(text)
    BY <1>1, <1>2
  <2> QED
    BY <2>1 DEF Frames
<1>4. Serves(text, callee, frames[n - 1])
  BY <1>2 DEF IInv, CallsServe
<1>5. /\ r \in DOMAIN LookaheadRule /\ Acts(text, caller, Reduce(r))
      /\ callee.key = Key(tok, r)
      /\ StandsFor(text, top, AskedLoop(r, tok))
  BY <1>1, <1>4 DEF Serves
<1>6. v \in BOOLEAN /\ Answers(text, AskedLoop(r, tok), v)
  <2>1. v \in BOOLEAN
    BY DEF Matches
  <2>2. Answers(text, top, v)
    BY <1>1, <1>2, ReasonsHold
  <2> HIDE DEF v
  <2> QED
    BY <1>5, <2>1, <2>2 DEF StandsFor
<1>7. l \in Loops(text) /\ StandsFor(text, l, caller)
  <2> HIDE DEF v, r, caller
  <2>1. 0 \in Nat
    OBVIOUS
  <2> QED
    BY <1>1, <1>3, <1>5, <1>6, <2>1, ReducedType, ReasonsHold DEF tok
<1>8. tok \in Tokens(text)
  BY <1>1, <1>3, FirstTokenIsToken
<1> DEFINE below == Front(frames)
<1>9. /\ below \in Seq(Frames(text)) /\ Len(below) = n - 1
      /\ \A i \in 1 .. n - 1 : below[i] = frames[i]
  BY <1>1, <1>2 DEF Front
<1>10. frames' = WithLoop(below, n - 1, l) /\ UNCHANGED << text, pc >>
       /\ cache' = WithEntry(Key(tok, r), v)
  <2>1. below[n - 1].loop = caller
    BY <1>1, <1>2, <1>9
  <2>2. Last(frames) = callee
    BY DEF Last
  <2> QED
    BY <1>5, <1>9, <2>1, <2>2 DEF Answer, cachePut, WithLoop
<1> HIDE DEF n, callee, caller, r, tok, v, l, below
<1>11. /\ frames' \in Seq(Frames(text)) /\ Len(frames') = n - 1
       /\ \A i \in 1 .. n - 2 : frames'[i] = frames[i]
       /\ frames'[n - 1].loop = l /\ frames'[n - 1].rule = frames[n - 1].rule
       /\ frames'[n - 1].key = frames[n - 1].key
  <2>1. n - 1 \in Nat \ {0} /\ n - 1 - 1 = n - 2
    BY <1>1, <1>2
  <2>2. /\ frames' \in Seq(Frames(text)) /\ Len(frames') = n - 1
        /\ \A i \in 1 .. n - 1 - 1 : frames'[i] = below[i]
        /\ frames'[n - 1].loop = l /\ frames'[n - 1].rule = below[n - 1].rule
        /\ frames'[n - 1].key = below[n - 1].key
    <3> DEFINE k == n - 1
    <3>1. k \in Nat \ {0} /\ k = Len(below) /\ frames' = WithLoop(below, k, l)
      BY <1>9, <1>10, <2>1
    <3> HIDE DEF k
    <3>2. /\ frames' \in Seq(Frames(text)) /\ Len(frames') = k
          /\ \A i \in 1 .. k - 1 : frames'[i] = below[i]
          /\ frames'[k].loop = l /\ frames'[k].rule = below[k].rule
          /\ frames'[k].key = below[k].key
      BY <1>1, <1>7, <1>9, <3>1, LoopReplaced
    <3> QED
      BY <3>2 DEF k
  <2>3. below[n - 1] = frames[n - 1] /\ \A i \in 1 .. n - 2 : below[i] = frames[i]
    BY <1>1, <1>2, <1>9
  <2> QED
    BY <2>1, <2>2, <2>3
<1>12. LookaheadTypeOK'
  BY <1>1, <1>2, <1>10, <1>11 DEF LookaheadTypeOK
<1>13. ASSUME NEW i \in 2 .. n - 1
       PROVE  Serves(text, frames'[i], frames'[i - 1])
  <2>1. Serves(text, frames[i], frames[i - 1])
    BY <1>1 DEF IInv, CallsServe, n
  <2>2. frames'[i - 1] = frames[i - 1]
    BY <1>1, <1>11
  <2>3. CASE i = n - 1
    BY <1>7, <1>11, <2>1, <2>2, <2>3 DEF Serves, StandsFor, caller
  <2>4. CASE i # n - 1
    <3>1. frames'[i] = frames[i]
      BY <1>1, <1>11, <2>4
    <3> QED
      BY <2>1, <2>2, <3>1
  <2> QED
    BY <2>3, <2>4
<1>14. StandsFor(text, frames'[1].loop, ParseLoop(text))
  <2>1. StandsFor(text, frames[1].loop, ParseLoop(text))
    BY DEF IInv, CallsServe
  <2>2. CASE n = 2
    <3>1. frames'[1].loop = l /\ caller = frames[1].loop
      BY <1>11, <2>2 DEF caller
    <3> QED
      BY <1>7, <2>1, <3>1 DEF StandsFor
  <2>3. CASE n # 2
    <3>1. frames'[1] = frames[1]
      BY <1>1, <1>2, <1>11, <2>3
    <3> QED
      BY <2>1, <3>1
  <2> QED
    BY <2>2, <2>3
<1>15. CallsServe'
  BY <1>10, <1>11, <1>13, <1>14 DEF CallsServe
<1>16. CacheTruthful'
  <2> SUFFICES ASSUME NEW s \in DOMAIN cache'
               PROVE  /\ cache'[s].value \in BOOLEAN
                      /\ \A q \in DOMAIN LookaheadRule, y \in Tokens(text) :
                           cache'[s].key = Key(y, q) =>
                             Answers(text, AskedLoop(q, y), cache'[s].value)
    BY <1>10 DEF CacheTruthful
  <2>1. CASE s = Slot(Key(tok, r))
    <3>1. cache'[s].key = Key(tok, r) /\ cache'[s].value = v
      BY <1>10, <2>1 DEF WithEntry
    <3> QED
      BY <1>1, <1>5, <1>6, <1>8, <3>1, OneLookaheadPerKey
  <2>2. CASE s # Slot(Key(tok, r))
    <3>1. s \in DOMAIN cache /\ cache'[s] = cache[s]
      BY <1>10, <2>2 DEF WithEntry
    <3> QED
      BY <3>1 DEF IInv, CacheTruthful
  <2> QED
    BY <2>1, <2>2
<1>17. AnswersWithoutCache'
  BY <1>10 DEF IInv, AnswersWithoutCache
<1> QED
  BY <1>12, <1>15, <1>16, <1>17 DEF IInv

LEMMA ReturnKeeps == IInv /\ Return => IInv'
<1> SUFFICES ASSUME IInv, Return
             PROVE  IInv'
  OBVIOUS
<1>1. text \in Texts /\ top \in Loops(text) /\ Len(frames) = 1 /\ top = frames[1].loop
  <2>1. Len(frames) \in Nat \ {0} /\ top = frames[Len(frames)].loop /\ top \in Loops(text)
    BY TopIsLast DEF IInv
  <2>2. ~(Len(frames) > 1)
    BY DEF Return, Nested
  <2>3. Len(frames) = 1
    BY ONLY <2>1, <2>2
  <2> QED
    BY <2>1, <2>3 DEF IInv, LookaheadTypeOK
<1>2. /\ Ended(text, top) /\ UNCHANGED << text, frames, cache >>
      /\ pc' = IF Matches(top) THEN "accepted" ELSE "failed"
  BY DEF Return
<1>3. Answers(text, ParseLoop(text), Matches(top))
  <2>1. Matches(top) \in BOOLEAN
    BY DEF Matches
  <2>2. Answers(text, top, Matches(top))
    BY <1>1, <1>2, ReasonsHold
  <2> QED
    BY <1>1, <2>1, <2>2 DEF IInv, CallsServe, StandsFor
<1>4. AnswersWithoutCache'
  <2>1. (pc' = "accepted") = Matches(top)
    BY <1>2 DEF Matches
  <2> QED
    BY <1>2, <1>3, <2>1 DEF AnswersWithoutCache
<1>5. LookaheadTypeOK' /\ CallsServe' /\ CacheTruthful'
  BY <1>2 DEF IInv, LookaheadTypeOK, CallsServe, CacheTruthful
<1> QED
  BY <1>4, <1>5 DEF IInv

LEMMA StepKeeps == IInv /\ [Next]_vars => IInv'
<1> SUFFICES ASSUME IInv, [Next]_vars
             PROVE  IInv'
  OBVIOUS
<1>1. CASE Cancel
  <2>1. UNCHANGED << text, frames, cache >> /\ pc' = "cancelled"
    BY <1>1 DEF Cancel
  <2>2. LookaheadTypeOK' /\ CallsServe' /\ CacheTruthful'
    BY <2>1 DEF IInv, LookaheadTypeOK, CallsServe, CacheTruthful
  <2> QED
    BY <2>1, <2>2 DEF IInv, AnswersWithoutCache
<1>2. CASE UNCHANGED vars
  BY <1>2 DEF vars, IInv, LookaheadTypeOK, CallsServe, CacheTruthful, AnswersWithoutCache
<1> QED
  BY <1>1, <1>2, FetchKeeps, ReduceKeeps, ShiftKeeps, AskCacheKeeps, AskParserKeeps,
     AnswerKeeps, ReturnKeeps DEF Next, Finished

-----------------------------------------------------------------------------
\* What the cache holds is true, whatever was asked, evicted and asked again by
\* then: each answer is that of the lookahead without a cache.
THEOREM CacheNeverLies == Spec => []CacheTruthful
<1>1. Spec => []IInv
  BY InitKeeps, StepKeeps, PTL DEF Spec
<1>2. IInv => CacheTruthful
  BY DEF IInv
<1> QED
  BY <1>1, <1>2, PTL

\* The cache is transparent: when parse accepts or rejects a text, a parser
\* without a cache does the same, for all tables, hash functions and sizes.
THEOREM CacheIsTransparent == Spec => []AnswersWithoutCache
<1>1. Spec => []IInv
  BY InitKeeps, StepKeeps, PTL DEF Spec
<1>2. IInv => AnswersWithoutCache
  BY DEF IInv
<1> QED
  BY <1>1, <1>2, PTL
=============================================================================
