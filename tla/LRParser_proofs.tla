--------------------------- MODULE LRParser_proofs ---------------------------
(***************************************************************************)
(* Theorems about LRParser that hold for every grammar's tables and every  *)
(* text, with proofs checked by TLAPS.                                     *)
(***************************************************************************)
EXTENDS LRParser, CommonLemmas, SequenceTheorems, TLAPS

(***************************************************************************)
(* Types.                                                                  *)
(***************************************************************************)
EventSet == [sym : NodeType \union Terminals \union Ignored \union {NoToken},
             off : Nat, end : Nat]

\* What TypeOK needs to be inductive: the locals of recoverFromError do not
\* outlive it, so no stack position is kept while the stack shrinks.
TypeInv == TypeOK /\ (pc # "skip" => recovery = NoRecovery)

\* The operators that read the tables give what the tables hold.
LEMMA LookupType ==
  ASSUME NEW q \in State, NEW t
  PROVE  Lookup(q, t) \in TableAction
BY TableAssumption DEF Lookup, TableAction

LEMMA gotoNTType ==
  ASSUME NEW q, NEW n \in Nonterminals
  PROVE  gotoNT(q, n) \in State
BY TableAssumption DEF gotoNT

LEMMA gotoStateType ==
  ASSUME NEW q \in State, NEW t, gotoState(q, t) # NoState
  PROVE  gotoState(q, t) \in State
<1>1. Lookup(q, t).op = "shift" /\ gotoState(q, t) = Lookup(q, t).to
  BY DEF gotoState
<1>2. Lookup(q, t) \in TableAction
  BY LookupType
<1> QED
  BY <1>1, <1>2 DEF TableAction, Shift, Reduce, Error

\* The token in hand and what a flush of the pending tokens leaves.
LEMMA FlushType ==
  ASSUME TypeOK, NEW end, Flush(end)
  PROVE  /\ pending' \in Seq(SymbolSet)
         /\ reported' \in Seq(SymbolSet)
         /\ events' \in Seq(EventSet)
<1>1. PICK n \in 0 .. Len(pending) :
        /\ pending'  = SubSeq(pending, n + 1, Len(pending))
        /\ reported' = reported \o SubSeq(pending, 1, n)
        /\ events'   = events \o SubSeq(pending, 1, n)
  BY DEF Flush
<1>2. pending \in Seq(SymbolSet) /\ reported \in Seq(SymbolSet) /\ events \in Seq(EventSet)
  BY DEF TypeOK, EventSet
<1>3. /\ SubSeq(pending, n + 1, Len(pending)) \in Seq(SymbolSet)
      /\ SubSeq(pending, 1, n) \in Seq(SymbolSet)
  BY <1>2, SubSeqProperties, LenProperties
<1>4. SymbolSet \subseteq EventSet
  BY DEF SymbolSet, EventSet
<1>5. SubSeq(pending, 1, n) \in Seq(EventSet)
  BY <1>3, <1>4, SeqMonotonic
<1> QED
  BY <1>1, <1>2, <1>3, <1>5, ConcatProperties

LEMMA InitType == Init => TypeInv
<1> SUFFICES ASSUME Init PROVE TypeInv
  OBVIOUS
<1> USE DEF Init, Symbol, Entry, NoRecovery
<1>1. input \in Inputs /\ input.start \in State
  BY TableAssumption
<1>2. next \in SymbolSet
  BY DEF SymbolSet
<1>3. stack \in Seq(EntrySet) /\ stack # <<>>
  BY <1>1 DEF EntrySet
<1>4. recovery \in [pos : SUBSET (DOMAIN stack), syms : SUBSET Terminals, s : Nat, e : Nat]
  OBVIOUS
<1>5. /\ lexed \in Seq(SymbolSet) /\ ignored \in Seq(SymbolSet)
      /\ pending \in Seq(SymbolSet) /\ reported \in Seq(SymbolSet)
      /\ events \in Seq([sym : NodeType \union Terminals \union Ignored \union {NoToken},
                         off : Nat, end : Nat])
      /\ errors \in Seq([off : Nat, end : Nat, at : Nat])
  OBVIOUS
<1> QED
  BY <1>1, <1>2, <1>3, <1>4, <1>5 DEF TypeInv, TypeOK

\* What the top of the stack says about the turn of the loop.
LEMMA CurType ==
  ASSUME TypeOK
  PROVE  /\ Last(stack) \in EntrySet /\ cur \in State
         /\ Len(stack) \in Nat \ {0} /\ DOMAIN stack = 1 .. Len(stack)
         /\ \A i \in DOMAIN stack : stack[i] \in EntrySet /\ stack[i].state \in State
         /\ CurAction \in TableAction
<1>1. stack \in Seq(EntrySet) /\ stack # <<>>
  BY DEF TypeOK
<1>2. Len(stack) \in Nat \ {0} /\ DOMAIN stack = 1 .. Len(stack)
  BY <1>1, EmptySeq, LenProperties
<1>3. \A i \in DOMAIN stack : stack[i] \in EntrySet
  BY <1>1, <1>2, ElementOfSeq
<1>4. Last(stack) \in EntrySet
  BY <1>2, <1>3 DEF Last
<1>5. cur \in State /\ \A i \in DOMAIN stack : stack[i].state \in State
  BY <1>3, <1>4 DEF cur, EntrySet
<1>6. CurAction \in TableAction
  BY <1>5, LookupType, TableAssumption DEF CurAction, TableAction
<1> QED
  BY <1>2, <1>3, <1>4, <1>5, <1>6

\* A default action never shifts, so what the loop shifts is a token in hand.
LEMMA ShiftsAreInRows ==
  ASSUME TypeOK, CurAction.op = "shift"
  PROVE  next.sym \in Terminals
<1>1. cur \in State
  BY CurType
<1>2. DefAct[cur].op # "shift"
  BY <1>1, TableAssumption DEF Reduce, Error
<1>3. next.sym \in DOMAIN ActRow[cur]
  BY <1>2 DEF CurAction, Lookup
<1> QED
  BY <1>1, <1>3, TableAssumption

LEMMA LastOfAppend ==
  ASSUME NEW S, NEW s \in Seq(S), NEW e
  PROVE  Last(Append(s, e)) = e
BY DEF Last

LEMMA RhsType ==
  ASSUME TypeOK, NEW r \in Rule, Len(stack) > RuleLen[r]
  PROVE  /\ Rhs(r) \in Seq(EntrySet) /\ Len(Rhs(r)) = RuleLen[r]
         /\ DOMAIN Rhs(r) = 1 .. RuleLen[r]
         /\ \A i \in 1 .. RuleLen[r] :
              /\ Rhs(r)[i].off \in Nat /\ Rhs(r)[i].end \in Nat
              /\ Rhs(r)[i] = stack[Len(stack) - RuleLen[r] + i]
<1>1. RuleLen[r] \in Nat /\ Len(stack) \in Nat
  BY TableAssumption, CurType
<1> DEFINE m == Len(stack) - RuleLen[r] + 1
           n == Len(stack)
<1>2. m \in Int /\ n \in Int /\ n - m + 1 = RuleLen[r]
  BY <1>1
<1>3. \A i \in m .. n : stack[i] \in EntrySet
  BY <1>1, CurType
<1>4. /\ SubSeq(stack, m, n) \in Seq(EntrySet)
      /\ Len(SubSeq(stack, m, n)) = IF m <= n THEN n - m + 1 ELSE 0
      /\ \A i \in 1 .. n - m + 1 : SubSeq(stack, m, n)[i] = stack[m + i - 1]
  <2> HIDE DEF m, n
  <2> QED
    BY <1>2, <1>3, SubSeqProperties
<1>5. Rhs(r) \in Seq(EntrySet) /\ Len(Rhs(r)) = RuleLen[r]
  BY <1>1, <1>4 DEF Rhs
<1>6. DOMAIN Rhs(r) = 1 .. RuleLen[r]
  BY <1>5, LenProperties
<1>7. \A i \in 1 .. RuleLen[r] : Rhs(r)[i] = stack[Len(stack) - RuleLen[r] + i]
  <2> SUFFICES ASSUME NEW i \in 1 .. RuleLen[r]
               PROVE  Rhs(r)[i] = stack[Len(stack) - RuleLen[r] + i]
    OBVIOUS
  <2>1. SubSeq(stack, m, n)[i] = stack[m + i - 1]
    BY <1>2, <1>4
  <2>2. m + i - 1 = Len(stack) - RuleLen[r] + i
    BY <1>1
  <2> QED
    BY <2>1, <2>2 DEF Rhs
<1>8. \A i \in 1 .. RuleLen[r] : Len(stack) - RuleLen[r] + i \in DOMAIN stack
  BY <1>1, CurType
<1> QED
  BY <1>5, <1>6, <1>7, <1>8, CurType DEF EntrySet

LEMMA RangeType ==
  ASSUME NEW n \in Nat, NEW rhs, DOMAIN rhs = 1 .. n,
         \A i \in 1 .. n : rhs[i].off \in Nat /\ rhs[i].end \in Nat,
         NEW to \in 1 .. n, NEW from \in 1 .. to
  PROVE  RangeOf(rhs, from, to).off \in Nat /\ RangeOf(rhs, from, to).end \in Nat
<1> DEFINE last == { i \in from .. to : i = from \/ i \in NonEmpty(rhs) }
<1>1. from \in last
  OBVIOUS
<1>2. \A i \in last : i \in 1 .. n
  OBVIOUS
<1>3. last \in SUBSET (0 .. n) /\ last # {}
  <2> HIDE DEF last
  <2> QED
    BY <1>1, <1>2
<1>4. Max(last) \in last
  BY <1>3, MaxOfSet
<1>5. Max(last) \in 1 .. n
  BY <1>2, <1>4
<1> QED
  BY <1>5 DEF RangeOf

LEMMA RuleEventsType ==
  ASSUME TypeOK, NEW r \in Rule, Len(stack) > RuleLen[r], NEW off \in Nat, NEW end \in Nat
  PROVE  RuleEvents(r, Rhs(r), off, end) \in Seq(EventSet)
<1> DEFINE sub == RuleReports[r]
           Report(i) == LET range == RangeOf(Rhs(r), sub[i].from, sub[i].to)
                        IN  Symbol(sub[i].type, range.off, range.end)
<1>1. sub \in Seq([type : NodeType, from : Nat, to : Nat]) /\ RuleLen[r] \in Nat
  BY TableAssumption
<1>2. \A i \in DOMAIN sub : Report(i) \in EventSet
  <2> SUFFICES ASSUME NEW i \in DOMAIN sub PROVE Report(i) \in EventSet
    OBVIOUS
  <2>1. sub[i].from \in 1 .. sub[i].to /\ sub[i].to \in 1 .. RuleLen[r]
    BY TableAssumption
  <2>2. sub[i].type \in NodeType
    <3>1. sub[i] \in [type : NodeType, from : Nat, to : Nat]
      BY <1>1, ElementOfSeq, LenProperties
    <3> QED
      BY <3>1
  <2>3. /\ RangeOf(Rhs(r), sub[i].from, sub[i].to).off \in Nat
        /\ RangeOf(Rhs(r), sub[i].from, sub[i].to).end \in Nat
    BY <1>1, <2>1, RhsType, RangeType
  <2> QED
    BY <2>2, <2>3 DEF EventSet, Symbol
<1>3. [i \in DOMAIN sub |-> Report(i)] \in Seq(EventSet)
  <2>1. DOMAIN sub = 1 .. Len(sub) /\ Len(sub) \in Nat
    BY <1>1, LenProperties
  <2>2. [i \in DOMAIN sub |-> Report(i)] \in [1 .. Len(sub) -> EventSet]
    BY <1>2, <2>1
  <2> QED
    BY <2>1, <2>2, SeqDef
<1>4. << Symbol(RuleNode[r], off, end) >> \in Seq(EventSet) \/ RuleNode[r] = NoNode
  BY TableAssumption DEF Symbol, EventSet
<1>5. (IF RuleNode[r] = NoNode THEN <<>> ELSE << Symbol(RuleNode[r], off, end) >>)
        \in Seq(EventSet)
  BY <1>4, EmptySeq
<1> QED
  BY <1>3, <1>5, ConcatProperties DEF RuleEvents

LEMMA ReduceByType ==
  ASSUME TypeInv, pc # "skip", NEW r \in Rule, ReduceBy(r)
  PROVE  TypeInv'
<1> DEFINE rhs   == Rhs(r)
           base  == SubSeq(stack, 1, Len(stack) - RuleLen[r])
           empty == NonEmpty(rhs) = {}
           off   == IF empty THEN next.off ELSE rhs[1].off
           end   == IF empty THEN next.off ELSE rhs[Max(NonEmpty(rhs))].end
<1>1. TypeOK /\ Len(stack) > RuleLen[r] /\ RuleLen[r] \in Nat
  BY TableAssumption DEF TypeInv, ReduceBy
<1>2. next.off \in Nat
  BY <1>1 DEF TypeOK, SymbolSet
<1>3. off \in Nat /\ end \in Nat
  <2>1. CASE empty
    BY <2>1, <1>2
  <2>2. CASE ~empty
    <3>1. NonEmpty(rhs) \in SUBSET (0 .. RuleLen[r])
      BY <1>1, RhsType DEF NonEmpty
    <3>2. Max(NonEmpty(rhs)) \in NonEmpty(rhs)
      BY <1>1, <2>2, <3>1, MaxOfSet
    <3>3. Max(NonEmpty(rhs)) \in 1 .. RuleLen[r]
      BY <1>1, <3>2, RhsType DEF NonEmpty
    <3> QED
      BY <1>1, <2>2, <3>3, RhsType
  <2> QED
    BY <2>1, <2>2
<1>4. events' = events \o RuleEvents(r, rhs, off, end)
  BY DEF ReduceBy
<1>5. stack' = Append(base, Entry(RuleSymbol[r], off, end,
                                  gotoNT(Last(base).state, RuleSymbol[r])))
  BY DEF ReduceBy
<1>6. events' \in Seq(EventSet)
  BY <1>1, <1>3, <1>4, RuleEventsType, ConcatProperties DEF TypeOK, EventSet
<1>7. stack' \in Seq(EntrySet) /\ stack' # <<>>
  <2>1. base \in Seq(EntrySet)
    BY <1>1, CurType, SubSeqProperties DEF TypeOK
  <2>2. RuleSymbol[r] \in Nonterminals
    BY TableAssumption
  <2>3. Entry(RuleSymbol[r], off, end, gotoNT(Last(base).state, RuleSymbol[r])) \in EntrySet
    BY <1>3, <2>2, gotoNTType DEF Entry, EntrySet
  <2> HIDE DEF base, off, end
  <2> QED
    BY <1>5, <2>1, <2>3, AppendProperties
<1>8. /\ UNCHANGED << lexVars, pending, next, recovering, shifts, recovery,
                      reported, errors, pc >>
      /\ recovery = NoRecovery
  BY DEF ReduceBy, TypeInv
<1> HIDE DEF rhs, base, empty, off, end
<1> QED
  BY <1>1, <1>6, <1>7, <1>8 DEF TypeInv, TypeOK, lexVars, NoRecovery, EventSet

LEMMA LexType ==
  ASSUME TypeInv, Lex
  PROVE  TypeInv'
<1>1. PICK gap \in Gaps :
        \/ \E t \in Ignored : LexIgnored(t, gap)
        \/ \E t \in Terminals \ {ErrSym} : LexToken(t, gap)
  BY DEF Lex
<1>2. gap \in Nat /\ offset \in Nat
  BY BoundAssumption DEF TypeInv, TypeOK
<1>3. pending \in Seq(SymbolSet) /\ ignored \in Seq(SymbolSet) /\ lexed \in Seq(SymbolSet)
  BY DEF TypeInv, TypeOK
<1>4. ASSUME NEW t \in Ignored, LexIgnored(t, gap)
      PROVE  TypeInv'
  <2> DEFINE tok == Symbol(t, offset + gap, offset + gap + 1)
  <2>1. tok \in SymbolSet /\ tok.end \in Nat
    BY <1>2 DEF Symbol, SymbolSet
  <2>2. pending' = Append(pending, tok) /\ ignored' = Append(ignored, tok) /\ offset' = tok.end
    BY <1>4 DEF LexIgnored
  <2>3. pending' \in Seq(SymbolSet) /\ ignored' \in Seq(SymbolSet) /\ offset' \in Nat
    <3> HIDE DEF tok
    <3> QED
      BY <1>3, <2>1, <2>2, AppendProperties
  <2>4. UNCHANGED << input, lexed, next, stack, recovering, shifts, recovery, events,
                     reported, errors, pc >>
    BY <1>4 DEF LexIgnored
  <2> QED
    BY <2>3, <2>4 DEF TypeInv, TypeOK, NoRecovery
<1>5. ASSUME NEW t \in Terminals \ {ErrSym}, LexToken(t, gap)
      PROVE  TypeInv'
  <2>1. next' = Symbol(t, offset + gap, offset + gap + (IF t = EOI THEN 0 ELSE 1))
    BY <1>5 DEF LexToken
  <2>2. next' \in SymbolSet /\ next'.end \in Nat
    BY <1>2, <2>1 DEF Symbol, SymbolSet
  <2>3. lexed' = Append(lexed, next') /\ offset' = next'.end
    BY <1>5 DEF LexToken
  <2>4. lexed' \in Seq(SymbolSet) /\ offset' \in Nat
    BY <1>3, <2>2, <2>3, AppendProperties
  <2>5. /\ pc' = (IF pc = "start" THEN "parse" ELSE pc)
        /\ UNCHANGED << input, ignored, pending, stack, recovering, shifts, recovery,
                        events, reported, errors >>
    BY <1>5 DEF LexToken
  <2> QED
    BY <2>2, <2>4, <2>5 DEF TypeInv, TypeOK, NoRecovery
<1> QED
  BY <1>1, <1>4, <1>5

LEMMA ShiftToType ==
  ASSUME TypeInv, pc # "skip", NEW q \in State, ShiftTo(q)
  PROVE  TypeInv'
<1>1. TypeOK /\ recovery = NoRecovery
  BY DEF TypeInv
<1>2. /\ pending' \in Seq(SymbolSet) /\ reported' \in Seq(SymbolSet)
      /\ events' \in Seq(EventSet)
  BY <1>1, FlushType DEF ShiftTo
<1>3. stack' = Append(stack, Entry(next.sym, next.off, next.end, q))
  BY DEF ShiftTo
<1>4. stack' \in Seq(EntrySet) /\ stack' # <<>>
  <2>1. Entry(next.sym, next.off, next.end, q) \in EntrySet
    <3>1. next.sym \in Terminals
      BY <1>1, ShiftsAreInRows DEF ShiftTo, Shift
    <3> QED
      BY <1>1, <3>1 DEF Entry, EntrySet, TypeOK, SymbolSet
  <2>2. stack \in Seq(EntrySet)
    BY <1>1 DEF TypeOK
  <2> QED
    BY <1>3, <2>1, <2>2, AppendProperties
<1>5. next' \in SymbolSet
  BY <1>1 DEF ShiftTo, TypeOK, SymbolSet
<1>6. recovering' \in 0 .. 4 /\ shifts' \in Nat
  BY <1>1 DEF ShiftTo, CountDown, TypeOK
<1>7. UNCHANGED << lexVars, recovery, errors, pc >>
  BY DEF ShiftTo
<1> QED
  BY <1>1, <1>2, <1>4, <1>5, <1>6, <1>7 DEF TypeInv, TypeOK, lexVars, NoRecovery, EventSet

LEMMA CancelType ==
  ASSUME TypeInv, pc # "skip", Cancel
  PROVE  TypeInv'
BY DEF Cancel, TypeInv, TypeOK, lexVars, NoRecovery

LEMMA ReportErrorType ==
  ASSUME TypeInv, pc # "skip", NEW goOn \in BOOLEAN, ReportError(goOn)
  PROVE  TypeInv'
<1>1. TypeOK /\ recovery = NoRecovery
  BY DEF TypeInv
<1>2. errors' \in Seq([off : Nat, end : Nat, at : Nat])
  <2>1. errors' = Append(errors, [off |-> next.off, end |-> next.end, at |-> shifts])
    BY DEF ReportError
  <2>2. [off |-> next.off, end |-> next.end, at |-> shifts]
          \in [off : Nat, end : Nat, at : Nat]
    BY <1>1 DEF TypeOK, SymbolSet
  <2> QED
    BY <1>1, <2>1, <2>2, AppendProperties DEF TypeOK
<1>3. UNCHANGED << lexVars, next, stack, shifts, recovery >>
  BY DEF ReportError
<1>4. CASE goOn /\ pc' = "recover" /\ recovering' = 4 /\ UNCHANGED << pending, events, reported >>
  BY <1>1, <1>2, <1>3, <1>4 DEF TypeInv, TypeOK, lexVars, NoRecovery
<1>5. CASE ~goOn /\ pc' = "failed" /\ Flush(next.end) /\ UNCHANGED recovering
  <2>1. /\ pending' \in Seq(SymbolSet) /\ reported' \in Seq(SymbolSet)
        /\ events' \in Seq(EventSet)
    BY <1>1, <1>5, FlushType
  <2> QED
    BY <1>1, <1>2, <1>3, <1>5, <2>1 DEF TypeInv, TypeOK, lexVars, NoRecovery, EventSet
<1> QED
  BY <1>4, <1>5 DEF ReportError

LEMMA RepeatedErrorType ==
  ASSUME TypeInv, pc # "skip", RepeatedError
  PROVE  TypeInv'
BY DEF RepeatedError, TypeInv, TypeOK, lexVars, NoRecovery

LEMMA AcceptType ==
  ASSUME TypeInv, Accept
  PROVE  TypeInv'
BY DEF Accept, TypeInv, TypeOK, lexVars, NoRecovery

LEMMA NoRecoveryPointType ==
  ASSUME TypeInv, NoRecoveryPoint
  PROVE  TypeInv'
<1>1. TypeOK
  BY DEF TypeInv
<1>2. /\ pending' \in Seq(SymbolSet) /\ reported' \in Seq(SymbolSet)
      /\ events' \in Seq(EventSet)
  BY <1>1, FlushType DEF NoRecoveryPoint
<1> QED
  BY <1>1, <1>2 DEF NoRecoveryPoint, TypeInv, TypeOK, lexVars, NoRecovery, EventSet

LEMMA StartRecoveryType ==
  ASSUME TypeInv, StartRecovery
  PROVE  TypeInv'
<1> DEFINE starts == { next.off } \union { pending[i].off : i \in InvalidPending }
           ends   == IF InvalidPending = {} THEN { next.off }
                     ELSE { pending[i].end : i \in { k \in InvalidPending :
                                                      IsMax(k, InvalidPending) } }
<1>1. PICK s \in starts, e \in ends :
        recovery' = [pos |-> ErrorPositions, syms |-> AfterErr, s |-> s, e |-> e]
  BY DEF StartRecovery
<1>2. next.off \in Nat /\ \A i \in InvalidPending : pending[i].off \in Nat /\ pending[i].end \in Nat
  <2>1. \A i \in DOMAIN pending : pending[i] \in SymbolSet
    BY ElementOfSeq, LenProperties DEF TypeInv, TypeOK
  <2> QED
    BY <2>1 DEF InvalidPending, SymbolSet, TypeInv, TypeOK
<1>3. s \in Nat /\ e \in Nat
  BY <1>1, <1>2
<1>4. ErrorPositions \in SUBSET (DOMAIN stack) /\ AfterErr \in SUBSET Terminals
  BY SymbolAssumption DEF ErrorPositions
<1>5. recovery' \in [pos : SUBSET (DOMAIN stack), syms : SUBSET Terminals, s : Nat, e : Nat]
  BY <1>1, <1>3, <1>4
<1>6. /\ pc' = "skip"
      /\ UNCHANGED << lexVars, pending, next, stack, recovering, shifts, events,
                      reported, errors >>
  BY DEF StartRecovery
<1> QED
  BY <1>5, <1>6 DEF TypeInv, TypeOK, lexVars

LEMMA SkipTokenType ==
  ASSUME TypeInv, SkipToken
  PROVE  TypeInv'
<1>1. TypeOK
  BY DEF TypeInv
<1>2. /\ pending' \in Seq(SymbolSet) /\ reported' \in Seq(SymbolSet)
      /\ events' \in Seq(EventSet)
  BY <1>1, FlushType DEF SkipToken
<1>3. next' \in SymbolSet
  BY <1>1 DEF SkipToken, TypeOK, SymbolSet
<1>4. recovery' \in [pos : SUBSET (DOMAIN stack), syms : SUBSET Terminals, s : Nat, e : Nat]
  BY <1>1 DEF SkipToken, TypeOK, SymbolSet
<1>5. UNCHANGED << lexVars, stack, recovering, shifts, errors, pc >> /\ pc = "skip"
  BY DEF SkipToken
<1> QED
  BY <1>1, <1>2, <1>3, <1>4, <1>5 DEF TypeInv, TypeOK, lexVars, EventSet

\* The range and the state that `error` gets on the stack.
LEMMA ErrorType ==
  ASSUME TypeOK, NEW n \in DOMAIN stack, IsMax(n, MatchingPositions)
  PROVE  /\ gotoState(stack[n].state, ErrSym) \in State
         /\ ErrorStart(n) \in Nat
         /\ ErrorEnd(n) \in Nat
         /\ \A e \in ErrorEnds(n) : e \in Nat
<1>1. stack[n].state \in State /\ n \in 1 .. Len(stack) /\ Len(stack) \in Nat
  BY CurType
<1>2. gotoState(stack[n].state, ErrSym) # NoState
  BY DEF IsMax, MatchingPositions, reduceAll
<1>3. recovery.s \in Nat /\ recovery.e \in Nat
  BY DEF TypeOK
<1>4. ErrorStart(n) \in Nat
  <2>1. n < Len(stack) => stack[n + 1] \in EntrySet
    BY <1>1, CurType
  <2> QED
    BY <1>3, <2>1 DEF ErrorStart, EntrySet
<1>5. ErrorEnd(n) \in Nat
  BY <1>3, CurType DEF ErrorEnd, EntrySet
<1>6. \A i \in DOMAIN pending : pending[i].end \in Nat
  <2>1. \A i \in DOMAIN pending : pending[i] \in SymbolSet
    BY ElementOfSeq, LenProperties DEF TypeOK
  <2> QED
    BY <2>1 DEF SymbolSet
<1>7. \A e \in ErrorEnds(n) : e \in Nat
  BY <1>5, <1>6 DEF ErrorEnds, InvalidPending
<1> QED
  BY <1>1, <1>2, <1>4, <1>5, <1>7, gotoStateType

LEMMA RecoverType ==
  ASSUME TypeInv, NEW n \in DOMAIN stack, Recover(n)
  PROVE  TypeInv'
<1>1. TypeOK /\ IsMax(n, MatchingPositions)
  BY DEF TypeInv, Recover
<1>2. PICK e \in ErrorEnds(n) :
        /\ Flush(e)
        /\ stack' = Append(SubSeq(stack, 1, n),
                           Entry(ErrSym, ErrorStart(n), e,
                                 gotoState(stack[n].state, ErrSym)))
  BY DEF Recover
<1>3. /\ pending' \in Seq(SymbolSet) /\ reported' \in Seq(SymbolSet)
      /\ events' \in Seq(EventSet)
  BY <1>1, <1>2, FlushType
<1>4. stack' \in Seq(EntrySet) /\ stack' # <<>>
  <2> DEFINE base == SubSeq(stack, 1, n)
             err  == Entry(ErrSym, ErrorStart(n), e, gotoState(stack[n].state, ErrSym))
  <2>1. base \in Seq(EntrySet)
    BY <1>1, CurType, SubSeqProperties
  <2>2. err \in EntrySet
    BY <1>1, <1>2, ErrorType, SymbolAssumption DEF Entry, EntrySet
  <2>3. stack' = Append(base, err)
    BY <1>2
  <2> HIDE DEF base, err
  <2> QED
    BY <2>1, <2>2, <2>3, AppendProperties
<1>5. /\ recovery' = NoRecovery /\ pc' = "parse"
      /\ UNCHANGED << lexVars, next, recovering, shifts, errors >>
  BY DEF Recover
<1> QED
  BY <1>1, <1>3, <1>4, <1>5 DEF TypeInv, TypeOK, lexVars, NoRecovery, EventSet

LEMMA DropSymbolType ==
  ASSUME TypeInv, DropSymbol
  PROVE  TypeInv'
<1>1. recovery' \in [pos : SUBSET (DOMAIN stack), syms : SUBSET Terminals, s : Nat, e : Nat]
  BY DEF DropSymbol, TypeInv, TypeOK
<1> QED
  BY <1>1 DEF DropSymbol, TypeInv, TypeOK, lexVars

LEMMA GiveUpType ==
  ASSUME TypeInv, GiveUp
  PROVE  TypeInv'
<1>1. TypeOK
  BY DEF TypeInv
<1>2. /\ pending' \in Seq(SymbolSet) /\ reported' \in Seq(SymbolSet)
      /\ events' \in Seq(EventSet)
  BY <1>1, FlushType DEF GiveUp
<1> QED
  BY <1>1, <1>2 DEF GiveUp, TypeInv, TypeOK, lexVars, NoRecovery, EventSet

LEMMA NextType == TypeInv /\ [Next]_vars => TypeInv'
<1> SUFFICES ASSUME TypeInv, [Next]_vars PROVE TypeInv'
  OBVIOUS
<1>1. CASE Lex
  BY <1>1, LexType
<1>2. CASE Parse
  <2>1. pc # "skip"
    BY <1>2 DEF Parse, InLoop
  <2>2. CASE \E r \in Rule : ReduceBy(r)
    BY <2>1, <2>2, ReduceByType
  <2>3. CASE \E q \in State : ShiftTo(q)
    BY <2>1, <2>3, ShiftToType
  <2>4. CASE Cancel
    BY <2>1, <2>4, CancelType
  <2>5. CASE \E goOn \in BOOLEAN : ReportError(goOn)
    BY <2>1, <2>5, ReportErrorType
  <2>6. CASE RepeatedError
    BY <2>1, <2>6, RepeatedErrorType
  <2> QED
    BY <1>2, <2>2, <2>3, <2>4, <2>5, <2>6 DEF Parse
<1>3. CASE Accept
  BY <1>3, AcceptType
<1>4. CASE recoverFromError
  <2>1. CASE NoRecoveryPoint
    BY <2>1, NoRecoveryPointType
  <2>2. CASE StartRecovery
    BY <2>2, StartRecoveryType
  <2>3. CASE SkipToken
    BY <2>3, SkipTokenType
  <2>4. CASE \E n \in DOMAIN stack : Recover(n)
    BY <2>4, RecoverType
  <2>5. CASE DropSymbol
    BY <2>5, DropSymbolType
  <2>6. CASE GiveUp
    BY <2>6, GiveUpType
  <2> QED
    BY <1>4, <2>1, <2>2, <2>3, <2>4, <2>5, <2>6 DEF recoverFromError
<1>5. CASE Finished \/ UNCHANGED vars
  BY <1>5 DEF Finished, vars, TypeInv, TypeOK, NoRecovery
<1> QED
  BY <1>1, <1>2, <1>3, <1>4, <1>5 DEF Next

LEMMA TypeInvariant == Spec => []TypeInv
<1>1. Init => TypeInv
  BY InitType
<1>2. TypeInv /\ [Next]_vars => TypeInv'
  BY NextType
<1> QED
  BY <1>1, <1>2, PTL DEF Spec

\* Whatever the tables and the text, every variable keeps the shape the code
\* gives it: no step reads a cell, a stack entry or a sub-range of a rule that
\* is not there, and `recovering` counts down from 4 and stops at 0.
THEOREM TypeCorrect == Spec => []TypeOK
<1>1. TypeInv => TypeOK
  BY DEF TypeInv
<1> QED
  BY <1>1, TypeInvariant, PTL

-----------------------------------------------------------------------------
(***************************************************************************)
(* Tokens put aside are reported exactly once and in order.                *)
(***************************************************************************)
LEMMA FlushConserves ==
  ASSUME TypeOK, NEW end, Flush(end)
  PROVE  reported' \o pending' = reported \o pending
<1>1. PICK n \in 0 .. Len(pending) :
        /\ pending'  = SubSeq(pending, n + 1, Len(pending))
        /\ reported' = reported \o SubSeq(pending, 1, n)
  BY DEF Flush
<1>2. pending \in Seq(SymbolSet) /\ reported \in Seq(SymbolSet) /\ Len(pending) \in Nat
  BY LenProperties DEF TypeOK
<1> DEFINE flushed == SubSeq(pending, 1, n)
           kept    == SubSeq(pending, n + 1, Len(pending))
<1>3. flushed \in Seq(SymbolSet) /\ kept \in Seq(SymbolSet)
  BY <1>2, SubSeqProperties, LenProperties
<1>4. flushed \o kept = pending
  <2>1. 1 \in 1 .. Len(pending) + 1 /\ n \in 1 - 1 .. Len(pending) /\ Len(pending) \in n .. Len(pending)
    BY <1>2
  <2>2. flushed \o kept = SubSeq(pending, 1, Len(pending))
    BY <1>2, <2>1, ConcatAdjacentSubSeq, Zenon
  <2> QED
    BY <1>2, <2>2, SubSeqFull
<1>5. (reported \o flushed) \o kept = reported \o (flushed \o kept)
  <2>1. \A s, t, u \in Seq(SymbolSet) : (s \o t) \o u = s \o (t \o u)
    <3> SUFFICES ASSUME NEW s \in Seq(SymbolSet), NEW t \in Seq(SymbolSet), NEW u \in Seq(SymbolSet)
                 PROVE  (s \o t) \o u = s \o (t \o u)
      OBVIOUS
    <3> QED
      BY ONLY ConcatAssociative
  <2> HIDE DEF flushed, kept
  <2> QED
    BY <1>2, <1>3, <2>1
<1> QED
  BY <1>1, <1>4, <1>5

LEMMA LexConserves ==
  ASSUME TypeOK, IgnoredConserved, Lex
  PROVE  IgnoredConserved'
<1>1. PICK gap \in Gaps :
        \/ \E t \in Ignored : LexIgnored(t, gap)
        \/ \E t \in Terminals \ {ErrSym} : LexToken(t, gap)
  BY DEF Lex
<1>2. ASSUME NEW t \in Ignored, LexIgnored(t, gap)
      PROVE  IgnoredConserved'
  <2> DEFINE tok == Symbol(t, offset + gap, offset + gap + 1)
  <2>1. tok \in SymbolSet
    BY BoundAssumption DEF TypeOK, Symbol, SymbolSet
  <2>2. pending' = Append(pending, tok) /\ ignored' = Append(ignored, tok) /\ reported' = reported
    BY <1>2 DEF LexIgnored
  <2>3. pending \in Seq(SymbolSet) /\ reported \in Seq(SymbolSet) /\ ignored \in Seq(SymbolSet)
    BY DEF TypeOK
  <2> HIDE DEF tok
  <2>4. pending' = pending \o << tok >> /\ ignored' = ignored \o << tok >>
    BY <2>1, <2>2, <2>3, AppendIsConcat
  <2>5. (reported \o pending) \o << tok >> = reported \o (pending \o << tok >>)
    <3>1. << tok >> \in Seq(SymbolSet)
      BY <2>1
    <3> QED
      BY <2>3, <3>1, ConcatAssociative
  <2> QED
    BY <2>2, <2>4, <2>5 DEF IgnoredConserved
<1>3. ASSUME NEW t \in Terminals \ {ErrSym}, LexToken(t, gap)
      PROVE  IgnoredConserved'
  BY <1>3 DEF LexToken, IgnoredConserved
<1> QED
  BY <1>1, <1>2, <1>3

\* Every step flushes, or leaves the pending and the reported tokens alone,
\* or takes a token from the lexer.
LEMMA StepsThatFlush ==
  ASSUME [Next]_vars
  PROVE  \/ Lex
         \/ (\E end : Flush(end)) /\ UNCHANGED ignored
         \/ UNCHANGED << pending, reported, ignored >>
<1> USE DEF lexVars
<1>1. CASE Parse
  <2>1. ASSUME NEW goOn \in BOOLEAN, ReportError(goOn)
        PROVE  \/ (\E end : Flush(end)) /\ UNCHANGED ignored
               \/ UNCHANGED << pending, reported, ignored >>
    BY <2>1, Zenon DEF ReportError
  <2>2. ASSUME NEW q \in State, ShiftTo(q)
        PROVE  (\E end : Flush(end)) /\ UNCHANGED ignored
    BY <2>2, Zenon DEF ShiftTo
  <2> QED
    BY <1>1, <2>1, <2>2, Zenon DEF Parse, ReduceBy, Cancel, RepeatedError
<1>2. CASE recoverFromError
  <2>1. ASSUME NEW n \in DOMAIN stack, Recover(n)
        PROVE  (\E end : Flush(end)) /\ UNCHANGED ignored
    BY <2>1, Zenon DEF Recover
  <2>2. CASE NoRecoveryPoint \/ SkipToken \/ GiveUp
    BY <2>2, Zenon DEF NoRecoveryPoint, SkipToken, GiveUp
  <2>3. CASE StartRecovery \/ DropSymbol
    BY <2>3, Zenon DEF StartRecovery, DropSymbol
  <2> QED
    BY <1>2, <2>1, <2>2, <2>3, Zenon DEF recoverFromError
<1> QED
  BY <1>1, <1>2, Zenon DEF Next, Accept, Finished, vars

LEMMA NextConserves == TypeOK /\ IgnoredConserved /\ [Next]_vars => IgnoredConserved'
<1> SUFFICES ASSUME TypeOK, IgnoredConserved, [Next]_vars PROVE IgnoredConserved'
  OBVIOUS
<1>1. CASE Lex
  BY <1>1, LexConserves
<1>2. CASE (\E end : Flush(end)) /\ UNCHANGED ignored
  BY <1>2, FlushConserves DEF IgnoredConserved
<1>3. CASE UNCHANGED << pending, reported, ignored >>
  BY <1>3 DEF IgnoredConserved
<1> QED
  BY <1>1, <1>2, <1>3, StepsThatFlush

\* For every grammar and text, and wherever errors occur: what the listener was
\* told of ignored tokens, followed by what is pending, is what was put aside.
THEOREM IgnoredTokensConserved == Spec => []IgnoredConserved
<1>1. Init => IgnoredConserved
  BY ConcatEmptySeq, EmptySeq DEF Init, IgnoredConserved
<1>2. TypeOK /\ IgnoredConserved /\ [Next]_vars => IgnoredConserved'
  BY NextConserves
<1> QED
  BY <1>1, <1>2, TypeCorrect, PTL DEF Spec

-----------------------------------------------------------------------------
(***************************************************************************)
(* Nothing is left pending.  flush reports the tokens that end before the  *)
(* one in hand, so what has to be shown is that every pending token does,  *)
(* and that parse does not fail with tokens pending and none in hand.      *)
(***************************************************************************)
\* The token in hand is behind all that is pending; without one, tokens are
\* pending only while the parser waits for the lexer; a parser that failed, or
\* reached the end of the text, has nothing pending.
PendingInv ==
  /\ \A i \in DOMAIN pending : pending[i].end <= offset
  /\ next.sym # NoToken => \A i \in DOMAIN pending : pending[i].end <= next.end
  /\ next.sym = NoToken /\ pending # <<>> => TokenWanted
  /\ pc = "failed" => pending = <<>>
  /\ pc = "start" => cur = input.start
  /\ pc = "accepted" => cur = input.end
  /\ pc \in {"start", "parse", "accepted"} /\ input.eoi /\ cur = input.end => pending = <<>>

\* A flush at a place behind all pending tokens reports them all.
LEMMA FlushAll ==
  ASSUME TypeOK, NEW end \in Nat, Flush(end),
         \A i \in DOMAIN pending : pending[i].end <= end
  PROVE  pending' = <<>>
<1>1. PICK n \in 0 .. Len(pending) :
        /\ n < Len(pending) => pending[n + 1].end > end
        /\ pending' = SubSeq(pending, n + 1, Len(pending))
  BY DEF Flush
<1>2. Len(pending) \in Nat /\ DOMAIN pending = 1 .. Len(pending)
  BY LenProperties DEF TypeOK
<1>3. ~ (n < Len(pending))
  <2> SUFFICES ASSUME n < Len(pending) PROVE FALSE
    OBVIOUS
  <2>1. n + 1 \in DOMAIN pending
    BY <1>2
  <2>2. pending[n + 1].end <= end /\ pending[n + 1].end > end
    BY <1>1, <2>1
  <2>3. pending[n + 1].end \in Nat
    <3>1. pending[n + 1] \in SymbolSet
      BY <1>2, <2>1, ElementOfSeq DEF TypeOK
    <3> QED
      BY <3>1 DEF SymbolSet
  <2> QED
    BY <2>2, <2>3
<1>4. Len(pending) < n + 1
  BY <1>2, <1>3
<1> QED
  BY <1>1, <1>2, <1>4, SubSeqEmpty

\* A flush only takes tokens away.
LEMMA FlushKeeps ==
  ASSUME TypeOK, NEW end, Flush(end)
  PROVE  \A i \in DOMAIN pending' : \E j \in DOMAIN pending : pending'[i] = pending[j]
<1>1. PICK n \in 0 .. Len(pending) : pending' = SubSeq(pending, n + 1, Len(pending))
  BY DEF Flush
<1>2. Len(pending) \in Nat /\ DOMAIN pending = 1 .. Len(pending)
  BY LenProperties DEF TypeOK
<1> DEFINE m == n + 1
           l == Len(pending)
<1>3. m \in Int /\ l \in Int /\ l - m + 1 \in Nat
  BY <1>2
<1>4. \A i \in m .. l : pending[i] \in SymbolSet
  BY <1>2, ElementOfSeq DEF TypeOK
<1>5. /\ SubSeq(pending, m, l) \in Seq(SymbolSet)
      /\ Len(SubSeq(pending, m, l)) = IF m <= l THEN l - m + 1 ELSE 0
      /\ \A i \in 1 .. l - m + 1 : SubSeq(pending, m, l)[i] = pending[m + i - 1]
  <2> HIDE DEF m, l
  <2> QED
    BY <1>3, <1>4, SubSeqProperties
<1>6. pending' \in Seq(SymbolSet) /\ Len(pending') = l - m + 1
  BY <1>1, <1>3, <1>5
<1>7. DOMAIN pending' = 1 .. l - m + 1
  BY <1>6, LenProperties
<1> SUFFICES ASSUME NEW i \in 1 .. l - m + 1
             PROVE  \E j \in DOMAIN pending : pending'[i] = pending[j]
  BY <1>7
<1>8. m + i - 1 \in DOMAIN pending
  BY <1>2
<1>9. pending'[i] = pending[m + i - 1]
  BY <1>1, <1>5
<1> QED
  BY <1>8, <1>9

LEMMA PendingTypes ==
  ASSUME TypeOK
  PROVE  /\ next.end \in Nat /\ offset \in Nat
         /\ \A i \in DOMAIN pending : pending[i].end \in Nat
<1>1. \A i \in DOMAIN pending : pending[i] \in SymbolSet
  BY ElementOfSeq, LenProperties DEF TypeOK
<1> QED
  BY <1>1 DEF TypeOK, SymbolSet

LEMMA LexPending ==
  ASSUME TypeInv, PendingInv, Lex
  PROVE  PendingInv'
<1>1. PICK gap \in Gaps :
        \/ \E t \in Ignored : LexIgnored(t, gap)
        \/ \E t \in Terminals \ {ErrSym} : LexToken(t, gap)
  BY DEF Lex
<1>2. TypeOK /\ gap \in Nat /\ offset \in Nat /\ pending \in Seq(SymbolSet)
  BY BoundAssumption DEF TypeInv, TypeOK
<1>3. TokenWanted /\ next.sym = NoToken
  BY <1>1 DEF LexIgnored, LexToken, TokenWanted
<1>4. ASSUME NEW t \in Ignored, LexIgnored(t, gap)
      PROVE  PendingInv'
  <2> DEFINE tok == Symbol(t, offset + gap, offset + gap + 1)
  <2>1. tok \in SymbolSet /\ tok.end = offset + gap + 1
    BY <1>2 DEF Symbol, SymbolSet
  <2>2. pending' = Append(pending, tok) /\ offset' = tok.end
    BY <1>4 DEF LexIgnored
  <2>3. UNCHANGED << input, next, stack, recovering, pc >>
    BY <1>4 DEF LexIgnored
  <2>4. TokenWanted'
    BY <1>3, <2>3 DEF TokenWanted, cur, Rhs
  <2>5. \A i \in DOMAIN pending' : pending'[i].end <= offset'
    <3>1. /\ DOMAIN pending' = 1 .. Len(pending) + 1
          /\ \A i \in 1 .. Len(pending) : pending'[i] = pending[i]
          /\ pending'[Len(pending) + 1] = tok
      <4> HIDE DEF tok
      <4> QED
        BY <1>2, <2>1, <2>2, AppendProperties, LenProperties
    <3>2. \A i \in 1 .. Len(pending) : pending[i].end \in Nat /\ pending[i].end <= offset
      BY <1>2, PendingTypes, LenProperties DEF PendingInv
    <3> HIDE DEF tok
    <3>3. offset <= offset'
      BY <1>2, <2>1, <2>2
    <3>4. ASSUME NEW i \in 1 .. Len(pending) + 1 PROVE pending'[i].end <= offset'
      <4>1. CASE i = Len(pending) + 1
        BY <1>2, <2>1, <2>2, <3>1, <4>1
      <4>2. CASE i \in 1 .. Len(pending)
        BY <1>2, <2>1, <2>2, <3>1, <3>2, <3>3, <4>2
      <4> QED
        BY <1>2, <4>1, <4>2, LenProperties
    <3> QED
      BY <3>1, <3>4
  <2>6. pc # "failed" /\ (pc = "parse" => cur # input.end) /\ pc # "accepted"
    BY <1>3 DEF TokenWanted
  <2>7. input.eoi /\ pc = "start" => cur # input.end
    BY <1>2, FinalStateAssumption DEF PendingInv, TypeOK
  <2> QED
    BY <1>3, <2>3, <2>4, <2>5, <2>6, <2>7 DEF PendingInv, cur
<1>5. ASSUME NEW t \in Terminals \ {ErrSym}, LexToken(t, gap)
      PROVE  PendingInv'
  <2>1. next' = Symbol(t, offset + gap, offset + gap + (IF t = EOI THEN 0 ELSE 1))
    BY <1>5 DEF LexToken
  <2>2. next'.sym # NoToken /\ next'.end \in Nat /\ offset' = next'.end /\ offset <= next'.end
    BY <1>2, <1>5, <2>1, SymbolAssumption DEF Symbol, LexToken
  <2>3. pending' = pending /\ input' = input /\ stack' = stack
    BY <1>5 DEF LexToken
  <2>4. \A i \in DOMAIN pending' : pending'[i].end <= next'.end
    BY <1>2, <2>2, <2>3, PendingTypes DEF PendingInv
  <2>5. pc' \notin {"failed", "start", "accepted"} /\ (pc \in {"start", "parse", "accepted"} <=> pc' \in {"start", "parse", "accepted"})
    BY <1>3, <1>5 DEF LexToken, TokenWanted
  <2> QED
    BY <2>2, <2>3, <2>4, <2>5 DEF PendingInv, cur
<1> QED
  BY <1>1, <1>4, <1>5

LEMMA ReduceByPending ==
  ASSUME TypeInv, PendingInv, InLoop, NEW r \in Rule, ReduceBy(r)
  PROVE  PendingInv'
<1>1. UNCHANGED << pending, next, offset, input, pc >>
  BY DEF ReduceBy, lexVars
<1>2. next.sym = NoToken => pending = <<>>
  BY DEF InLoop, PendingInv
<1>3. pc = "parse" /\ TypeOK
  BY DEF InLoop, TypeInv
<1>4. input.eoi => cur' # input.end
  <2> DEFINE base == SubSeq(stack, 1, Len(stack) - RuleLen[r])
  <2>1. PICK off, end : stack' = Append(base, Entry(RuleSymbol[r], off, end,
                                          gotoNT(Last(base).state, RuleSymbol[r])))
    BY DEF ReduceBy
  <2>2. base # <<>> /\ base \in Seq(EntrySet) /\ Len(base) \in Nat \ {0}
    <3>1. RuleLen[r] \in Nat /\ Len(stack) > RuleLen[r] /\ Len(stack) \in Nat
      BY <1>3, CurType, TableAssumption DEF ReduceBy
    <3>2. /\ SubSeq(stack, 1, Len(stack) - RuleLen[r]) \in Seq(EntrySet)
          /\ Len(SubSeq(stack, 1, Len(stack) - RuleLen[r])) = Len(stack) - RuleLen[r]
      BY <1>3, <3>1, CurType, SubSeqProperties
    <3> QED
      BY <3>1, <3>2, EmptySeq
  <2> HIDE DEF base
  <2>3. Last(base) \in EntrySet
    BY <2>2, ElementOfSeq DEF Last
  <2>4. cur' = gotoNT(Last(base).state, RuleSymbol[r])
    BY <2>1, <2>2, LastOfAppend DEF cur, Entry
  <2> QED
    BY <2>3, <2>4, <1>1, <1>3, FinalStateAssumption, TableAssumption DEF EntrySet, TypeOK
<1> QED
  BY <1>1, <1>2, <1>3, <1>4 DEF PendingInv

LEMMA ShiftToPending ==
  ASSUME TypeInv, PendingInv, InLoop, NEW q \in State, ShiftTo(q)
  PROVE  PendingInv'
<1>1. TypeOK /\ Flush(next.end) /\ pc' = "parse" /\ offset' = offset /\ next.end \in Nat
  BY PendingTypes DEF TypeInv, ShiftTo, InLoop, lexVars
<1>2. next.sym # NoToken
  BY <1>1, ShiftsAreInRows, SymbolAssumption DEF ShiftTo, Shift
<1>3. pending' = <<>>
  BY <1>1, <1>2, FlushAll DEF PendingInv
<1> QED
  BY <1>1, <1>3 DEF PendingInv

\* The other turns of the loop.
LEMMA LoopPending ==
  ASSUME TypeInv, PendingInv, InLoop
  PROVE  /\ Cancel => PendingInv'
         /\ \A goOn \in BOOLEAN : ReportError(goOn) => PendingInv'
         /\ RepeatedError => PendingInv'
<1>1. next.sym = NoToken => pending = <<>>
  BY DEF InLoop, PendingInv
<1>2. TypeOK /\ next.end \in Nat
  BY PendingTypes DEF TypeInv
<1>3. ASSUME Cancel \/ RepeatedError PROVE PendingInv'
  BY <1>1, <1>3 DEF Cancel, RepeatedError, PendingInv, lexVars, cur
<1>4. ASSUME NEW goOn \in BOOLEAN, ReportError(goOn) PROVE PendingInv'
  <2>1. UNCHANGED << next, stack, offset, input >>
    BY <1>4 DEF ReportError, lexVars
  <2>2. CASE pc' = "recover" /\ UNCHANGED << pending, events, reported >>
    BY <1>1, <2>1, <2>2 DEF PendingInv, cur
  <2>3. CASE pc' = "failed" /\ Flush(next.end)
    <3>1. pending' = <<>>
      <4>1. \A i \in DOMAIN pending : pending[i].end <= next.end
        BY <1>1 DEF PendingInv
      <4> QED
        BY <1>2, <2>3, <4>1, FlushAll
    <3> QED
      BY <2>1, <2>3, <3>1 DEF PendingInv
  <2> QED
    BY <1>4, <2>2, <2>3 DEF ReportError
<1> QED
  BY <1>3, <1>4

LEMMA AcceptPending ==
  ASSUME TypeInv, PendingInv, Accept
  PROVE  PendingInv'
<1>1. next.sym = NoToken => pending = <<>>
  BY DEF Accept, PendingInv, TokenWanted
<1> QED
  BY <1>1 DEF Accept, PendingInv, lexVars, cur

\* A stack position where `error` can be shifted is, or is above, one that
\* recoverFromError tries.
LEMMA SomePositionIsTried ==
  ASSUME TypeOK, NEW n \in DOMAIN stack, gotoState(stack[n].state, ErrSym) # NoState
  PROVE  ErrorPositions # {}
<1> DEFINE shiftable == { k \in DOMAIN stack : gotoState(stack[k].state, ErrSym) # NoState }
<1>1. Len(stack) \in Nat /\ shiftable \in SUBSET (0 .. Len(stack)) /\ shiftable # {}
  BY CurType
<1>2. Max(shiftable) \in shiftable /\ \A k \in shiftable : k <= Max(shiftable)
  <2> HIDE DEF shiftable
  <2> QED
    BY <1>1, MaxOfSet
<1>3. Max(shiftable) \in ErrorPositions
  <2>1. \A k \in shiftable : ~ (k > Max(shiftable))
    <3> HIDE DEF shiftable
    <3>1. \A k \in shiftable : k \in 0 .. Len(stack)
      BY <1>1
    <3>2. \A k \in shiftable : k \in Int
      BY <1>1, <3>1
    <3> DEFINE m == Max(shiftable)
    <3>3. m \in Int /\ \A k \in shiftable : k <= m
      BY <1>2, <3>2
    <3> HIDE DEF m
    <3>4. \A k \in shiftable : ~ (k > m)
      BY <3>2, <3>3
    <3> QED
      BY <3>4 DEF m
  <2> QED
    BY <1>2, <2>1 DEF ErrorPositions
<1> QED
  BY <1>3

LEMMA NoRecoveryPointPending ==
  ASSUME TypeInv, PendingInv, NoRecoveryPoint
  PROVE  PendingInv'
<1>1. TypeOK /\ next.end \in Nat /\ Flush(next.end) /\ ErrorPositions = {} /\ pc = "recover"
  BY PendingTypes DEF TypeInv, NoRecoveryPoint
<1>2. ~TokenWanted
  BY <1>1, SomePositionIsTried DEF TokenWanted
<1>3. \A i \in DOMAIN pending : pending[i].end <= next.end
  BY <1>2 DEF PendingInv
<1>4. pending' = <<>>
  BY <1>1, <1>3, FlushAll
<1> QED
  BY <1>4 DEF NoRecoveryPoint, PendingInv, lexVars

LEMMA StartRecoveryPending ==
  ASSUME TypeInv, PendingInv, StartRecovery
  PROVE  PendingInv'
BY DEF StartRecovery, PendingInv, lexVars

LEMMA SkipTokenPending ==
  ASSUME TypeInv, PendingInv, SkipToken
  PROVE  PendingInv'
<1>1. TypeOK /\ Flush(next.end) /\ offset' = offset /\ pc' = "skip" /\ next'.sym = NoToken
  BY DEF TypeInv, SkipToken, lexVars, TypeOK, SymbolSet
<1>2. \A i \in DOMAIN pending' : pending'[i].end <= offset'
  BY <1>1, FlushKeeps DEF PendingInv
<1>3. TokenWanted'
  BY <1>1 DEF TokenWanted
<1> QED
  BY <1>1, <1>2, <1>3 DEF PendingInv

LEMMA RecoverPending ==
  ASSUME TypeInv, PendingInv, NEW n \in DOMAIN stack, Recover(n)
  PROVE  PendingInv'
<1>1. /\ TypeOK /\ next.sym # NoToken /\ IsMax(n, MatchingPositions)
      /\ pc' = "parse" /\ UNCHANGED << next, offset, input >>
  BY DEF TypeInv, Recover, lexVars
<1>2. PICK e \in ErrorEnds(n) :
        /\ Flush(e)
        /\ stack' = Append(SubSeq(stack, 1, n),
                           Entry(ErrSym, ErrorStart(n), e,
                                 gotoState(stack[n].state, ErrSym)))
  BY DEF Recover
<1>3. \A i \in DOMAIN pending' : pending'[i].end <= offset' /\ pending'[i].end <= next'.end
  BY <1>1, <1>2, FlushKeeps DEF PendingInv
<1>4. cur' = gotoState(stack[n].state, ErrSym)
  <2> DEFINE base == SubSeq(stack, 1, n)
  <2>1. base \in Seq(EntrySet)
    BY <1>1, CurType, SubSeqProperties
  <2> HIDE DEF base
  <2>2. Last(Append(base, Entry(ErrSym, ErrorStart(n), e, gotoState(stack[n].state, ErrSym))))
          = Entry(ErrSym, ErrorStart(n), e, gotoState(stack[n].state, ErrSym))
    BY <2>1, LastOfAppend
  <2>3. stack' = Append(base, Entry(ErrSym, ErrorStart(n), e, gotoState(stack[n].state, ErrSym)))
    BY <1>2 DEF base
  <2> QED
    BY <2>2, <2>3 DEF cur, Entry
<1>5. input.eoi => cur' # input.end
  BY <1>1, <1>4, CurType, FinalStateAssumption DEF TypeOK
<1> QED
  BY <1>1, <1>3, <1>5 DEF PendingInv

LEMMA DropSymbolPending ==
  ASSUME TypeInv, PendingInv, DropSymbol
  PROVE  PendingInv'
BY DEF DropSymbol, PendingInv, lexVars

LEMMA GiveUpPending ==
  ASSUME TypeInv, PendingInv, GiveUp
  PROVE  PendingInv'
<1>1. TypeOK /\ next.end \in Nat /\ Flush(next.end) /\ next.sym # NoToken
  BY PendingTypes, SymbolAssumption DEF TypeInv, GiveUp
<1>2. pending' = <<>>
  BY <1>1, FlushAll DEF PendingInv
<1> QED
  BY <1>2 DEF GiveUp, PendingInv, lexVars

LEMMA NextPending == TypeInv /\ PendingInv /\ [Next]_vars => PendingInv'
<1> SUFFICES ASSUME TypeInv, PendingInv, [Next]_vars PROVE PendingInv'
  OBVIOUS
<1>1. CASE Lex
  BY <1>1, LexPending
<1>2. CASE Parse
  BY <1>2, ReduceByPending, ShiftToPending, LoopPending DEF Parse
<1>3. CASE Accept
  BY <1>3, AcceptPending
<1>4. CASE recoverFromError
  BY <1>4, NoRecoveryPointPending, StartRecoveryPending, SkipTokenPending, RecoverPending,
     DropSymbolPending, GiveUpPending
  DEF recoverFromError
<1>5. CASE Finished \/ UNCHANGED vars
  BY <1>5 DEF Finished, vars, PendingInv, TokenWanted, cur, Rhs
<1> QED
  BY <1>1, <1>2, <1>3, <1>4, <1>5 DEF Next

\* For every grammar and text: a parse that fails, or that reads its text to
\* the end, has told the listener of every token that was put aside.
THEOREM NothingIsLeftPending == Spec => []NothingLeftPending
<1>1. Init => PendingInv
  <2> SUFFICES ASSUME Init PROVE PendingInv
    OBVIOUS
  <2>1. pending = <<>> /\ DOMAIN pending = {} /\ cur = input.start /\ pc = "start"
    BY DEF Init, cur, Last, Entry
  <2> QED
    BY <2>1 DEF PendingInv
<1>2. TypeInv /\ PendingInv /\ [Next]_vars => PendingInv'
  BY NextPending
<1>3. Spec => []PendingInv
  BY <1>1, <1>2, TypeInvariant, PTL DEF Spec
<1>4. PendingInv => NothingLeftPending
  BY DEF PendingInv, NothingLeftPending
<1> QED
  BY <1>3, <1>4, PTL

-----------------------------------------------------------------------------
(***************************************************************************)
(* Errors are not reported in cascades.  `recovering` counts down with     *)
(* every shift and is set to 4 by every error, reported or not, so that    *)
(* together with the shifts made so far it measures the distance to the    *)
(* last report.                                                            *)
(***************************************************************************)
\* While the parser runs, no reported error is closer than 4 - recovering
\* shifts; at the next report `recovering` is 0.
ApartInv ==
  /\ ~Returned => \A i \in DOMAIN errors : errors[i].at + 4 <= shifts + recovering
  /\ ErrorsKeepApart

\* A parser that returned takes no step.
LEMMA ReturnedStays ==
  ASSUME Returned, [Next]_vars
  PROVE  UNCHANGED vars
<1> USE DEF Returned
<1>1. ~Lex
  BY Zenon DEF Lex, LexIgnored, LexToken, TokenWanted
<1>2. ~Parse /\ ~Accept
  BY DEF Parse, InLoop, Accept
<1>3. ~recoverFromError
  BY DEF recoverFromError, NoRecoveryPoint, StartRecovery, SkipToken, Recover,
         DropSymbol, GiveUp
<1> QED
  BY <1>1, <1>2, <1>3 DEF Next, Finished

\* What a step does to the distances when it does not report an error: nothing,
\* unless it shifts, looks at the context, or starts a recovery again.
LEMMA StepsThatCount ==
  ASSUME [Next]_vars
  PROVE  \/ UNCHANGED << shifts, recovering, errors >>
         \/ Cancel
         \/ RepeatedError
         \/ \E q \in State : ShiftTo(q)
         \/ \E goOn \in BOOLEAN : ReportError(goOn)
<1>1. CASE Lex
  <2>1. ASSUME NEW gap \in Gaps, NEW t \in Ignored, LexIgnored(t, gap)
        PROVE  UNCHANGED << shifts, recovering, errors >>
    BY <2>1 DEF LexIgnored
  <2>2. ASSUME NEW gap \in Gaps, NEW t \in Terminals, LexToken(t, gap)
        PROVE  UNCHANGED << shifts, recovering, errors >>
    BY <2>2 DEF LexToken
  <2> QED
    BY <1>1, <2>1, <2>2 DEF Lex
<1>2. CASE Parse
  <2>1. ASSUME NEW r \in Rule, ReduceBy(r)
        PROVE  UNCHANGED << shifts, recovering, errors >>
    BY <2>1 DEF ReduceBy
  <2> QED
    BY <1>2, <2>1 DEF Parse
<1>3. CASE recoverFromError
  <2>1. ASSUME NEW n \in DOMAIN stack, Recover(n)
        PROVE  UNCHANGED << shifts, recovering, errors >>
    BY <2>1 DEF Recover
  <2> QED
    BY <1>3, <2>1
    DEF recoverFromError, NoRecoveryPoint, StartRecovery, SkipToken, DropSymbol, GiveUp
<1> QED
  BY <1>1, <1>2, <1>3 DEF Next, Accept, Finished, vars

\* What is known of the errors reported so far.
LEMMA ErrorsType ==
  ASSUME TypeOK
  PROVE  /\ DOMAIN errors = 1 .. Len(errors) /\ Len(errors) \in Nat
         /\ \A i \in DOMAIN errors : errors[i].at \in Nat
<1>1. errors \in Seq([off : Nat, end : Nat, at : Nat])
  BY DEF TypeOK
<1>2. \A i \in 1 .. Len(errors) : errors[i] \in [off : Nat, end : Nat, at : Nat]
  BY <1>1, ElementOfSeq
<1> QED
  BY <1>1, <1>2, LenProperties

LEMMA ReportErrorApart ==
  ASSUME TypeOK, ApartInv, ~Returned, NEW goOn \in BOOLEAN, ReportError(goOn)
  PROVE  ApartInv'
<1> DEFINE e == [off |-> next.off, end |-> next.end, at |-> shifts]
           ErrorSet == [off : Nat, end : Nat, at : Nat]
<1>1. /\ errors' = Append(errors, e) /\ shifts' = shifts /\ recovering = 0
      /\ Returned' \/ recovering' = 4
  BY DEF ReportError, Returned
<1>2. /\ errors \in Seq(ErrorSet) /\ shifts \in Nat /\ Len(errors) \in Nat
      /\ e \in ErrorSet /\ e.at = shifts
  BY LenProperties DEF TypeOK, SymbolSet
<1>3. \A i \in 1 .. Len(errors) : errors[i].at \in Nat /\ errors[i].at + 4 <= shifts
  <2>1. \A i \in DOMAIN errors : errors[i].at + 4 <= shifts + recovering
    BY DEF ApartInv
  <2>2. recovering = 0 /\ shifts \in Nat
    BY <1>1, <1>2
  <2> HIDE DEF e, ErrorSet
  <2> QED
    BY <2>1, <2>2, ErrorsType
<1>4. /\ Len(errors') = Len(errors) + 1
      /\ DOMAIN errors' = 1 .. Len(errors) + 1
      /\ \A i \in 1 .. Len(errors) : errors'[i] = errors[i]
      /\ errors'[Len(errors) + 1] = e
  <2> HIDE DEF e, ErrorSet
  <2> QED
    BY <1>1, <1>2, AppendProperties
<1> HIDE DEF e, ErrorSet
<1>5. ~Returned' => \A i \in DOMAIN errors' : errors'[i].at + 4 <= shifts' + recovering'
  BY <1>1, <1>2, <1>3, <1>4
<1>6. ErrorsKeepApart'
  <2> SUFFICES ASSUME NEW i \in 1 .. Len(errors)
               PROVE  errors'[i + 1].at >= errors'[i].at + 4
    BY <1>2, <1>4 DEF ErrorsKeepApart
  <2>1. CASE i = Len(errors)
    BY <2>1, <1>2, <1>3, <1>4
  <2>2. CASE i # Len(errors)
    <3>1. i \in 1 .. Len(errors) - 1 /\ i + 1 \in 1 .. Len(errors)
      BY <2>2, <1>2
    <3> QED
      BY <3>1, <1>4 DEF ApartInv, ErrorsKeepApart
  <2> QED
    BY <2>1, <2>2
<1> QED
  BY <1>5, <1>6 DEF ApartInv

LEMMA NextApart == TypeOK /\ ApartInv /\ [Next]_vars => ApartInv'
<1> SUFFICES ASSUME TypeOK, ApartInv, [Next]_vars PROVE ApartInv'
  OBVIOUS
<1>1. /\ shifts \in Nat /\ recovering \in 0 .. 4
      /\ \A i \in DOMAIN errors : errors[i].at \in Nat
  BY ErrorsType DEF TypeOK
<1>2. CASE Returned
  BY <1>2, ReturnedStays DEF vars, ApartInv, ErrorsKeepApart, Returned
<1>3. CASE ~Returned
  <2>1. CASE UNCHANGED << shifts, recovering, errors >>
    BY <1>3, <2>1 DEF ApartInv, ErrorsKeepApart
  <2>2. CASE Cancel
    BY <2>2 DEF Cancel, ApartInv, ErrorsKeepApart, Returned
  <2>3. CASE RepeatedError
    BY <1>1, <1>3, <2>3 DEF RepeatedError, ApartInv, ErrorsKeepApart
  <2>4. ASSUME NEW q \in State, ShiftTo(q)
        PROVE  ApartInv'
    <3>1. errors' = errors /\ shifts' = shifts + 1 /\ recovering' = CountDown
      BY <2>4 DEF ShiftTo
    <3>2. shifts + recovering <= shifts' + recovering'
      BY <1>1, <3>1 DEF CountDown
    <3>3. shifts' + recovering' \in Nat
      BY <1>1, <3>1 DEF CountDown
    <3> QED
      BY <1>1, <1>3, <3>1, <3>2, <3>3 DEF ApartInv, ErrorsKeepApart
  <2>5. ASSUME NEW goOn \in BOOLEAN, ReportError(goOn)
        PROVE  ApartInv'
    BY <1>3, <2>5, ReportErrorApart
  <2> QED
    BY <2>1, <2>2, <2>3, <2>4, <2>5, StepsThatCount
<1> QED
  BY <1>2, <1>3

\* For every grammar and text: between two calls of the error handler at least
\* four tokens are shifted.
THEOREM ErrorsAreKeptApart == Spec => []ErrorsKeepApart
<1>1. Init => ApartInv
  <2> SUFFICES ASSUME Init PROVE ApartInv
    OBVIOUS
  <2>1. errors = <<>> /\ DOMAIN errors = {} /\ Len(errors) = 0
    BY DEF Init
  <2> QED
    BY <2>1 DEF ApartInv, ErrorsKeepApart
<1>2. TypeOK /\ ApartInv /\ [Next]_vars => ApartInv'
  BY NextApart
<1>3. ApartInv => ErrorsKeepApart
  BY DEF ApartInv
<1> QED
  BY <1>1, <1>2, <1>3, TypeCorrect, PTL DEF Spec

-----------------------------------------------------------------------------
(***************************************************************************)
(* The token on which a recovery stops is consumed: the parser follows the *)
(* run that reduceAll simulated.                                           *)
(***************************************************************************)
LEMMA ReducedType ==
  ASSUME NEW stk, NEW c \in Configuration, NEW r \in Rule
  PROVE  Reduced(stk, c, r) \in Configuration
<1> DEFINE base == Pop(c, RuleLen[r])
           q == gotoNT(StateOf(stk, base), RuleSymbol[r])
<1>1. c.size \in Int /\ c.top \in Seq(State) /\ Len(c.top) \in Nat /\ RuleLen[r] \in Nat
  BY TableAssumption, LenProperties DEF Configuration
<1>2. /\ base.size \in Int /\ base.top \in Seq(State)
      /\ base = [size |-> base.size, top |-> base.top]
  <2>1. CASE RuleLen[r] < Len(c.top)
    <3>1. SubSeq(c.top, 1, Len(c.top) - RuleLen[r]) \in Seq(State)
      BY <1>1, <2>1, SubSeqProperties, LenProperties
    <3> QED
      BY <1>1, <2>1, <3>1 DEF Pop
  <2>2. CASE ~ (RuleLen[r] < Len(c.top))
    BY <1>1, <2>2 DEF Pop
  <2> QED
    BY <2>1, <2>2
<1>3. RuleSymbol[r] \in Nonterminals
  BY TableAssumption
<1>4. q \in State
  BY <1>3, gotoNTType
<1> HIDE DEF base, q
<1>5. Append(base.top, q) \in Seq(State) /\ Append(base.top, q) # <<>>
  BY <1>2, <1>4, AppendProperties
<1>6. [base EXCEPT !.top = Append(@, q)] = [size |-> base.size, top |-> Append(base.top, q)]
  <2> DEFINE z == base.size
             u == base.top
  <2> HIDE DEF z, u
  <2>1. base = [size |-> z, top |-> u]
    BY <1>2 DEF z, u
  <2>2. [[size |-> z, top |-> u] EXCEPT !.top = Append(@, q)] = [size |-> z, top |-> Append(u, q)]
    OBVIOUS
  <2> QED
    BY <2>1, <2>2 DEF z, u
<1>7. Reduced(stk, c, r) = [base EXCEPT !.top = Append(@, q)]
  BY DEF Reduced, base, q
<1> QED
  BY <1>2, <1>5, <1>6, <1>7 DEF Configuration

\* The recursion of Outcomes is a loop, so it defines a function.
LEMMA OutcomesOf ==
  ASSUME NEW stk, NEW end, NEW t, NEW c \in Configuration
  PROVE  LET q == Last(c.top)
             a == Lookup(q, t)
             f == Outcomes(stk, end, t)
         IN  /\ q # end /\ a.op = "reduce" => f[c] = f[Reduced(stk, c, a.rule)]
             /\ q # end /\ a.op # "reduce" => f[c].ok = (a.op = "shift")
             /\ q = end => f[c].ok = (t = EOI)
<1> DEFINE Q(d) == Last(d.top)
           A(d) == Lookup(Q(d), t)
           Goes(d) == Q(d) # end /\ A(d).op = "reduce"
           Result(d) == [state |-> Q(d), ok |-> IF Q(d) = end THEN t = EOI ELSE A(d).op = "shift"]
           IsRun(run) == run = [d \in Configuration |->
                                  IF Goes(d) THEN run[Reduced(stk, d, A(d).rule)] ELSE Result(d)]
           stop == { d \in Configuration : ~ Goes(d) }
           nx == [d \in Configuration |-> IF Goes(d) THEN Reduced(stk, d, A(d).rule) ELSE d]
           val == [d \in Configuration |-> Result(d)]
<1>1. \A d \in Configuration : Goes(d) => Reduced(stk, d, A(d).rule) \in Configuration
  <2> SUFFICES ASSUME NEW d \in Configuration, Goes(d)
               PROVE  Reduced(stk, d, A(d).rule) \in Configuration
    OBVIOUS
  <2>1. d.top \in Seq(State) /\ d.top # <<>>
    BY DEF Configuration
  <2>2. Q(d) \in State
    BY <2>1, EmptySeq, LenProperties, ElementOfSeq DEF Last
  <2>3. A(d) \in TableAction
    BY <2>2, LookupType
  <2>4. A(d).rule \in Rule
    <3> DEFINE a == A(d)
    <3>1. a \in TableAction /\ a.op = "reduce"
      BY <2>3
    <3> HIDE DEF a
    <3>2. a.rule \in Rule
      BY <3>1 DEF TableAction, Shift, Reduce, Error
    <3> QED
      BY <3>2 DEF a
  <2> QED
    BY <2>4, ReducedType
<1> HIDE DEF Q, A, Goes, Result
<1>2. nx \in [Configuration -> Configuration]
  BY <1>1
<1>3. PICK f : IsLoop(f, Configuration, stop, nx, val)
  <2> HIDE DEF stop, nx, val
  <2> QED
    BY <1>2, LoopExists
<1>4. f = [d \in Configuration |-> IF d \in stop THEN val[d] ELSE f[nx[d]]]
  BY <1>3 DEF IsLoop
<1>5. ASSUME NEW d \in Configuration
      PROVE  (IF d \in stop THEN val[d] ELSE f[nx[d]])
               = IF Goes(d) THEN f[Reduced(stk, d, A(d).rule)] ELSE Result(d)
  OBVIOUS
<1>6. IsRun(f)
  <2> HIDE DEF stop, nx, val
  <2> QED
    BY <1>4, <1>5
<1> HIDE DEF stop, nx, val
<1>7. Outcomes(stk, end, t) = CHOOSE run : IsRun(run)
  BY DEF Outcomes, Q, A, Goes, Result
<1>8. IsRun(Outcomes(stk, end, t))
  <2> HIDE DEF IsRun
  <2> QED
    BY <1>6, <1>7
<1>9. /\ Goes(c) => Outcomes(stk, end, t)[c] = Outcomes(stk, end, t)[Reduced(stk, c, A(c).rule)]
      /\ ~ Goes(c) => Outcomes(stk, end, t)[c] = Result(c)
  BY <1>8
<1>10. Result(c).ok = IF Q(c) = end THEN t = EOI ELSE A(c).op = "shift"
  BY DEF Result
<1> QED
  BY <1>9, <1>10 DEF Q, A, Goes

\* The states of the stack s are the configuration c over the stack stk.
OnRun(s, stk, c) ==
  /\ c.size \in 0 .. Len(stk)
  /\ Len(s) = c.size + Len(c.top)
  /\ \A i \in 1 .. c.size : s[i].state = stk[i].state
  /\ \A i \in 1 .. Len(c.top) : s[c.size + i].state = c.top[i]

FollowsRun ==
  /\ next.sym # NoToken
  /\ \E stk \in Seq(EntrySet), c \in Configuration :
       OnRun(stack, stk, c) /\ Outcomes(stk, input.end, next.sym)[c].ok

RecoveryInv ==
  /\ pc = "start" => recovering = 0
  /\ pc \in {"recover", "skip"} => recovering = 4
  /\ pc = "parse" /\ recovering = 4 => FollowsRun

\* The loop acts on what reduceAll looks up, whether or not it has to look.
LEMMA CurActionIsLookup ==
  ASSUME TypeOK
  PROVE  CurAction = Lookup(cur, next.sym)
BY DEF CurAction, Lookup, NeedsLookahead

LEMMA ConfigurationParts ==
  ASSUME NEW c \in Configuration
  PROVE  /\ c.size \in Int /\ c.top \in Seq(State)
         /\ Len(c.top) \in Nat \ {0} /\ DOMAIN c.top = 1 .. Len(c.top)
         /\ Last(c.top) = c.top[Len(c.top)] /\ Last(c.top) \in State
<1>1. c.size \in Int /\ c.top \in Seq(State) /\ c.top # <<>>
  BY DEF Configuration
<1>2. Len(c.top) \in Nat \ {0} /\ DOMAIN c.top = 1 .. Len(c.top)
  BY <1>1, EmptySeq, LenProperties
<1> QED
  BY <1>1, <1>2, ElementOfSeq DEF Last

LEMMA CurOnRun ==
  ASSUME TypeOK, NEW stk, NEW c \in Configuration, OnRun(stack, stk, c)
  PROVE  cur = Last(c.top)
<1>1. Len(stack) = c.size + Len(c.top) /\ stack[c.size + Len(c.top)].state = c.top[Len(c.top)]
  <2>1. Len(c.top) \in 1 .. Len(c.top)
    BY ConfigurationParts
  <2> QED
    BY <2>1 DEF OnRun
<1> QED
  BY <1>1, ConfigurationParts DEF cur, Last

\* What a reduction leaves of the stack, and the state that it goes to.
LEMMA StackOfReduceBy ==
  ASSUME TypeOK, NEW r \in Rule, ReduceBy(r)
  PROVE  LET keep == Len(stack) - RuleLen[r]
         IN  /\ keep \in 1 .. Len(stack) /\ Len(stack') = keep + 1
             /\ \A i \in 1 .. keep : stack'[i] = stack[i]
             /\ stack'[keep + 1].state = gotoNT(stack[keep].state, RuleSymbol[r])
             /\ stack'[keep + 1].sym = RuleSymbol[r]
<1> DEFINE keep == Len(stack) - RuleLen[r]
           base == SubSeq(stack, 1, keep)
           off  == IF NonEmpty(Rhs(r)) = {} THEN next.off ELSE Rhs(r)[1].off
           end  == IF NonEmpty(Rhs(r)) = {} THEN next.off ELSE Rhs(r)[Max(NonEmpty(Rhs(r)))].end
           new  == Entry(RuleSymbol[r], off, end, gotoNT(Last(base).state, RuleSymbol[r]))
<1>1. Len(stack) \in Nat /\ RuleLen[r] \in Nat /\ Len(stack) > RuleLen[r] /\ stack \in Seq(EntrySet)
  BY CurType, TableAssumption DEF ReduceBy, TypeOK
<1>2. keep \in 1 .. Len(stack)
  BY <1>1
<1>3. base \in Seq(EntrySet) /\ Len(base) = keep /\ \A i \in 1 .. keep : base[i] = stack[i]
  BY <1>1, CurType, SubSeqProperties
<1>4. stack' = Append(base, new)
  BY DEF ReduceBy
<1>5. new.state = gotoNT(Last(base).state, RuleSymbol[r]) /\ new.sym = RuleSymbol[r]
  BY DEF Entry
<1> HIDE DEF keep, base, off, end, new
<1>6. Last(base) = stack[keep]
  BY <1>2, <1>3 DEF Last
<1>7. Len(Append(base, new)) = keep + 1 /\ Append(base, new)[keep + 1] = new
      /\ \A i \in 1 .. keep : Append(base, new)[i] = base[i]
  BY <1>3
<1>8. /\ keep \in 1 .. Len(stack) /\ Len(stack') = keep + 1
      /\ \A i \in 1 .. keep : stack'[i] = stack[i]
      /\ stack'[keep + 1].state = gotoNT(stack[keep].state, RuleSymbol[r])
      /\ stack'[keep + 1].sym = RuleSymbol[r]
  BY <1>2, <1>3, <1>4, <1>5, <1>6, <1>7
<1> QED
  BY <1>8 DEF keep

LEMMA ReducedParts ==
  ASSUME NEW stk, NEW c, NEW r, NEW size, NEW top,
         Pop(c, RuleLen[r]) = [size |-> size, top |-> top],
         NEW q, q = gotoNT(StateOf(stk, Pop(c, RuleLen[r])), RuleSymbol[r])
  PROVE  Reduced(stk, c, r) = [size |-> size, top |-> Append(top, q)]
<1>1. [[size |-> size, top |-> top] EXCEPT !.top = Append(@, q)]
        = [size |-> size, top |-> Append(top, q)]
  <2> DEFINE u == Append(top, q)
  <2>1. [[size |-> size, top |-> top] EXCEPT !.top = Append(@, q)]
          = [[size |-> size, top |-> top] EXCEPT !.top = u]
    OBVIOUS
  <2> HIDE DEF u
  <2>2. [[size |-> size, top |-> top] EXCEPT !.top = u] = [size |-> size, top |-> u]
    OBVIOUS
  <2> QED
    BY <2>1, <2>2 DEF u
<1>2. Reduced(stk, c, r) = [Pop(c, RuleLen[r]) EXCEPT !.top = Append(@, q)]
  BY DEF Reduced
<1> QED
  BY <1>1, <1>2

\* The stack t is what a reduction by the rule r makes of the stack s.
AfterReduce(s, t, r) ==
  LET keep == Len(s) - RuleLen[r]
  IN  /\ Len(s) \in Nat /\ keep \in 1 .. Len(s) /\ Len(t) = keep + 1
      /\ \A i \in 1 .. keep : t[i] = s[i]
      /\ t[keep + 1].state = gotoNT(s[keep].state, RuleSymbol[r])

\* The same for the configuration that stands for s.
LEMMA ReducedOnRun ==
  ASSUME NEW s, NEW t, NEW r \in Rule, AfterReduce(s, t, r),
         NEW stk, NEW c \in Configuration, OnRun(s, stk, c)
  PROVE  OnRun(t, stk, Reduced(stk, c, r))
<1> DEFINE keep == Len(s) - RuleLen[r]
           n    == RuleLen[r]
           N    == Len(c.top)
           q    == gotoNT(s[keep].state, RuleSymbol[r])
           d    == Reduced(stk, c, r)
<1>1. /\ keep \in 1 .. Len(s) /\ Len(t) = keep + 1
      /\ \A i \in 1 .. keep : t[i] = s[i]
      /\ t[keep + 1].state = q
  BY DEF AfterReduce
<1>2. /\ c.size \in 0 .. Len(stk) /\ c.size \in Nat /\ N \in Nat \ {0} /\ n \in Nat /\ Len(s) \in Nat
      /\ Len(s) = c.size + N /\ c.top \in Seq(State)
  BY ConfigurationParts, TableAssumption DEF OnRun, AfterReduce
<1>3. /\ \A i \in 1 .. c.size : s[i].state = stk[i].state
      /\ \A i \in 1 .. N : s[c.size + i].state = c.top[i]
  BY DEF OnRun
<1>4. keep = c.size + N - n
  BY <1>2
<1>5. CASE n < N
  <2> DEFINE top == SubSeq(c.top, 1, N - n)
  <2>1. top \in Seq(State) /\ Len(top) = N - n /\ \A i \in 1 .. N - n : top[i] = c.top[i]
    <3>1. 1 \in 1 .. N + 1 /\ N - n \in 0 .. N
      BY <1>2, <1>5
    <3>2. c.top \in Seq(State) /\ N = Len(c.top)
      BY <1>2
    <3> HIDE DEF N, n
    <3> QED
      BY <3>1, <3>2, SubSeqProperties
  <2>2. Pop(c, n) = [size |-> c.size, top |-> top]
    BY <1>5 DEF Pop
  <2> HIDE DEF top
  <2>3. N - n \in 1 .. N
    BY <1>2, <1>5
  <2>4. top # <<>> /\ Last(top) = c.top[N - n]
    BY <2>1, <2>3 DEF Last
  <2>5. s[keep].state = c.top[N - n]
    <3>1. keep = c.size + (N - n)
      BY <1>2, <1>4
    <3> QED
      BY <1>3, <2>3, <3>1
  <2>6. StateOf(stk, Pop(c, n)) = s[keep].state
    BY <2>2, <2>4, <2>5 DEF StateOf
  <2>7. d = [size |-> c.size, top |-> Append(top, q)]
    BY <2>2, <2>6, ReducedParts
  <2>8. /\ Len(Append(top, q)) = N - n + 1 /\ Append(top, q)[N - n + 1] = q
        /\ \A i \in 1 .. N - n : Append(top, q)[i] = c.top[i]
    BY <2>1
  <2>9. d.size = c.size /\ Len(d.top) = N - n + 1 /\ d.top[N - n + 1] = q
        /\ \A i \in 1 .. N - n : d.top[i] = c.top[i]
    <3> HIDE DEF d, q, n, N
    <3> QED
      BY <2>7, <2>8
  <2> HIDE DEF d, q, keep, n, N
  <2>10. \A i \in 1 .. d.size : t[i].state = stk[i].state
    <3>1. \A i \in 1 .. c.size : i \in 1 .. keep
      BY <1>2, <1>4, <1>5
    <3> QED
      BY <1>1, <1>3, <2>9, <3>1
  <2>11. \A i \in 1 .. Len(d.top) : t[d.size + i].state = d.top[i]
    <3> SUFFICES ASSUME NEW i \in 1 .. N - n + 1
                 PROVE  t[c.size + i].state = d.top[i]
      BY <2>9
    <3>1. CASE i = N - n + 1
      <4>1. c.size + i = keep + 1
        BY <1>2, <1>4, <3>1
      <4> QED
        BY <1>1, <2>9, <3>1, <4>1
    <3>2. CASE i # N - n + 1
      <4>1. i \in 1 .. N - n /\ i \in 1 .. N /\ c.size + i \in 1 .. keep
        BY <1>2, <1>4, <1>5, <3>2
      <4> QED
        BY <1>1, <1>3, <2>9, <4>1
    <3> QED
      BY <3>1, <3>2
  <2>12. Len(t) = d.size + Len(d.top)
    BY <1>1, <1>2, <1>4, <2>9
  <2> QED
    BY <1>2, <2>9, <2>10, <2>11, <2>12 DEF OnRun, d
<1>6. CASE ~ (n < N)
  <2>1. Pop(c, n) = [size |-> c.size - (n - N), top |-> <<>>] /\ c.size - (n - N) = keep
    BY <1>2, <1>4, <1>6 DEF Pop
  <2>2. keep \in 1 .. c.size
    BY <1>1, <1>2, <1>4, <1>6
  <2>3. StateOf(stk, Pop(c, n)) = s[keep].state
    BY <1>3, <2>1, <2>2 DEF StateOf
  <2>4. d = [size |-> keep, top |-> Append(<<>>, q)]
    BY <2>1, <2>3 DEF Reduced
  <2>5. d.size = keep /\ Len(d.top) = 1 /\ d.top[1] = q
    BY <2>4
  <2> HIDE DEF d, q, keep, n, N
  <2>6. \A i \in 1 .. keep : i \in 1 .. c.size
    BY <1>2, <2>2
  <2>7. \A i \in 1 .. d.size : t[i].state = stk[i].state
    BY <1>1, <1>3, <2>5, <2>6
  <2>8. \A i \in 1 .. Len(d.top) : t[d.size + i].state = d.top[i]
    BY <1>1, <2>5
  <2>9. d.size \in 0 .. Len(stk)
    BY <1>2, <2>2, <2>5
  <2> QED
    BY <1>1, <2>5, <2>7, <2>8, <2>9 DEF OnRun, d
<1> QED
  BY <1>5, <1>6

\* A reduction of the parser is one of the run.
LEMMA ReduceByOnRun ==
  ASSUME TypeOK, NEW r \in Rule, ReduceBy(r),
         NEW stk, NEW c \in Configuration, OnRun(stack, stk, c)
  PROVE  OnRun(stack', stk, Reduced(stk, c, r))
<1>1. AfterReduce(stack, stack', r)
  BY CurType, StackOfReduceBy DEF AfterReduce
<1> QED
  BY <1>1, ReducedOnRun

\* Along the run the outcome stays the one that reduceAll gave.
LEMMA ReduceByKeepsOutcome ==
  ASSUME TypeOK, InLoop, FollowsRun, NEW r \in Rule, ReduceBy(r)
  PROVE  FollowsRun'
<1>1. next' = next /\ input' = input /\ CurAction = Reduce(r)
  BY DEF ReduceBy, lexVars
<1>2. PICK stk \in Seq(EntrySet), c \in Configuration :
        OnRun(stack, stk, c) /\ Outcomes(stk, input.end, next.sym)[c].ok
  BY DEF FollowsRun
<1>3. Last(c.top) = cur /\ cur # input.end
  BY <1>2, CurOnRun DEF InLoop
<1>4. Lookup(Last(c.top), next.sym).op = "reduce" /\ Lookup(Last(c.top), next.sym).rule = r
  BY <1>1, <1>3, CurActionIsLookup DEF Reduce
<1>5. Outcomes(stk, input.end, next.sym)[c] = Outcomes(stk, input.end, next.sym)[Reduced(stk, c, r)]
  BY <1>3, <1>4, OutcomesOf
<1>6. OnRun(stack', stk, Reduced(stk, c, r))
  BY <1>2, ReduceByOnRun
<1>7. Reduced(stk, c, r) \in Configuration
  BY ReducedType
<1>8. Outcomes(stk, input'.end, next'.sym)[Reduced(stk, c, r)].ok
  BY <1>1, <1>2, <1>5
<1> QED
  BY <1>1, <1>6, <1>7, <1>8 DEF FollowsRun

\* On the run there is no error: it ends where the token is shifted.
LEMMA NoErrorOnRun ==
  ASSUME TypeOK, InLoop, FollowsRun
  PROVE  CurAction # Error
<1>1. PICK stk \in Seq(EntrySet), c \in Configuration :
        OnRun(stack, stk, c) /\ Outcomes(stk, input.end, next.sym)[c].ok
  BY DEF FollowsRun
<1>2. Last(c.top) = cur /\ cur # input.end
  BY <1>1, CurOnRun DEF InLoop
<1> SUFFICES ASSUME CurAction = Error PROVE FALSE
  OBVIOUS
<1>3. Lookup(Last(c.top), next.sym).op = "error"
  BY <1>2, CurActionIsLookup DEF Error
<1>4. ~ Outcomes(stk, input.end, next.sym)[c].ok
  <2>1. Lookup(Last(c.top), next.sym).op # "reduce" /\ Lookup(Last(c.top), next.sym).op # "shift"
    BY <1>3
  <2>2. Outcomes(stk, input.end, next.sym)[c].ok = (Lookup(Last(c.top), next.sym).op = "shift")
    BY <1>2, <2>1, OutcomesOf
  <2> QED
    BY <2>1, <2>2
<1> QED
  BY <1>1, <1>4

\* The stack that recoverFromError leaves is the one reduceAll was asked about.
LEMMA RecoverStartsRun ==
  ASSUME TypeOK, NEW n \in DOMAIN stack, Recover(n)
  PROVE  FollowsRun'
<1> DEFINE base == SubSeq(stack, 1, n)
           q    == gotoState(stack[n].state, ErrSym)
           c    == [size |-> n, top |-> << q >>]
<1>1. n \in 1 .. Len(stack) /\ Len(stack) \in Nat /\ stack \in Seq(EntrySet)
  BY CurType DEF TypeOK
<1>2. base \in Seq(EntrySet) /\ Len(base) = n
  BY <1>1, CurType, SubSeqProperties
<1>3. n \in MatchingPositions /\ IsMax(n, MatchingPositions)
  BY DEF Recover, IsMax
<1>4. q \in State
  BY <1>3, ErrorType
<1>5. q # NoState
  BY <1>3 DEF MatchingPositions, reduceAll
<1>6. Outcomes(base, input.end, next.sym)[c].ok
  <2>1. reduceAll(base, q, next.sym).ok
    BY <1>3 DEF MatchingPositions
  <2>2. Simulate(base, q, next.sym).ok
    BY <1>5, <2>1 DEF reduceAll
  <2> QED
    BY <1>2, <2>2 DEF Simulate
<1>7. c \in Configuration
  BY <1>1, <1>4 DEF Configuration
<1>8. OnRun(stack', base, c)
  <2>1. PICK e : stack' = Append(base, Entry(ErrSym, ErrorStart(n), e, q))
    BY DEF Recover
  <2> DEFINE err == Entry(ErrSym, ErrorStart(n), e, q)
  <2>2. err.state = q
    BY DEF Entry
  <2> HIDE DEF err, base, q
  <2>3. /\ Len(Append(base, err)) = n + 1 /\ Append(base, err)[n + 1] = err
        /\ \A i \in 1 .. n : Append(base, err)[i] = base[i]
    BY <1>2
  <2>4. Len(stack') = n + 1 /\ stack'[n + 1].state = q /\ \A i \in 1 .. n : stack'[i] = base[i]
    BY <2>1, <2>2, <2>3 DEF err
  <2>5. c.size = n /\ Len(c.top) = 1 /\ c.top[1] = q
    OBVIOUS
  <2> HIDE DEF c
  <2> QED
    BY <1>1, <1>2, <2>4, <2>5 DEF OnRun
<1>9. next' = next /\ input' = input /\ next.sym # NoToken
  BY DEF Recover, lexVars
<1> QED
  BY <1>2, <1>6, <1>7, <1>8, <1>9 DEF FollowsRun

LEMMA LoopKeepsRecoveryInv ==
  ASSUME TypeOK, RecoveryInv, Parse
  PROVE  RecoveryInv'
<1>1. pc = "parse" /\ InLoop /\ recovering \in 0 .. 4
  BY DEF Parse, InLoop, TypeOK
<1>2. CASE \E r \in Rule : ReduceBy(r)
  <2>1. PICK r \in Rule : ReduceBy(r)
    BY <1>2
  <2>2. pc' = pc /\ recovering' = recovering
    BY <2>1 DEF ReduceBy
  <2>3. recovering = 4 => FollowsRun'
    BY <1>1, <2>1, ReduceByKeepsOutcome DEF RecoveryInv
  <2> QED
    BY <1>1, <2>2, <2>3 DEF RecoveryInv
<1>3. CASE \E q \in State : ShiftTo(q)
  <2>1. pc' = pc /\ recovering' = CountDown
    BY <1>3 DEF ShiftTo
  <2>2. recovering' # 4
    BY <1>1, <2>1 DEF CountDown
  <2> QED
    BY <1>1, <2>1, <2>2 DEF RecoveryInv
<1>4. CASE Cancel
  BY <1>4 DEF Cancel, RecoveryInv
<1>5. CASE \E goOn \in BOOLEAN : ReportError(goOn)
  BY <1>5 DEF ReportError, RecoveryInv
<1>6. CASE RepeatedError
  BY <1>6 DEF RepeatedError, RecoveryInv
<1> QED
  BY <1>2, <1>3, <1>4, <1>5, <1>6 DEF Parse

\* TokenStream.next is not called while the parser follows the run.
LEMMA LexKeepsRecoveryInv ==
  ASSUME TypeOK, RecoveryInv, Lex
  PROVE  RecoveryInv'
<1>1. next.sym = NoToken /\ recovering' = recovering
  BY DEF Lex, LexIgnored, LexToken, TokenWanted
<1>2. pc' = pc \/ (pc = "start" /\ pc' = "parse")
  BY DEF Lex, LexIgnored, LexToken
<1>3. ~ (pc = "parse" /\ recovering = 4)
  BY <1>1 DEF RecoveryInv, FollowsRun
<1> QED
  BY <1>1, <1>2, <1>3 DEF RecoveryInv

LEMMA RecoverKeepsRecoveryInv ==
  ASSUME TypeOK, RecoveryInv, recoverFromError
  PROVE  RecoveryInv'
<1>1. CASE NoRecoveryPoint
  BY <1>1 DEF NoRecoveryPoint, RecoveryInv
<1>2. CASE StartRecovery
  BY <1>2 DEF StartRecovery, RecoveryInv
<1>3. CASE SkipToken
  BY <1>3 DEF SkipToken, RecoveryInv
<1>4. CASE \E n \in DOMAIN stack : Recover(n)
  <2>1. FollowsRun'
    BY <1>4, RecoverStartsRun
  <2>2. pc' = "parse" /\ recovering' = recovering
    BY <1>4 DEF Recover
  <2> QED
    BY <2>1, <2>2 DEF RecoveryInv
<1>5. CASE DropSymbol
  BY <1>5 DEF DropSymbol, RecoveryInv
<1>6. CASE GiveUp
  BY <1>6 DEF GiveUp, RecoveryInv
<1> QED
  BY <1>1, <1>2, <1>3, <1>4, <1>5, <1>6 DEF recoverFromError

LEMMA NextRecovery == TypeOK /\ RecoveryInv /\ [Next]_vars => RecoveryInv'
<1> SUFFICES ASSUME TypeOK, RecoveryInv, [Next]_vars PROVE RecoveryInv'
  OBVIOUS
<1>1. CASE Lex
  BY <1>1, LexKeepsRecoveryInv
<1>2. CASE Parse
  BY <1>2, LoopKeepsRecoveryInv
<1>3. CASE Accept
  BY <1>3 DEF Accept, RecoveryInv
<1>4. CASE recoverFromError
  BY <1>4, RecoverKeepsRecoveryInv
<1>5. CASE Finished \/ UNCHANGED vars
  BY <1>5 DEF Finished, vars, RecoveryInv, FollowsRun
<1> QED
  BY <1>1, <1>2, <1>3, <1>4, <1>5 DEF Next

\* Whatever the tables, the token on which recoverFromError stops is consumed:
\* from there to the shift of that token the parser makes the reductions that
\* reduceAll made on its copy of the stack, and meets no syntax error.
THEOREM RecoveredTokenConsumed == Spec => []RecoveredTokenIsConsumed
<1>1. Init => RecoveryInv
  BY DEF Init, RecoveryInv
<1>2. TypeOK /\ RecoveryInv => RecoveredTokenIsConsumed
  <2> SUFFICES ASSUME TypeOK, RecoveryInv, InLoop, recovering = 4
               PROVE  CurAction # Error
    BY DEF RecoveredTokenIsConsumed
  <2>1. FollowsRun
    BY DEF RecoveryInv, InLoop
  <2> QED
    BY <2>1, NoErrorOnRun
<1> QED
  BY <1>1, <1>2, NextRecovery, TypeCorrect, PTL DEF Spec

-----------------------------------------------------------------------------
(***************************************************************************)
(* Ranges: what is on the stack, in hand, pending and reported never       *)
(* overlaps by halves.                                                     *)
(***************************************************************************)
\* What was laid out so far ends here: the token in hand starts behind it.
Limit == IF next.sym = NoToken THEN offset ELSE next.off

Ranged(s) ==
  /\ Len(s) \in Nat /\ DOMAIN s = 1 .. Len(s)
  /\ \A i \in DOMAIN s : s[i].off \in Nat /\ s[i].end \in Nat

\* A listener may be told of e before it is told of f.
Meets(e, f) == Calls!Beside(e, f) \/ Calls!Encloses(f, e)

\* The place a is not inside x.
Clear(x, a) == x.end <= a \/ a <= x.off

\* A token put aside lies behind the stack, but for empty symbols on it.
Behind(p, s) == s.end <= p.off \/ (s.off = s.end /\ p.end <= s.off)

StackFits(stk, lim) ==
  /\ \A i \in DOMAIN stk : stk[i].off <= stk[i].end /\ stk[i].end <= lim
  /\ \A i, j \in DOMAIN stk : i < j => stk[i].end <= stk[j].off

PendingFits(pend, stk, lim) ==
  /\ \A i \in DOMAIN pend : pend[i].off < pend[i].end /\ pend[i].end <= lim
  /\ \A i, j \in DOMAIN pend : i < j => pend[i].end <= pend[j].off
  /\ \A i \in DOMAIN pend, j \in DOMAIN stk : Behind(pend[i], stk[j])

EventsFit(evs, pend, stk, lim) ==
  /\ \A i \in DOMAIN evs : evs[i].off <= evs[i].end /\ evs[i].end <= lim
  /\ \A i \in DOMAIN evs, j \in DOMAIN stk : Meets(evs[i], stk[j])
  /\ \A i \in DOMAIN evs, j \in DOMAIN pend : Calls!Beside(evs[i], pend[j])
  /\ \A i, j \in DOMAIN evs : i < j => Meets(evs[i], evs[j])

Fits(evs, pend, stk, lim) ==
  StackFits(stk, lim) /\ PendingFits(pend, stk, lim) /\ EventsFit(evs, pend, stk, lim)

LEMMA RangedSeq ==
  ASSUME NEW S, NEW s \in Seq(S), \A x \in S : x.off \in Nat /\ x.end \in Nat
  PROVE  Ranged(s)
BY LenProperties, ElementOfSeq DEF Ranged

LEMMA RangesOfTypeOK ==
  ASSUME TypeOK
  PROVE  /\ Ranged(stack) /\ Ranged(pending) /\ Ranged(events)
         /\ next.off \in Nat /\ next.end \in Nat /\ offset \in Nat /\ Limit \in Nat
         /\ recovery.s \in Nat /\ recovery.e \in Nat
         /\ Len(stack) # 0 /\ Last(stack) = stack[Len(stack)]
<1>1. next \in SymbolSet /\ offset \in Nat
  BY DEF TypeOK
<1>2. /\ \A x \in EntrySet : x.off \in Nat /\ x.end \in Nat
      /\ \A x \in SymbolSet : x.off \in Nat /\ x.end \in Nat
      /\ \A x \in EventSet : x.off \in Nat /\ x.end \in Nat
  BY DEF EntrySet, SymbolSet, EventSet
<1>3. Ranged(stack)
  <2>1. stack \in Seq(EntrySet)
    BY DEF TypeOK
  <2> QED
    BY <1>2, <2>1, RangedSeq
<1>4. Ranged(pending)
  <2>1. pending \in Seq(SymbolSet)
    BY DEF TypeOK
  <2> QED
    BY <1>2, <2>1, RangedSeq
<1>5. Ranged(events)
  <2>1. events \in Seq(EventSet)
    BY DEF TypeOK, EventSet
  <2> QED
    BY <1>2, <2>1, RangedSeq
<1>6. recovery.s \in Nat /\ recovery.e \in Nat
  BY DEF TypeOK
<1>7. Len(stack) # 0 /\ Last(stack) = stack[Len(stack)]
  BY CurType DEF Last
<1> QED
  BY <1>1, <1>3, <1>4, <1>5, <1>6, <1>7 DEF SymbolSet, Limit

\* The limit may move on.
LEMMA FitsFurther ==
  ASSUME NEW evs, NEW pend, NEW stk, NEW lim \in Nat, NEW l \in Nat, lim <= l,
         Ranged(evs), Ranged(pend), Ranged(stk), Fits(evs, pend, stk, lim)
  PROVE  Fits(evs, pend, stk, l)
BY DEF Fits, StackFits, PendingFits, EventsFit, Ranged

\* A new entry is put on the lower part of the stack.
LEMMA PushFits ==
  ASSUME NEW evs, NEW pend, NEW stk, NEW lim \in Nat, NEW stk2, NEW n \in DOMAIN stk,
         Ranged(evs), Ranged(pend), Ranged(stk), Ranged(stk2),
         Fits(evs, pend, stk, lim),
         Len(stk2) = n + 1, \A i \in 1 .. n : stk2[i] = stk[i],
         stk2[n + 1].off <= stk2[n + 1].end, stk2[n + 1].end <= lim,
         stk[n].end <= stk2[n + 1].off,
         \A i \in DOMAIN evs : Meets(evs[i], stk2[n + 1]),
         \A i \in DOMAIN pend : Behind(pend[i], stk2[n + 1])
  PROVE  Fits(evs, pend, stk2, lim)
<1> DEFINE x == stk2[n + 1]
<1>0. n \in Nat /\ DOMAIN stk2 = 1 .. n + 1 /\ \A i \in 1 .. n : i \in DOMAIN stk
  BY DEF Ranged
<1>1. \A i \in DOMAIN stk2 : i = n + 1 \/ (i \in 1 .. n /\ stk2[i] = stk[i])
  BY <1>0
<1>2. \A i \in 1 .. n : stk[i].end <= x.off
  <2> SUFFICES ASSUME NEW i \in 1 .. n PROVE stk[i].end <= x.off
    OBVIOUS
  <2>1. i = n \/ (i < n /\ stk[i].end <= stk[n].off /\ stk[n].off <= stk[n].end)
    BY <1>0 DEF Fits, StackFits
  <2>2. stk[i].end \in Nat /\ stk[n].off \in Nat /\ stk[n].end \in Nat /\ x.off \in Nat
    BY <1>0 DEF Ranged
  <2> QED
    BY <2>1, <2>2
<1>3. StackFits(stk2, lim)
  <2>1. \A i \in DOMAIN stk2 : stk2[i].off <= stk2[i].end /\ stk2[i].end <= lim
    BY <1>0, <1>1 DEF Fits, StackFits
  <2>2. ASSUME NEW i \in DOMAIN stk2, NEW j \in DOMAIN stk2, i < j
        PROVE  stk2[i].end <= stk2[j].off
    <3>1. i \in 1 .. n /\ stk2[i] = stk[i]
      BY <1>0, <2>2
    <3>2. CASE j = n + 1
      BY <1>2, <3>1, <3>2
    <3>3. CASE j # n + 1
      BY <1>0, <1>1, <2>2, <3>1, <3>3 DEF Fits, StackFits
    <3> QED
      BY <3>2, <3>3
  <2> QED
    BY <2>1, <2>2 DEF StackFits
<1>4. PendingFits(pend, stk2, lim)
  <2>1. \A i \in DOMAIN pend, j \in DOMAIN stk2 : Behind(pend[i], stk2[j])
    BY <1>0, <1>1 DEF Fits, PendingFits
  <2> QED
    BY <2>1 DEF Fits, PendingFits
<1>5. EventsFit(evs, pend, stk2, lim)
  <2>1. \A i \in DOMAIN evs, j \in DOMAIN stk2 : Meets(evs[i], stk2[j])
    BY <1>0, <1>1 DEF Fits, EventsFit
  <2> QED
    BY <2>1 DEF Fits, EventsFit
<1> QED
  BY <1>3, <1>4, <1>5 DEF Fits

\* More calls are made.
LEMMA CallsFit ==
  ASSUME NEW evs, NEW more, NEW evs2, NEW pend, NEW stk, NEW lim \in Nat,
         Ranged(evs), Ranged(more), Ranged(pend), Ranged(stk), Ranged(evs2),
         Fits(evs, pend, stk, lim),
         Len(evs2) = Len(evs) + Len(more),
         \A i \in DOMAIN evs : evs2[i] = evs[i],
         \A i \in DOMAIN more : evs2[Len(evs) + i] = more[i],
         \A i \in DOMAIN more : more[i].off <= more[i].end /\ more[i].end <= lim,
         \A i \in DOMAIN more, j \in DOMAIN stk : Meets(more[i], stk[j]),
         \A i \in DOMAIN more, j \in DOMAIN pend : Calls!Beside(more[i], pend[j]),
         \A i \in DOMAIN evs, j \in DOMAIN more : Meets(evs[i], more[j]),
         \A i, j \in DOMAIN more : i < j => Meets(more[i], more[j])
  PROVE  Fits(evs2, pend, stk, lim)
<1> DEFINE n == Len(evs)
<1>1. n \in Nat /\ Len(more) \in Nat /\ DOMAIN evs = 1 .. n /\ DOMAIN more = 1 .. Len(more)
      /\ DOMAIN evs2 = 1 .. n + Len(more)
  BY DEF Ranged
<1>2. \A i \in DOMAIN evs2 : \/ i \in DOMAIN evs /\ evs2[i] = evs[i]
                             \/ i > n /\ i - n \in DOMAIN more /\ evs2[i] = more[i - n]
  <2> SUFFICES ASSUME NEW i \in 1 .. n + Len(more), i \notin DOMAIN evs
               PROVE  i > n /\ i - n \in DOMAIN more /\ evs2[i] = more[i - n]
    BY <1>1
  <2>1. i > n /\ i - n \in 1 .. Len(more) /\ n + (i - n) = i
    BY <1>1
  <2> QED
    BY <1>1, <2>1
<1>3. \A i \in DOMAIN evs2 : evs2[i].off <= evs2[i].end /\ evs2[i].end <= lim
  BY <1>2 DEF Fits, EventsFit
<1>4. \A i \in DOMAIN evs2, j \in DOMAIN stk : Meets(evs2[i], stk[j])
  BY <1>2 DEF Fits, EventsFit
<1>5. \A i \in DOMAIN evs2, j \in DOMAIN pend : Calls!Beside(evs2[i], pend[j])
  BY <1>2 DEF Fits, EventsFit
<1>6. ASSUME NEW i \in DOMAIN evs2, NEW j \in DOMAIN evs2, i < j
      PROVE  Meets(evs2[i], evs2[j])
  <2>1. CASE j \in DOMAIN evs
    <3>1. i \in DOMAIN evs
      BY <1>1, <1>6, <2>1
    <3> QED
      BY <1>6, <2>1, <3>1 DEF Fits, EventsFit
  <2>2. CASE j \notin DOMAIN evs
    <3>1. j > n /\ j - n \in DOMAIN more /\ evs2[j] = more[j - n]
      BY <1>2, <2>2
    <3>2. CASE i \in DOMAIN evs
      BY <3>1, <3>2
    <3>3. CASE i \notin DOMAIN evs
      <4>1. i > n /\ i - n \in DOMAIN more /\ evs2[i] = more[i - n]
        BY <1>2, <3>3
      <4>2. i - n < j - n
        BY <1>1, <1>6
      <4> QED
        BY <3>1, <4>1, <4>2
    <3> QED
      BY <3>2, <3>3
  <2> QED
    BY <2>1, <2>2
<1>7. EventsFit(evs2, pend, stk, lim)
  BY <1>3, <1>4, <1>5, <1>6 DEF EventsFit
<1> QED
  BY <1>7 DEF Fits

-----------------------------------------------------------------------------
\* What a flush moves from the pending tokens to the calls.
LEMMA FlushParts ==
  ASSUME TypeOK, NEW end, Flush(end)
  PROVE  /\ Ranged(pending') /\ Ranged(events')
         /\ \E n \in 0 .. Len(pending) :
              /\ n \in Nat /\ Len(pending') = Len(pending) - n
              /\ \A i \in 1 .. Len(pending) - n : pending'[i] = pending[n + i]
              /\ Len(events') = Len(events) + n
              /\ \A i \in 1 .. Len(events) : events'[i] = events[i]
              /\ \A i \in 1 .. n : events'[Len(events) + i] = pending[i]
              /\ \A i \in 1 .. n : pending[i].end <= end
              /\ n < Len(pending) => pending[n + 1].end > end
<1>1. PICK n \in 0 .. Len(pending) :
        /\ \A i \in 1 .. n : pending[i].end <= end
        /\ n < Len(pending) => pending[n + 1].end > end
        /\ pending'  = SubSeq(pending, n + 1, Len(pending))
        /\ events'   = events \o SubSeq(pending, 1, n)
  BY DEF Flush
<1>2. pending \in Seq(SymbolSet) /\ events \in Seq(EventSet)
      /\ Len(pending) \in Nat /\ Len(events) \in Nat
  BY LenProperties DEF TypeOK, EventSet
<1>3. Ranged(pending') /\ Ranged(events')
  <2>1. /\ \A x \in SymbolSet : x.off \in Nat /\ x.end \in Nat
        /\ \A x \in EventSet : x.off \in Nat /\ x.end \in Nat
    BY DEF SymbolSet, EventSet
  <2>2. pending' \in Seq(SymbolSet) /\ events' \in Seq(EventSet)
    BY FlushType
  <2> QED
    BY <2>1, <2>2, RangedSeq
<1>4. /\ Len(SubSeq(pending, n + 1, Len(pending))) = Len(pending) - n
      /\ \A i \in 1 .. Len(pending) - n : SubSeq(pending, n + 1, Len(pending))[i] = pending[n + i]
  BY <1>2
<1>5. /\ Len(SubSeq(pending, 1, n)) = n
      /\ \A i \in 1 .. n : SubSeq(pending, 1, n)[i] = pending[i]
  BY <1>2
<1>6. SubSeq(pending, 1, n) \in Seq(EventSet)
  <2>1. SubSeq(pending, 1, n) \in Seq(SymbolSet)
    BY <1>2, SubSeqProperties
  <2>2. SymbolSet \subseteq EventSet
    BY DEF SymbolSet, EventSet
  <2> QED
    BY <2>1, <2>2, SeqMonotonic
<1>7. /\ Len(events') = Len(events) + n
      /\ \A i \in 1 .. Len(events) : events'[i] = events[i]
      /\ \A i \in 1 .. n : events'[Len(events) + i] = pending[i]
  <2> DEFINE more == SubSeq(pending, 1, n)
  <2> HIDE DEF more
  <2>1. more \in Seq(EventSet) /\ Len(more) = n /\ \A i \in 1 .. n : more[i] = pending[i]
    BY <1>5, <1>6 DEF more
  <2>2. events' = events \o more
    BY <1>1 DEF more
  <2>3. /\ Len(events \o more) = Len(events) + n
        /\ \A i \in 1 .. Len(events) : (events \o more)[i] = events[i]
        /\ \A i \in 1 .. n : (events \o more)[Len(events) + i] = more[i]
    BY <1>2, <2>1
  <2> QED
    BY <2>1, <2>2, <2>3
<1>8. /\ Len(pending') = Len(pending) - n
      /\ \A i \in 1 .. Len(pending) - n : pending'[i] = pending[n + i]
  BY <1>1, <1>4
<1>9. /\ \A i \in 1 .. n : pending[i].end <= end
      /\ n < Len(pending) => pending[n + 1].end > end
      /\ n \in Nat
  BY <1>1, <1>2
<1> QED
  BY <1>3, <1>7, <1>8, <1>9

\* A token put aside that lies behind an entry lies beside it.
LEMMA BehindIsBeside ==
  ASSUME NEW p, NEW s, Behind(p, s),
         p.off \in Nat, p.end \in Nat, s.off \in Nat, s.end \in Nat,
         p.off <= p.end, s.off <= s.end
  PROVE  Calls!Beside(p, s)
BY DEF Behind, Calls!Beside

LEMMA FlushFits ==
  ASSUME TypeOK, NEW end, Flush(end), NEW lim \in Nat, Fits(events, pending, stack, lim)
  PROVE  /\ Fits(events', pending', stack, lim)
         /\ \A i \in DOMAIN pending' : \E j \in DOMAIN pending : pending'[i] = pending[j]
         /\ \A i \in DOMAIN events' : \/ \E j \in DOMAIN events : events'[i] = events[j]
                                      \/ \E j \in DOMAIN pending : events'[i] = pending[j]
         /\ end \in Nat => \A i \in DOMAIN pending' : pending'[i].end > end
<1>1. PICK n \in 0 .. Len(pending) :
              /\ n \in Nat /\ Len(pending') = Len(pending) - n
              /\ \A i \in 1 .. Len(pending) - n : pending'[i] = pending[n + i]
              /\ Len(events') = Len(events) + n
              /\ \A i \in 1 .. Len(events) : events'[i] = events[i]
              /\ \A i \in 1 .. n : events'[Len(events) + i] = pending[i]
              /\ n < Len(pending) => pending[n + 1].end > end
  BY FlushParts
<1>2. Ranged(pending') /\ Ranged(events') /\ Ranged(stack) /\ Ranged(pending) /\ Ranged(events)
  BY FlushParts, RangesOfTypeOK
<1> DEFINE pend == pending'
           calls == events'
           more == SubSeq(pending, 1, n)
<1>3. Len(more) = n /\ \A i \in 1 .. n : more[i] = pending[i]
  BY <1>2 DEF TypeOK
<1>4. DOMAIN more = 1 .. n
  <2>1. more \in Seq(SymbolSet)
    BY <1>2, SubSeqProperties DEF TypeOK, Ranged
  <2> QED
    BY <1>3, <2>1, LenProperties
<1> HIDE DEF more, pend, calls
<1>5. /\ Len(pending) \in Nat /\ DOMAIN pending = 1 .. Len(pending)
      /\ Len(events) \in Nat /\ DOMAIN events = 1 .. Len(events)
      /\ DOMAIN pend = 1 .. Len(pending) - n /\ Len(pend) = Len(pending) - n
      /\ Len(calls) = Len(events) + n /\ DOMAIN calls = 1 .. Len(events) + n
      /\ Ranged(pend) /\ Ranged(calls)
  BY <1>1, <1>2 DEF Ranged, pend, calls
<1>6. \A i \in DOMAIN pend : n + i \in DOMAIN pending /\ pend[i] = pending[n + i]
  BY <1>1, <1>5 DEF pend
<1>7. \A i \in DOMAIN more : i \in DOMAIN pending /\ more[i] = pending[i]
  BY <1>3, <1>4, <1>5
<1>8. Ranged(more)
  BY <1>2, <1>3, <1>4, <1>7 DEF Ranged
<1>9. Fits(events, pend, stack, lim)
  <2>1. \A i, j \in DOMAIN pend : i < j => pend[i].end <= pend[j].off
    <3> SUFFICES ASSUME NEW i \in DOMAIN pend, NEW j \in DOMAIN pend, i < j
                 PROVE  pend[i].end <= pend[j].off
      OBVIOUS
    <3>1. n + i < n + j
      BY <1>5
    <3> QED
      BY <1>6, <3>1 DEF Fits, PendingFits
  <2>2. PendingFits(pend, stack, lim)
    BY <1>6, <2>1 DEF Fits, PendingFits
  <2>3. EventsFit(events, pend, stack, lim)
    BY <1>6 DEF Fits, EventsFit
  <2> QED
    BY <2>2, <2>3 DEF Fits
<1>10. /\ \A i \in DOMAIN events : calls[i] = events[i]
       /\ \A i \in DOMAIN more : calls[Len(events) + i] = more[i]
  BY <1>1, <1>3, <1>4, <1>5 DEF calls
<1>11. \A i \in DOMAIN more : more[i].off <= more[i].end /\ more[i].end <= lim
  <2> SUFFICES ASSUME NEW i \in DOMAIN more
               PROVE  more[i].off <= more[i].end /\ more[i].end <= lim
    OBVIOUS
  <2>1. i \in DOMAIN pending /\ more[i] = pending[i]
    BY <1>7
  <2>2. pending[i].off < pending[i].end /\ pending[i].end <= lim
    BY <2>1 DEF Fits, PendingFits
  <2>3. pending[i].off \in Nat /\ pending[i].end \in Nat
    BY <1>2, <2>1 DEF Ranged
  <2> QED
    BY <2>1, <2>2, <2>3
<1>12. \A i \in DOMAIN more, j \in DOMAIN stack : Meets(more[i], stack[j])
  <2> SUFFICES ASSUME NEW i \in DOMAIN more, NEW j \in DOMAIN stack
               PROVE  Meets(more[i], stack[j])
    OBVIOUS
  <2>1. Behind(more[i], stack[j]) /\ stack[j].off <= stack[j].end
    BY <1>7 DEF Fits, PendingFits, StackFits
  <2>2. /\ more[i].off \in Nat /\ more[i].end \in Nat
        /\ stack[j].off \in Nat /\ stack[j].end \in Nat
    BY <1>2, <1>8 DEF Ranged
  <2>3. Calls!Beside(more[i], stack[j])
    BY <1>11, <2>1, <2>2, BehindIsBeside
  <2> QED
    BY <2>3 DEF Meets
<1>13. \A i \in DOMAIN more, j \in DOMAIN pend : Calls!Beside(more[i], pend[j])
  <2> SUFFICES ASSUME NEW i \in DOMAIN more, NEW j \in DOMAIN pend
               PROVE  Calls!Beside(more[i], pend[j])
    OBVIOUS
  <2>1. i \in DOMAIN pending /\ n + j \in DOMAIN pending /\ i < n + j
    BY <1>4, <1>5, <1>7
  <2>2. pending[i].end <= pending[n + j].off
    BY <2>1 DEF Fits, PendingFits
  <2> QED
    BY <1>6, <1>7, <2>2 DEF Calls!Beside
<1>14. \A i \in DOMAIN events, j \in DOMAIN more : Meets(events[i], more[j])
  BY <1>7 DEF Fits, EventsFit, Meets
<1>15. \A i, j \in DOMAIN more : i < j => Meets(more[i], more[j])
  BY <1>7 DEF Fits, PendingFits, Meets, Calls!Beside
<1>16. Fits(calls, pend, stack, lim)
  <2>1. Len(calls) = Len(events) + Len(more)
    BY <1>3, <1>5
  <2> HIDE DEF Fits
  <2> QED
    BY <1>2, <1>5, <1>8, <1>9, <1>10, <1>11, <1>12, <1>13, <1>14, <1>15, <2>1, CallsFit
<1>17. \A i \in DOMAIN calls : \/ \E j \in DOMAIN events : calls[i] = events[j]
                               \/ \E j \in DOMAIN pending : calls[i] = pending[j]
  <2> SUFFICES ASSUME NEW i \in 1 .. Len(events) + n, i \notin DOMAIN events
               PROVE  \E j \in DOMAIN pending : calls[i] = pending[j]
    BY <1>5, <1>10
  <2>1. i - Len(events) \in 1 .. n /\ Len(events) + (i - Len(events)) = i
    BY <1>5
  <2> QED
    BY <1>4, <1>7, <1>10, <2>1
<1>18. ASSUME end \in Nat, NEW i \in DOMAIN pend
       PROVE  pend[i].end > end
  <2>1. n < Len(pending) /\ n + 1 \in DOMAIN pending /\ n + i \in DOMAIN pending
        /\ pend[i] = pending[n + i] /\ (i = 1 \/ n + 1 < n + i)
    BY <1>5, <1>6
  <2>2. pending[n + 1].end > end
    BY <1>1, <2>1
  <2>3. i = 1 \/ pending[n + 1].end <= pending[n + i].off
    BY <2>1 DEF Fits, PendingFits
  <2>4. pending[n + i].off < pending[n + i].end
    BY <2>1 DEF Fits, PendingFits
  <2>5. /\ pending[n + 1].end \in Nat
        /\ pending[n + i].off \in Nat /\ pending[n + i].end \in Nat
    BY <1>2, <2>1 DEF Ranged
  <2> QED
    BY <1>18, <2>1, <2>2, <2>3, <2>4, <2>5
<1> QED
  BY <1>6, <1>16, <1>17, <1>18 DEF pend, calls

-----------------------------------------------------------------------------
\* x is the range of the entries s[from..to]: empty ones at the end are trimmed.
IsSpan(x, s, from, to) ==
  \E l \in from .. to :
    /\ x.off = s[from].off /\ x.end = s[l].end
    /\ l = from \/ s[l].off # s[l].end
    /\ \A m \in from .. to : s[m].off # s[m].end => m <= l

\* A range of neighbours on the stack meets what the listener was told.
LEMMA SpanFits ==
  ASSUME NEW evs, NEW pend, NEW stk, NEW lim \in Nat,
         Ranged(evs), Ranged(pend), Ranged(stk), Fits(evs, pend, stk, lim),
         NEW from \in DOMAIN stk, NEW to \in DOMAIN stk, NEW x, IsSpan(x, stk, from, to)
  PROVE  /\ x.off \in Nat /\ x.end \in Nat /\ x.off <= x.end /\ x.end <= lim
         /\ \A i \in DOMAIN evs : Meets(evs[i], x)
         /\ \A i \in DOMAIN pend : Behind(pend[i], x)
         /\ \A i \in DOMAIN stk : i < from => stk[i].end <= x.off
<1>1. PICK l \in from .. to :
        /\ x.off = stk[from].off /\ x.end = stk[l].end
        /\ l = from \/ stk[l].off # stk[l].end
  BY DEF IsSpan
<1>2. from \in Nat /\ to \in Nat /\ l \in DOMAIN stk /\ from <= l
  BY DEF Ranged
<1>3. /\ stk[from].off \in Nat /\ stk[from].end \in Nat
      /\ stk[l].off \in Nat /\ stk[l].end \in Nat
  BY <1>2 DEF Ranged
<1>4. /\ stk[from].off <= stk[from].end /\ stk[l].off <= stk[l].end /\ stk[l].end <= lim
      /\ l = from \/ (stk[from].end <= stk[l].off /\ stk[l].off < stk[l].end)
  BY <1>1, <1>2, <1>3 DEF Fits, StackFits
<1>5. x.off \in Nat /\ x.end \in Nat /\ x.off <= x.end /\ x.end <= lim
  BY <1>1, <1>3, <1>4
<1>6. ASSUME NEW i \in DOMAIN evs PROVE Meets(evs[i], x)
  <2>1. Meets(evs[i], stk[from]) /\ Meets(evs[i], stk[l])
    BY <1>2 DEF Fits, EventsFit
  <2>2. evs[i].off \in Nat /\ evs[i].end \in Nat /\ evs[i].off <= evs[i].end
    BY DEF Ranged, Fits, EventsFit
  <2> QED
    BY <1>1, <1>3, <1>4, <2>1, <2>2 DEF Meets, Calls!Beside, Calls!Encloses
<1>7. ASSUME NEW i \in DOMAIN pend PROVE Behind(pend[i], x)
  <2>1. Behind(pend[i], stk[l])
    BY <1>2 DEF Fits, PendingFits
  <2>2. pend[i].off \in Nat /\ pend[i].end \in Nat /\ pend[i].off < pend[i].end
    BY DEF Ranged, Fits, PendingFits
  <2> QED
    BY <1>1, <1>3, <1>4, <2>1, <2>2 DEF Behind
<1>8. \A i \in DOMAIN stk : i < from => stk[i].end <= x.off
  BY <1>1 DEF Fits, StackFits
<1> QED
  BY <1>5, <1>6, <1>7, <1>8

\* Of two ranges of neighbours, one may be reported before the other.
LEMMA SpansMeet ==
  ASSUME NEW stk, NEW lim \in Nat, Ranged(stk), StackFits(stk, lim),
         NEW f1 \in DOMAIN stk, NEW t1 \in DOMAIN stk, NEW x, IsSpan(x, stk, f1, t1),
         NEW f2 \in DOMAIN stk, NEW t2 \in DOMAIN stk, NEW y, IsSpan(y, stk, f2, t2),
         t1 < f2 \/ (f2 <= f1 /\ t1 <= t2)
  PROVE  Meets(x, y)
<1>1. PICK l1 \in f1 .. t1 :
        /\ x.off = stk[f1].off /\ x.end = stk[l1].end
        /\ l1 = f1 \/ stk[l1].off # stk[l1].end
  BY DEF IsSpan
<1>2. PICK l2 \in f2 .. t2 :
        /\ y.off = stk[f2].off /\ y.end = stk[l2].end
        /\ \A m \in f2 .. t2 : stk[m].off # stk[m].end => m <= l2
  BY DEF IsSpan
<1>3. /\ f1 \in Nat /\ t1 \in Nat /\ f2 \in Nat /\ t2 \in Nat /\ l1 \in Nat /\ l2 \in Nat
      /\ l1 \in DOMAIN stk /\ l2 \in DOMAIN stk
      /\ f1 <= l1 /\ l1 <= t1 /\ f2 <= l2 /\ l2 <= t2
  BY DEF Ranged
<1>4. \A i \in DOMAIN stk : /\ stk[i].off \in Nat /\ stk[i].end \in Nat
                            /\ stk[i].off <= stk[i].end
  BY DEF Ranged, StackFits
<1>5. \A i, j \in DOMAIN stk : i < j => stk[i].end <= stk[j].off
  BY DEF StackFits
<1>6. \A i, j \in DOMAIN stk : i <= j => stk[i].off <= stk[j].off /\ stk[i].end <= stk[j].end
  <2> SUFFICES ASSUME NEW i \in DOMAIN stk, NEW j \in DOMAIN stk, i <= j
               PROVE  stk[i].off <= stk[j].off /\ stk[i].end <= stk[j].end
    OBVIOUS
  <2>1. i \in Nat /\ j \in Nat
    BY DEF Ranged
  <2>2. i = j \/ stk[i].end <= stk[j].off
    BY <1>5, <2>1
  <2> QED
    BY <1>4, <2>2
<1>7. CASE t1 < f2
  <2>1. stk[l1].end <= stk[f2].off
    BY <1>3, <1>5, <1>7
  <2> QED
    BY <1>1, <1>2, <2>1 DEF Meets, Calls!Beside
<1>8. CASE f2 <= f1 /\ t1 <= t2
  <2>1. stk[f2].off <= stk[f1].off
    BY <1>6, <1>8
  <2>2. CASE l1 <= l2
    <3>1. stk[l1].end <= stk[l2].end
      BY <1>3, <1>6, <2>2
    <3> QED
      BY <1>1, <1>2, <2>1, <3>1 DEF Meets, Calls!Encloses
  <2>3. CASE l2 < l1
    <3>1. stk[l1].off = stk[l1].end
      BY <1>2, <1>3, <1>8, <2>3
    <3>2. l1 = f1 /\ stk[l2].end <= stk[f1].off
      BY <1>1, <1>3, <1>5, <2>3, <3>1
    <3> QED
      BY <1>1, <1>2, <3>2 DEF Meets, Calls!Beside
  <2> QED
    BY <1>3, <2>2, <2>3
<1> QED
  BY <1>7, <1>8

\* reportRange gives a range of neighbours on the stack.
LEMMA RangeOfIsSpan ==
  ASSUME TypeOK, NEW r \in Rule, Len(stack) > RuleLen[r],
         NEW to \in 1 .. RuleLen[r], NEW from \in 1 .. to
  PROVE  IsSpan(RangeOf(Rhs(r), from, to), stack,
                Len(stack) - RuleLen[r] + from, Len(stack) - RuleLen[r] + to)
<1> DEFINE k == Len(stack) - RuleLen[r]
           rhs == Rhs(r)
           last == { i \in from .. to : i = from \/ i \in NonEmpty(rhs) }
           l == Max(last)
<1>1. k \in Nat /\ RuleLen[r] \in Nat
  BY CurType, TableAssumption
<1>2. DOMAIN rhs = 1 .. RuleLen[r] /\ \A i \in 1 .. RuleLen[r] : rhs[i] = stack[k + i]
  BY RhsType
<1>3. last \in SUBSET (0 .. to) /\ from \in last
  OBVIOUS
<1>4. l \in last /\ \A i \in last : i <= l
  <2>1. to \in Nat
    BY <1>1
  <2> HIDE DEF last
  <2> QED
    BY <1>3, <2>1, MaxOfSet
<1>5. \A i \in from .. to : i \in NonEmpty(rhs) <=> stack[k + i].off # stack[k + i].end
  BY <1>1, <1>2 DEF NonEmpty
<1>6. RangeOf(rhs, from, to) = [off |-> rhs[from].off, end |-> rhs[l].end]
  BY DEF RangeOf
<1>7. l \in from .. to /\ (l = from \/ l \in NonEmpty(rhs))
  BY <1>4
<1>8. \A i \in from .. to : i \in NonEmpty(rhs) => i <= l
  BY <1>4
<1> HIDE DEF l, last, rhs, k
<1>9. k + l \in k + from .. k + to
  BY <1>1, <1>7
<1>10. rhs[from] = stack[k + from] /\ rhs[l] = stack[k + l]
  BY <1>1, <1>2, <1>7
<1>11. k + l = k + from \/ stack[k + l].off # stack[k + l].end
  BY <1>5, <1>7
<1>12. ASSUME NEW m \in k + from .. k + to, stack[m].off # stack[m].end
       PROVE  m <= k + l
  <2>1. m - k \in from .. to /\ k + (m - k) = m
    BY <1>1
  <2>2. m - k <= l
    BY <1>5, <1>8, <1>12, <2>1
  <2> QED
    BY <1>1, <1>7, <2>1, <2>2
<1> QED
  BY <1>6, <1>9, <1>10, <1>11, <1>12 DEF IsSpan, rhs, k

LEMMA Shifted ==
  ASSUME NEW a \in Nat, NEW n \in Nat, NEW j \in a + 1 .. a + n
  PROVE  /\ j - a \in 1 .. n /\ a + (j - a) = j
         /\ \A m \in Nat : j - a <= m => j <= a + m
OBVIOUS

\* The entry that a reduction pushes, and what it reports.
LEMMA ReducedRanges ==
  ASSUME TypeOK, InLoop, NEW r \in Rule, ReduceBy(r),
         NEW k, k = Len(stack) - RuleLen[r], NEW x, x = stack'[k + 1]
  PROVE  /\ k \in 1 .. Len(stack) /\ Len(stack') = k + 1
         /\ \A i \in 1 .. k : stack'[i] = stack[i]
         /\ x.off \in Nat /\ x.end \in Nat
         /\ events' = events \o RuleEvents(r, Rhs(r), x.off, x.end)
         /\ \/ /\ next.sym # NoToken /\ x.off = next.off /\ x.end = next.off
               /\ \A i \in k + 1 .. Len(stack) : stack[i].off = stack[i].end
            \/ RuleLen[r] > 0 /\ IsSpan(x, stack, k + 1, k + RuleLen[r])
<1> DEFINE base == SubSeq(stack, 1, Len(stack) - RuleLen[r])
           rhs  == Rhs(r)
           off  == IF NonEmpty(rhs) = {} THEN next.off ELSE rhs[1].off
           end  == IF NonEmpty(rhs) = {} THEN next.off ELSE rhs[Max(NonEmpty(rhs))].end
           new  == Entry(RuleSymbol[r], off, end, gotoNT(Last(base).state, RuleSymbol[r]))
<1>1. Len(stack) \in Nat /\ RuleLen[r] \in Nat /\ Len(stack) > RuleLen[r] /\ stack \in Seq(EntrySet)
  BY CurType, TableAssumption DEF ReduceBy, TypeOK
<1>2. k \in 1 .. Len(stack) /\ Len(stack') = k + 1 /\ \A i \in 1 .. k : stack'[i] = stack[i]
  BY StackOfReduceBy
<1>3. base \in Seq(EntrySet) /\ Len(base) = k
  BY <1>1, CurType, SubSeqProperties
<1>4. stack' = Append(base, new) /\ events' = events \o RuleEvents(r, rhs, off, end)
  BY DEF ReduceBy
<1>5. new.off = off /\ new.end = end
  BY DEF Entry
<1>6. x = new
  <2> HIDE DEF base, new
  <2> QED
    BY <1>2, <1>3, <1>4
<1>7. /\ DOMAIN rhs = 1 .. RuleLen[r]
      /\ \A i \in 1 .. RuleLen[r] : /\ rhs[i] = stack[k + i]
                                    /\ rhs[i].off \in Nat /\ rhs[i].end \in Nat
  BY <1>1, RhsType
<1> HIDE DEF base, new
<1>8. CASE NonEmpty(rhs) = {}
  <2>1. next.sym # NoToken
    <3> SUFFICES ASSUME next.sym = NoToken PROVE FALSE
      OBVIOUS
    <3>1. pc = "parse" /\ cur # input.end /\ ~ TokenWanted
      BY DEF InLoop
    <3>2. ~ NeedsLookahead(cur)
      BY <3>1 DEF TokenWanted
    <3>3. DefAct[cur] = Reduce(r)
      BY <3>2 DEF ReduceBy, CurAction
    <3>4. DefAct[cur].op = "reduce" /\ DefAct[cur].rule = r
      BY <3>3 DEF Reduce
    <3> QED
      BY <1>8, <3>1, <3>4 DEF TokenWanted
  <2>2. off = next.off /\ end = next.off /\ next.off \in Nat
    BY <1>8, RangesOfTypeOK
  <2>3. ASSUME NEW i \in k + 1 .. Len(stack)
        PROVE  stack[i].off = stack[i].end
    <3>1. i - k \in 1 .. RuleLen[r] /\ k + (i - k) = i
      <4>1. k \in Nat /\ RuleLen[r] \in Nat /\ Len(stack) = k + RuleLen[r]
        BY <1>1, <1>2
      <4> QED
        BY <4>1, Shifted
    <3> QED
      BY <1>7, <1>8, <3>1 DEF NonEmpty
  <2> HIDE DEF off, end, rhs
  <2> QED
    BY <1>2, <1>4, <1>5, <1>6, <2>1, <2>2, <2>3 DEF rhs
<1>9. CASE NonEmpty(rhs) # {}
  <2> DEFINE m == Max(NonEmpty(rhs))
  <2>1. NonEmpty(rhs) \in SUBSET (0 .. RuleLen[r])
    BY <1>7 DEF NonEmpty
  <2>2. m \in NonEmpty(rhs) /\ \A i \in NonEmpty(rhs) : i <= m
    BY <1>1, <1>9, <2>1, MaxOfSet
  <2>3. off = rhs[1].off /\ end = rhs[m].end
    BY <1>9
  <2>4. \A i \in 1 .. RuleLen[r] : i \in NonEmpty(rhs) <=> stack[k + i].off # stack[k + i].end
    BY <1>7 DEF NonEmpty
  <2>5. m \in 1 .. RuleLen[r]
    BY <1>7, <2>2 DEF NonEmpty
  <2> HIDE DEF m, off, end, rhs
  <2>6. RuleLen[r] > 0 /\ k \in Nat /\ 1 \in 1 .. RuleLen[r]
    BY <1>1, <1>2, <2>5
  <2>7. off \in Nat /\ end \in Nat /\ off = stack[k + 1].off /\ end = stack[k + m].end
    BY <1>7, <2>3, <2>5, <2>6
  <2>8. k + m \in k + 1 .. k + RuleLen[r] /\ stack[k + m].off # stack[k + m].end
    BY <1>1, <2>2, <2>4, <2>5, <2>6
  <2>9. ASSUME NEW j \in k + 1 .. k + RuleLen[r], stack[j].off # stack[j].end
        PROVE  j <= k + m
    <3>1. /\ j - k \in 1 .. RuleLen[r] /\ k + (j - k) = j
          /\ \A i \in Nat : j - k <= i => j <= k + i
      <4>1. k \in Nat /\ RuleLen[r] \in Nat
        BY <1>1, <2>6
      <4> QED
        BY <4>1, Shifted
    <3>2. j - k <= m
      BY <2>2, <2>4, <2>9, <3>1
    <3>3. m \in Nat
      BY <2>5
    <3> QED
      BY <3>1, <3>2, <3>3
  <2>10. IsSpan(x, stack, k + 1, k + RuleLen[r])
    BY <1>5, <1>6, <2>7, <2>8, <2>9 DEF IsSpan
  <2> QED
    BY <1>2, <1>4, <1>5, <1>6, <2>6, <2>7, <2>10 DEF rhs
<1> QED
  BY <1>8, <1>9

\* The calls of a reduction: first the ranges inside the node, then the node.
LEMMA RuleEventsParts ==
  ASSUME TypeOK, NEW r \in Rule, Len(stack) > RuleLen[r], NEW off \in Nat, NEW end \in Nat
  PROVE  LET more == RuleEvents(r, Rhs(r), off, end)
             k    == Len(stack) - RuleLen[r]
             sub  == RuleReports[r]
         IN  /\ Ranged(more) /\ more \in Seq(EventSet)
             /\ \A i \in DOMAIN more :
                  \/ /\ i \in DOMAIN sub /\ i <= Len(sub)
                     /\ sub[i].from \in 1 .. sub[i].to /\ sub[i].to \in 1 .. RuleLen[r]
                     /\ IsSpan(more[i], stack, k + sub[i].from, k + sub[i].to)
                  \/ i = Len(sub) + 1 /\ more[i].off = off /\ more[i].end = end
<1> DEFINE more == RuleEvents(r, Rhs(r), off, end)
           k    == Len(stack) - RuleLen[r]
           sub  == RuleReports[r]
           Report(i) == LET range == RangeOf(Rhs(r), sub[i].from, sub[i].to)
                        IN  Symbol(sub[i].type, range.off, range.end)
           first == [i \in DOMAIN sub |-> Report(i)]
           node  == IF RuleNode[r] = NoNode THEN <<>> ELSE << Symbol(RuleNode[r], off, end) >>
<1>1. Len(sub) \in Nat /\ DOMAIN sub = 1 .. Len(sub) /\ RuleLen[r] \in Nat
  <2>1. sub \in Seq([type : NodeType, from : Nat, to : Nat])
    BY TableAssumption
  <2> QED
    BY <2>1, TableAssumption, LenProperties
<1>2. more = first \o node
  BY DEF RuleEvents
<1>3. more \in Seq(EventSet) /\ Ranged(more)
  <2>1. more \in Seq(EventSet)
    BY RuleEventsType
  <2>2. \A x \in EventSet : x.off \in Nat /\ x.end \in Nat
    BY DEF EventSet
  <2> QED
    BY <2>1, <2>2, RangedSeq
<1>4. \A i \in DOMAIN sub : /\ sub[i].from \in 1 .. sub[i].to /\ sub[i].to \in 1 .. RuleLen[r]
                           /\ IsSpan(Report(i), stack, k + sub[i].from, k + sub[i].to)
  <2> SUFFICES ASSUME NEW i \in DOMAIN sub
               PROVE  /\ sub[i].from \in 1 .. sub[i].to /\ sub[i].to \in 1 .. RuleLen[r]
                      /\ IsSpan(Report(i), stack, k + sub[i].from, k + sub[i].to)
    OBVIOUS
  <2> DEFINE range == RangeOf(Rhs(r), sub[i].from, sub[i].to)
  <2>1. sub[i].from \in 1 .. sub[i].to /\ sub[i].to \in 1 .. RuleLen[r]
    BY TableAssumption
  <2>2. IsSpan(range, stack, k + sub[i].from, k + sub[i].to)
    BY <2>1, RangeOfIsSpan
  <2>3. Report(i).off = range.off /\ Report(i).end = range.end
    BY DEF Symbol
  <2> HIDE DEF range, Report
  <2> QED
    BY <2>1, <2>2, <2>3 DEF IsSpan
<1>5. first \in Seq({ Report(i) : i \in DOMAIN sub }) /\ Len(first) = Len(sub)
      /\ \A i \in 1 .. Len(sub) : first[i] = Report(i)
  <2>1. first \in [1 .. Len(sub) -> { Report(i) : i \in DOMAIN sub }]
    BY <1>1
  <2>2. first \in Seq({ Report(i) : i \in DOMAIN sub })
    BY <1>1, <2>1, SeqDef
  <2> HIDE DEF Report
  <2> QED
    BY <1>1, <2>1, <2>2, LenProperties
<1>6. node \in Seq({ Symbol(RuleNode[r], off, end) })
      /\ (Len(node) = 0 \/ (Len(node) = 1 /\ node[1] = Symbol(RuleNode[r], off, end)))
  <2> DEFINE u == Symbol(RuleNode[r], off, end)
  <2> HIDE DEF u
  <2>1. node = <<>> \/ node = << u >>
    BY DEF u
  <2> HIDE DEF node
  <2>2. node \in Seq({ u }) /\ (Len(node) = 0 \/ (Len(node) = 1 /\ node[1] = u))
    <3>1. CASE node = <<>>
      BY <3>1
    <3>2. CASE node = << u >>
      BY <3>2
    <3> QED
      BY <2>1, <3>1, <3>2
  <2> QED
    BY <2>2 DEF u
<1> HIDE DEF first, node, more, k
<1>7. /\ Len(first \o node) = Len(sub) + Len(node)
      /\ \A i \in 1 .. Len(sub) : (first \o node)[i] = first[i]
      /\ \A i \in 1 .. Len(node) : (first \o node)[Len(sub) + i] = node[i]
  <2> DEFINE U == { Report(i) : i \in DOMAIN sub } \union { Symbol(RuleNode[r], off, end) }
  <2>1. first \in Seq(U) /\ node \in Seq(U)
    BY <1>5, <1>6, SeqMonotonic
  <2> HIDE DEF U
  <2>2. first \o node \in Seq(U) /\ Len(first \o node) = Len(first) + Len(node)
    BY <2>1, ConcatProperties
  <2>3. /\ \A i \in 1 .. Len(first) : (first \o node)[i] = first[i]
        /\ \A i \in 1 .. Len(node) : (first \o node)[Len(first) + i] = node[i]
    BY <2>1
  <2> QED
    BY <1>5, <2>2, <2>3
<1>8. DOMAIN more = 1 .. Len(sub) + Len(node)
  BY <1>2, <1>3, <1>7 DEF Ranged
<1>9. ASSUME NEW i \in DOMAIN more, i \notin DOMAIN sub
      PROVE  i = Len(sub) + 1 /\ more[i].off = off /\ more[i].end = end
  <2>1. Len(node) = 1 /\ i = Len(sub) + 1
    <3>1. Len(node) \in 0 .. 1 /\ i \in 1 .. Len(sub) + Len(node) /\ i \notin 1 .. Len(sub)
      BY <1>1, <1>6, <1>8, <1>9
    <3>2. CASE Len(node) = 0
      BY <1>1, <3>1, <3>2
    <3>3. CASE Len(node) = 1
      BY <1>1, <3>1, <3>3
    <3> QED
      BY <3>1, <3>2, <3>3
  <2>2. more[i] = Symbol(RuleNode[r], off, end)
    BY <1>2, <1>6, <1>7, <2>1
  <2> QED
    BY <2>1, <2>2 DEF Symbol
<1>10. ASSUME NEW i \in DOMAIN sub PROVE more[i] = Report(i) /\ i <= Len(sub)
  BY <1>1, <1>2, <1>5, <1>7
<1> HIDE DEF Report
<1>11. \A i \in DOMAIN more :
         \/ /\ i \in DOMAIN sub /\ i <= Len(sub)
            /\ sub[i].from \in 1 .. sub[i].to /\ sub[i].to \in 1 .. RuleLen[r]
            /\ IsSpan(more[i], stack, k + sub[i].from, k + sub[i].to)
         \/ i = Len(sub) + 1 /\ more[i].off = off /\ more[i].end = end
  BY <1>4, <1>9, <1>10
<1> QED
  BY <1>3, <1>11 DEF more, k

LEMMA RangesOfNextTypeOK ==
  ASSUME TypeOK'
  PROVE  /\ Ranged(stack') /\ Ranged(pending') /\ Ranged(events')
         /\ next'.off \in Nat /\ next'.end \in Nat /\ offset' \in Nat /\ Limit' \in Nat
<1>1. /\ \A x \in EntrySet : x.off \in Nat /\ x.end \in Nat
      /\ \A x \in SymbolSet : x.off \in Nat /\ x.end \in Nat
      /\ \A x \in EventSet : x.off \in Nat /\ x.end \in Nat
  BY DEF EntrySet, SymbolSet, EventSet
<1>2. stack' \in Seq(EntrySet) /\ pending' \in Seq(SymbolSet) /\ events' \in Seq(EventSet)
      /\ next' \in SymbolSet /\ offset' \in Nat
  BY DEF TypeOK, EventSet
<1>3. Ranged(stack') /\ Ranged(pending') /\ Ranged(events')
  BY <1>1, <1>2, RangedSeq
<1> QED
  BY <1>1, <1>2, <1>3 DEF Limit

\* A reduction puts a range on the stack, and reports some, that lie between
\* the ranges below it and the pending tokens.
LEMMA ReduceByFits ==
  ASSUME TypeOK, TypeOK', Fits(events, pending, stack, Limit),
         InLoop, NEW r \in Rule, ReduceBy(r)
  PROVE  Fits(events', pending', stack', Limit')
<1> DEFINE k == Len(stack) - RuleLen[r]
           x == stack'[k + 1]
           more == RuleEvents(r, Rhs(r), x.off, x.end)
           sub == RuleReports[r]
<1>1. /\ k \in 1 .. Len(stack) /\ Len(stack') = k + 1
      /\ \A i \in 1 .. k : stack'[i] = stack[i]
      /\ x.off \in Nat /\ x.end \in Nat
      /\ events' = events \o more
      /\ \/ next.sym # NoToken /\ x.off = next.off /\ x.end = next.off
         \/ RuleLen[r] > 0 /\ IsSpan(x, stack, k + 1, k + RuleLen[r])
  BY ReducedRanges
<1>2. /\ Len(stack) > RuleLen[r] /\ RuleLen[r] \in Nat /\ Len(stack) \in Nat
      /\ pending' = pending /\ Limit' = Limit
  BY CurType, TableAssumption DEF ReduceBy, Limit, lexVars
<1>3. /\ Ranged(more) /\ more \in Seq(EventSet)
      /\ \A i \in DOMAIN more :
           \/ /\ i \in DOMAIN sub /\ i <= Len(sub)
              /\ sub[i].from \in 1 .. sub[i].to /\ sub[i].to \in 1 .. RuleLen[r]
              /\ IsSpan(more[i], stack, k + sub[i].from, k + sub[i].to)
           \/ i = Len(sub) + 1 /\ more[i].off = x.off /\ more[i].end = x.end
  <2>1. x.off \in Nat /\ x.end \in Nat /\ Len(stack) > RuleLen[r]
    BY <1>1, <1>2
  <2> HIDE DEF x
  <2> QED
    BY <2>1, RuleEventsParts
<1>4. /\ Ranged(stack) /\ Ranged(pending) /\ Ranged(events) /\ Limit \in Nat
      /\ Ranged(stack') /\ Ranged(events') /\ next.off \in Nat
  BY RangesOfTypeOK, RangesOfNextTypeOK
<1>5. \A i, j \in DOMAIN sub : i < j => \/ sub[i].to < sub[j].from
                                        \/ sub[j].from <= sub[i].from /\ sub[i].to <= sub[j].to
  BY TableAssumption
<1>6. k + RuleLen[r] = Len(stack)
  BY <1>2
<1>7. Len(sub) \in Nat
  <2>1. sub \in Seq([type : NodeType, from : Nat, to : Nat])
    BY TableAssumption
  <2> QED
    BY <2>1, LenProperties
<1> HIDE DEF x, more, sub, k
<1>8. k \in Nat /\ k \in DOMAIN stack /\ DOMAIN stack = 1 .. k + RuleLen[r]
  BY <1>1, <1>4, <1>6 DEF Ranged
<1>9. \A i \in 1 .. RuleLen[r] : k + i \in DOMAIN stack
  BY <1>2, <1>8
<1>10. next.sym # NoToken => Limit = next.off
  BY DEF Limit
<1>11. /\ x.off <= x.end /\ x.end <= Limit /\ stack[k].end <= x.off
       /\ \A i \in DOMAIN events : Meets(events[i], x)
       /\ \A i \in DOMAIN pending : Behind(pending[i], x)
  <2>1. CASE next.sym # NoToken /\ x.off = next.off /\ x.end = next.off
    BY <1>4, <1>8, <1>10, <2>1
       DEF Fits, StackFits, PendingFits, EventsFit, Meets, Behind, Calls!Beside
  <2>2. CASE RuleLen[r] > 0 /\ IsSpan(x, stack, k + 1, k + RuleLen[r])
    <3> DEFINE from == k + 1
               to == k + RuleLen[r]
    <3>1. from \in DOMAIN stack /\ to \in DOMAIN stack /\ k < from
      BY <1>2, <1>8, <1>9, <2>2
    <3>2. IsSpan(x, stack, from, to)
      BY <2>2
    <3> HIDE DEF from, to
    <3> QED
      BY <1>4, <1>8, <3>1, <3>2, SpanFits
  <2> QED
    BY <1>1, <2>1, <2>2
<1>12. Fits(events, pending, stack', Limit)
  BY <1>1, <1>4, <1>8, <1>11, PushFits DEF x
<1>13. ASSUME NEW i \in DOMAIN more
       PROVE  /\ more[i].off <= more[i].end /\ more[i].end <= Limit
              /\ Meets(more[i], x)
              /\ \A j \in 1 .. k : stack[j].end <= more[i].off
              /\ \A j \in DOMAIN pending : Behind(pending[j], more[i])
              /\ \A j \in DOMAIN events : Meets(events[j], more[i])
  <2>1. CASE /\ i \in DOMAIN sub
             /\ sub[i].from \in 1 .. sub[i].to /\ sub[i].to \in 1 .. RuleLen[r]
             /\ IsSpan(more[i], stack, k + sub[i].from, k + sub[i].to)
    <3> DEFINE from == k + sub[i].from
               to == k + sub[i].to
    <3>1. /\ from \in DOMAIN stack /\ to \in DOMAIN stack
          /\ k + 1 <= from /\ to <= k + RuleLen[r]
          /\ k + 1 \in DOMAIN stack /\ k + RuleLen[r] \in DOMAIN stack
      <4>1. /\ sub[i].from \in 1 .. RuleLen[r] /\ sub[i].to \in 1 .. RuleLen[r]
            /\ RuleLen[r] > 0
        BY <1>2, <2>1
      <4>2. \A a \in 1 .. RuleLen[r] : k + 1 <= k + a /\ k + a <= k + RuleLen[r]
        BY <1>2, <1>8
      <4>3. k + 1 \in DOMAIN stack /\ k + RuleLen[r] \in DOMAIN stack
        BY <1>2, <1>9, <4>1
      <4> QED
        BY <1>9, <4>1, <4>2, <4>3
    <3> HIDE DEF from, to
    <3>2. IsSpan(more[i], stack, from, to)
      BY <2>1 DEF from, to
    <3>3. /\ more[i].off <= more[i].end /\ more[i].end <= Limit
          /\ \A j \in DOMAIN pending : Behind(pending[j], more[i])
          /\ \A j \in DOMAIN events : Meets(events[j], more[i])
          /\ \A j \in DOMAIN stack : j < from => stack[j].end <= more[i].off
      BY <1>4, <3>1, <3>2, SpanFits
    <3>4. \A j \in 1 .. k : stack[j].end <= more[i].off
      <4>1. \A j \in 1 .. k : j \in DOMAIN stack /\ j < from
        BY <1>2, <1>8, <3>1
      <4> QED
        BY <3>3, <4>1
    <3>5. Meets(more[i], x)
      <4>1. CASE next.sym # NoToken /\ x.off = next.off /\ x.end = next.off
        BY <1>10, <3>3, <4>1 DEF Meets, Calls!Beside
      <4>2. CASE IsSpan(x, stack, k + 1, k + RuleLen[r])
        BY <1>4, <3>1, <3>2, <4>2, SpansMeet DEF Fits
      <4> QED
        BY <1>1, <4>1, <4>2
    <3> QED
      BY <3>3, <3>4, <3>5
  <2>2. CASE more[i].off = x.off /\ more[i].end = x.end
    <3>1. \A j \in 1 .. k : stack[j].end <= x.off
      <4> SUFFICES ASSUME NEW j \in 1 .. k PROVE stack[j].end <= x.off
        OBVIOUS
      <4>1. j \in DOMAIN stack' /\ k + 1 \in DOMAIN stack' /\ j < k + 1
        BY <1>1, <1>4, <1>8 DEF Ranged
      <4> QED
        BY <1>1, <1>12, <4>1 DEF Fits, StackFits, x
    <3> QED
      BY <1>1, <1>11, <2>2, <3>1 DEF Meets, Behind, Calls!Beside, Calls!Encloses
  <2> QED
    BY <1>3, <2>1, <2>2
<1>14. ASSUME NEW i \in DOMAIN more, NEW j \in DOMAIN more, i < j
       PROVE  Meets(more[i], more[j])
  <2>1. CASE j = Len(sub) + 1 /\ more[j].off = x.off /\ more[j].end = x.end
    BY <1>13, <2>1 DEF Meets, Calls!Beside, Calls!Encloses
  <2>2. CASE /\ j \in DOMAIN sub /\ j <= Len(sub)
             /\ sub[j].from \in 1 .. sub[j].to /\ sub[j].to \in 1 .. RuleLen[r]
             /\ IsSpan(more[j], stack, k + sub[j].from, k + sub[j].to)
    <3>1. /\ i \in DOMAIN sub
          /\ sub[i].from \in 1 .. sub[i].to /\ sub[i].to \in 1 .. RuleLen[r]
          /\ IsSpan(more[i], stack, k + sub[i].from, k + sub[i].to)
      <4>1. i # Len(sub) + 1
        <5>1. i \in Nat /\ j \in Nat
          BY <1>3 DEF Ranged
        <5> QED
          BY <1>7, <1>14, <2>2, <5>1
      <4> QED
        BY <1>3, <4>1
    <3> DEFINE f1 == k + sub[i].from
               t1 == k + sub[i].to
               f2 == k + sub[j].from
               t2 == k + sub[j].to
    <3>2. /\ f1 \in DOMAIN stack /\ t1 \in DOMAIN stack
          /\ f2 \in DOMAIN stack /\ t2 \in DOMAIN stack
      <4>1. \A a \in 1 .. RuleLen[r] : \A b \in 1 .. a : b \in 1 .. RuleLen[r]
        BY <1>2
      <4>2. /\ sub[i].from \in 1 .. RuleLen[r] /\ sub[i].to \in 1 .. RuleLen[r]
            /\ sub[j].from \in 1 .. RuleLen[r] /\ sub[j].to \in 1 .. RuleLen[r]
        BY <2>2, <3>1, <4>1
      <4> QED
        BY <1>9, <4>2
    <3>3. t1 < f2 \/ (f2 <= f1 /\ t1 <= t2)
      <4>1. sub[i].to < sub[j].from \/ (sub[j].from <= sub[i].from /\ sub[i].to <= sub[j].to)
        BY <1>5, <1>14, <2>2, <3>1
      <4>2. /\ sub[i].from \in Int /\ sub[i].to \in Int
            /\ sub[j].from \in Int /\ sub[j].to \in Int
        BY <2>2, <3>1
      <4>3. \A a, b \in Int : (a < b => k + a < k + b) /\ (a <= b => k + a <= k + b)
        BY <1>8
      <4> QED
        BY <4>1, <4>2, <4>3
    <3>4. IsSpan(more[i], stack, f1, t1) /\ IsSpan(more[j], stack, f2, t2)
      BY <2>2, <3>1
    <3> HIDE DEF f1, t1, f2, t2
    <3> QED
      BY <1>4, <3>2, <3>3, <3>4, SpansMeet DEF Fits
  <2> QED
    BY <1>3, <2>1, <2>2
<1>15. /\ Len(events') = Len(events) + Len(more)
       /\ \A i \in DOMAIN events : events'[i] = events[i]
       /\ \A i \in DOMAIN more : events'[Len(events) + i] = more[i]
  <2>1. events \in Seq(EventSet)
    BY DEF TypeOK, EventSet
  <2>2. /\ Len(events \o more) = Len(events) + Len(more)
        /\ \A i \in 1 .. Len(events) : (events \o more)[i] = events[i]
        /\ \A i \in 1 .. Len(more) : (events \o more)[Len(events) + i] = more[i]
    BY <1>3, <2>1
  <2> QED
    BY <1>1, <1>3, <1>4, <2>2 DEF Ranged
<1>16. \A i \in DOMAIN more, j \in DOMAIN stack' : Meets(more[i], stack'[j])
  <2> SUFFICES ASSUME NEW i \in DOMAIN more, NEW j \in DOMAIN stack'
               PROVE  Meets(more[i], stack'[j])
    OBVIOUS
  <2>1. j = k + 1 \/ (j \in 1 .. k /\ stack'[j] = stack[j])
    BY <1>1, <1>4, <1>8 DEF Ranged
  <2> QED
    BY <1>13, <2>1 DEF Meets, Calls!Beside, x
<1>17. \A i \in DOMAIN more, j \in DOMAIN pending : Calls!Beside(more[i], pending[j])
  <2> SUFFICES ASSUME NEW i \in DOMAIN more, NEW j \in DOMAIN pending
               PROVE  Calls!Beside(more[i], pending[j])
    OBVIOUS
  <2>1. /\ Behind(pending[j], more[i]) /\ more[i].off <= more[i].end
        /\ more[i].off \in Nat /\ more[i].end \in Nat
        /\ pending[j].off \in Nat /\ pending[j].end \in Nat
    BY <1>3, <1>4, <1>13 DEF Ranged
  <2>2. pending[j].off < pending[j].end
    BY DEF Fits, PendingFits
  <2> QED
    BY <2>1, <2>2 DEF Behind, Calls!Beside
<1>18. Fits(events', pending, stack', Limit)
  <2> HIDE DEF Fits
  <2> QED
    BY <1>3, <1>4, <1>12, <1>13, <1>14, <1>15, <1>16, <1>17, CallsFit
<1> QED
  BY <1>2, <1>18

-----------------------------------------------------------------------------
\* The range of the token in hand: only the end of the text is empty.
TokenRange ==
  /\ next.off <= next.end
  /\ next.sym # NoToken => next.end <= offset
  /\ next.sym = EOI => next.off = next.end
  /\ next.sym \notin {EOI, NoToken} => next.off < next.end

\* The range of `error` while tokens are skipped: no token and no node is cut by it.
SkipRanges ==
  pc = "skip" =>
    /\ recovery.s <= recovery.e /\ recovery.e <= Limit
    /\ Last(stack).end <= recovery.s
    /\ \A i \in DOMAIN pending : Clear(pending[i], recovery.s) /\ Clear(pending[i], recovery.e)
    /\ \A i \in DOMAIN events : Clear(events[i], recovery.s) /\ Clear(events[i], recovery.e)

RangesInv == TokenRange /\ Fits(events, pending, stack, Limit) /\ SkipRanges

LEMMA InitRanges == Init => RangesInv
<1> SUFFICES ASSUME Init PROVE RangesInv
  OBVIOUS
<1>1. /\ stack = << Entry(NoToken, 0, 0, input.start) >>
      /\ pending = <<>> /\ events = <<>> /\ pc = "start"
      /\ next.sym = NoToken /\ next.off = 0 /\ next.end = 0 /\ offset = 0
  BY DEF Init, Symbol
<1>2. DOMAIN pending = {} /\ DOMAIN events = {} /\ Limit = 0
  BY <1>1 DEF Limit
<1>3. DOMAIN stack = {1} /\ stack[1].off = 0 /\ stack[1].end = 0
  BY <1>1 DEF Entry
<1>4. Fits(events, pending, stack, Limit)
  BY <1>2, <1>3 DEF Fits, StackFits, PendingFits, EventsFit
<1> QED
  BY <1>1, <1>4 DEF RangesInv, TokenRange, SkipRanges

\* A token is put aside behind everything laid out so far.
LEMMA LexIgnoredRanges ==
  ASSUME TypeOK, TypeOK', RangesInv, NEW t \in Ignored, NEW gap \in Gaps, LexIgnored(t, gap)
  PROVE  RangesInv'
<1> DEFINE tok == Symbol(t, offset + gap, offset + gap + 1)
<1>1. /\ next.sym = NoToken /\ pending' = Append(pending, tok) /\ offset' = tok.end
      /\ UNCHANGED << next, stack, recovery, events, pc >>
  BY DEF LexIgnored, TokenWanted
<1>2. gap \in Nat /\ offset \in Nat
  BY BoundAssumption DEF TypeOK
<1>3. /\ tok.off = offset + gap /\ tok.end = offset + gap + 1 /\ tok.off \in Nat /\ tok.end \in Nat
      /\ tok \in SymbolSet
  <2>1. t \in Terminals \union Ignored \union {NoToken}
    OBVIOUS
  <2> QED
    BY <1>2, <2>1 DEF Symbol, SymbolSet
<1> HIDE DEF tok
<1>4. Limit = offset /\ Limit' = offset' /\ Limit <= tok.off /\ tok.off < tok.end /\ tok.end = Limit'
      /\ Limit' \in Nat
  BY <1>1, <1>2, <1>3 DEF Limit
<1>5. /\ Ranged(stack) /\ Ranged(pending) /\ Ranged(events) /\ Limit \in Nat
      /\ Ranged(pending')
  BY RangesOfTypeOK, RangesOfNextTypeOK
<1>6. /\ DOMAIN pending' = 1 .. Len(pending) + 1 /\ pending'[Len(pending) + 1] = tok
      /\ \A i \in 1 .. Len(pending) : pending'[i] = pending[i]
  <2>1. pending \in Seq(SymbolSet)
    BY DEF TypeOK
  <2> QED
    BY <1>1, <1>3, <2>1
<1>7. DOMAIN pending = 1 .. Len(pending) /\ Len(pending) \in Nat
  BY <1>5 DEF Ranged
<1>8. \A i \in DOMAIN pending' :
        (i \in DOMAIN pending /\ pending'[i] = pending[i]) \/ (i = Len(pending) + 1 /\ pending'[i] = tok)
  BY <1>6, <1>7
<1>9. Fits(events, pending, stack, Limit')
  BY <1>3, <1>4, <1>5, FitsFurther DEF RangesInv
<1>10. PendingFits(pending', stack, Limit')
  <2>1. \A i \in DOMAIN pending' : pending'[i].off < pending'[i].end /\ pending'[i].end <= Limit'
    BY <1>3, <1>4, <1>8, <1>9 DEF Fits, PendingFits
  <2>2. ASSUME NEW i \in DOMAIN pending', NEW j \in DOMAIN pending', i < j
        PROVE  pending'[i].end <= pending'[j].off
    <3>1. i \in DOMAIN pending /\ pending'[i] = pending[i]
      BY <1>6, <1>7, <1>8, <2>2
    <3>2. pending[i].end <= Limit /\ pending[i].end \in Nat
      BY <1>5, <3>1 DEF RangesInv, Fits, PendingFits, Ranged
    <3>3. CASE j \in DOMAIN pending /\ pending'[j] = pending[j]
      BY <1>9, <2>2, <3>1, <3>3 DEF Fits, PendingFits
    <3>4. CASE pending'[j] = tok
      BY <1>3, <1>4, <1>5, <3>1, <3>2, <3>4
    <3> QED
      BY <1>8, <3>3, <3>4
  <2>3. \A i \in DOMAIN stack : Behind(tok, stack[i])
    BY <1>3, <1>4, <1>5 DEF RangesInv, Fits, StackFits, Behind, Ranged
  <2>4. \A i \in DOMAIN pending', j \in DOMAIN stack : Behind(pending'[i], stack[j])
    BY <1>8, <1>9, <2>3 DEF Fits, PendingFits
  <2> QED
    BY <2>1, <2>2, <2>4 DEF PendingFits
<1>11. EventsFit(events, pending', stack, Limit')
  <2>1. \A i \in DOMAIN events : Calls!Beside(events[i], tok)
    BY <1>3, <1>4, <1>5 DEF RangesInv, Fits, EventsFit, Calls!Beside, Ranged
  <2>2. \A i \in DOMAIN events, j \in DOMAIN pending' : Calls!Beside(events[i], pending'[j])
    BY <1>8, <1>9, <2>1 DEF Fits, EventsFit
  <2> QED
    BY <1>9, <2>2 DEF Fits, EventsFit
<1>12. Fits(events', pending', stack', Limit')
  BY <1>1, <1>9, <1>10, <1>11 DEF Fits
<1>13. TokenRange'
  BY <1>1 DEF RangesInv, TokenRange
<1>14. SkipRanges'
  <2> SUFFICES ASSUME pc = "skip"
               PROVE  SkipRanges'
    BY <1>1 DEF SkipRanges
  <2>1. /\ recovery.s <= recovery.e /\ recovery.e <= Limit /\ Last(stack).end <= recovery.s
        /\ \A i \in DOMAIN pending : Clear(pending[i], recovery.s) /\ Clear(pending[i], recovery.e)
        /\ \A i \in DOMAIN events : Clear(events[i], recovery.s) /\ Clear(events[i], recovery.e)
        /\ recovery.s \in Nat /\ recovery.e \in Nat
    BY RangesOfTypeOK DEF RangesInv, SkipRanges
  <2>2. Clear(tok, recovery.s) /\ Clear(tok, recovery.e) /\ recovery.e <= Limit'
    BY <1>3, <1>4, <1>5, <2>1 DEF Clear
  <2>3. \A i \in DOMAIN pending' : Clear(pending'[i], recovery.s) /\ Clear(pending'[i], recovery.e)
    BY <1>8, <2>1, <2>2
  <2> QED
    BY <1>1, <2>1, <2>2, <2>3 DEF SkipRanges
<1> QED
  BY <1>12, <1>13, <1>14 DEF RangesInv

LEMMA LexTokenRanges ==
  ASSUME TypeOK, TypeOK', RangesInv, NEW t \in Terminals, NEW gap \in Gaps, LexToken(t, gap)
  PROVE  RangesInv'
<1>1. /\ next.sym = NoToken
      /\ next' = Symbol(t, offset + gap, offset + gap + (IF t = EOI THEN 0 ELSE 1))
      /\ offset' = next'.end
      /\ pc' = "skip" => pc = "skip"
      /\ UNCHANGED << pending, stack, recovery, events >>
  BY DEF LexToken, TokenWanted
<1>2. gap \in Nat /\ offset \in Nat /\ t # NoToken
  BY BoundAssumption, SymbolAssumption DEF TypeOK
<1>3. /\ next'.sym = t /\ next'.off = offset + gap
      /\ next'.end = offset + gap + (IF t = EOI THEN 0 ELSE 1)
  BY <1>1 DEF Symbol
<1>4. Limit = offset /\ Limit' = offset + gap /\ Limit <= Limit' /\ Limit' \in Nat
  BY <1>1, <1>2, <1>3 DEF Limit
<1>5. TokenRange'
  BY <1>1, <1>2, <1>3 DEF TokenRange
<1>6. Fits(events', pending', stack', Limit')
  <2>1. Fits(events, pending, stack, Limit')
    BY <1>2, <1>4, RangesOfTypeOK, FitsFurther DEF RangesInv
  <2> QED
    BY <1>1, <2>1
<1>7. SkipRanges'
  <2> SUFFICES ASSUME pc = "skip" PROVE SkipRanges'
    BY <1>1 DEF SkipRanges
  <2>1. recovery.e <= Limit'
    BY <1>2, <1>4, RangesOfTypeOK DEF RangesInv, SkipRanges
  <2> QED
    BY <1>1, <2>1 DEF RangesInv, SkipRanges
<1> QED
  BY <1>5, <1>6, <1>7 DEF RangesInv

\* A flush on a way out of the parser.
LEMMA FlushRanges ==
  ASSUME TypeOK, TypeOK', RangesInv, NEW end, Flush(end),
         UNCHANGED << next, stack, offset >>, pc' # "skip"
  PROVE  RangesInv'
<1>1. Limit' = Limit /\ Limit \in Nat
  BY RangesOfTypeOK DEF Limit
<1>2. Fits(events', pending', stack, Limit)
  BY <1>1, FlushFits DEF RangesInv
<1>3. TokenRange' /\ SkipRanges'
  BY DEF RangesInv, TokenRange, SkipRanges
<1> QED
  BY <1>1, <1>2, <1>3 DEF RangesInv

\* A flush up to the end of the token in hand reports all that is pending.
LEMMA FlushEmpties ==
  ASSUME TypeOK, RangesInv, next.sym # NoToken, Flush(next.end)
  PROVE  DOMAIN pending' = {}
<1> SUFFICES ASSUME NEW i \in DOMAIN pending' PROVE FALSE
  OBVIOUS
<1>1. Limit = next.off /\ next.off \in Nat /\ next.end \in Nat /\ next.off <= next.end
  BY RangesOfTypeOK DEF Limit, RangesInv, TokenRange
<1>2. pending'[i].end > next.end /\ \E j \in DOMAIN pending : pending'[i] = pending[j]
  BY <1>1, FlushFits DEF RangesInv
<1>3. PICK j \in DOMAIN pending : pending'[i] = pending[j]
  BY <1>2
<1>4. pending[j].end <= next.off /\ pending[j].end \in Nat
  BY <1>1, RangesOfTypeOK DEF RangesInv, Fits, PendingFits, Ranged
<1> QED
  BY <1>1, <1>2, <1>3, <1>4

LEMMA ReduceByRanges ==
  ASSUME TypeOK, TypeOK', RangesInv, InLoop, NEW r \in Rule, ReduceBy(r)
  PROVE  RangesInv'
<1>1. Fits(events', pending', stack', Limit')
  BY ReduceByFits DEF RangesInv
<1>2. next' = next /\ offset' = offset /\ pc' = "parse"
  BY DEF ReduceBy, InLoop, lexVars
<1>3. TokenRange' /\ SkipRanges'
  BY <1>2 DEF RangesInv, TokenRange, SkipRanges
<1> QED
  BY <1>1, <1>3 DEF RangesInv

LEMMA ShiftToRanges ==
  ASSUME TypeOK, TypeOK', RangesInv, InLoop, NEW q \in State, ShiftTo(q)
  PROVE  RangesInv'
<1> DEFINE x == stack'[Len(stack) + 1]
<1>1. next.sym \in Terminals /\ next.sym # NoToken
  BY ShiftsAreInRows, SymbolAssumption DEF ShiftTo, Shift
<1>2. /\ Flush(next.end) /\ offset' = offset /\ pc' = "parse"
      /\ next' = IF next.sym = EOI THEN next ELSE [next EXCEPT !.sym = NoToken]
      /\ stack' = Append(stack, Entry(next.sym, next.off, next.end, q))
  BY DEF ShiftTo, InLoop, lexVars
<1>3. /\ Limit = next.off /\ Limit \in Nat /\ next.off \in Nat /\ next.end \in Nat /\ offset \in Nat
      /\ next.off <= next.end /\ next.end <= offset
      /\ Ranged(stack) /\ Ranged(stack') /\ Ranged(pending') /\ Ranged(events')
  BY <1>1, RangesOfTypeOK, RangesOfNextTypeOK DEF Limit, RangesInv, TokenRange
<1>4. Fits(events', pending', stack, next.off) /\ DOMAIN pending' = {}
  BY <1>1, <1>2, <1>3, FlushFits, FlushEmpties DEF RangesInv
<1>5. Fits(events', pending', stack, next.end)
  <2> HIDE DEF Fits
  <2> QED
    BY <1>3, <1>4, FitsFurther
<1>6. /\ Len(stack) \in DOMAIN stack /\ Len(stack') = Len(stack) + 1
      /\ \A i \in 1 .. Len(stack) : stack'[i] = stack[i]
      /\ x.off = next.off /\ x.end = next.end
  <2> DEFINE e == Entry(next.sym, next.off, next.end, q)
  <2>1. e.off = next.off /\ e.end = next.end
    BY DEF Entry
  <2>2. stack \in Seq(EntrySet) /\ Len(stack) \in Nat \ {0} /\ DOMAIN stack = 1 .. Len(stack)
    BY CurType DEF TypeOK
  <2> HIDE DEF e
  <2>3. Len(stack') = Len(stack) + 1 /\ x = e /\ \A i \in 1 .. Len(stack) : stack'[i] = stack[i]
    BY <1>2, <2>2 DEF e
  <2> QED
    BY <2>1, <2>2, <2>3
<1> HIDE DEF x
<1>7. /\ stack[Len(stack)].end <= x.off
      /\ \A i \in DOMAIN events' : Meets(events'[i], x)
      /\ \A i \in DOMAIN pending' : Behind(pending'[i], x)
  BY <1>4, <1>6 DEF Fits, StackFits, EventsFit, Meets, Calls!Beside
<1>8. Fits(events', pending', stack', next.end)
  <2>1. x = stack'[Len(stack) + 1]
    BY DEF x
  <2>2. x.off <= x.end /\ x.end <= next.end
    BY <1>3, <1>6
  <2> HIDE DEF Fits
  <2> DEFINE n == Len(stack)
             evs == events'
             pend == pending'
             stk2 == stack'
  <2>3. /\ n \in DOMAIN stack /\ Len(stk2) = n + 1 /\ x = stk2[n + 1]
        /\ \A i \in 1 .. n : stk2[i] = stack[i]
        /\ Ranged(stk2) /\ Ranged(evs) /\ Ranged(pend) /\ Fits(evs, pend, stack, next.end)
        /\ stack[n].end <= x.off
        /\ \A i \in DOMAIN evs : Meets(evs[i], x)
        /\ \A i \in DOMAIN pend : Behind(pend[i], x)
    BY <1>3, <1>5, <1>6, <1>7, <2>1
  <2> HIDE DEF n, evs, pend, stk2
  <2>4. Fits(evs, pend, stk2, next.end)
    BY <1>3, <2>2, <2>3, PushFits
  <2> QED
    BY <2>4 DEF evs, pend, stk2
<1>9. Limit' \in Nat /\ next.end <= Limit'
  BY <1>1, <1>2, <1>3, RangesOfNextTypeOK DEF Limit, RangesInv, TokenRange
<1>10. Fits(events', pending', stack', Limit')
  <2> HIDE DEF Fits
  <2> QED
    BY <1>3, <1>8, <1>9, FitsFurther
<1>11. TokenRange' /\ SkipRanges'
  <2>1. NoToken # EOI
    BY SymbolAssumption
  <2>2. next \in SymbolSet
    BY DEF TypeOK
  <2> QED
    BY <1>2, <1>3, <2>1, <2>2 DEF RangesInv, TokenRange, SkipRanges, SymbolSet
<1> QED
  BY <1>10, <1>11 DEF RangesInv

LEMMA LoopRanges ==
  ASSUME TypeOK, TypeOK', RangesInv, Parse
  PROVE  RangesInv'
<1>1. InLoop
  BY DEF Parse
<1>2. CASE \E r \in Rule : ReduceBy(r)
  BY <1>1, <1>2, ReduceByRanges
<1>3. CASE \E q \in State : ShiftTo(q)
  BY <1>1, <1>3, ShiftToRanges
<1>4. CASE Cancel
  BY <1>4 DEF Cancel, lexVars, RangesInv, TokenRange, SkipRanges, Limit
<1>5. CASE \E goOn \in BOOLEAN : ReportError(goOn)
  <2>1. UNCHANGED << next, stack, offset >> /\ pc' # "skip"
    BY <1>5 DEF ReportError, lexVars
  <2>2. CASE Flush(next.end)
    BY <2>1, <2>2, FlushRanges
  <2>3. CASE UNCHANGED << pending, events >>
    BY <2>1, <2>3 DEF RangesInv, TokenRange, SkipRanges, Limit
  <2> QED
    BY <1>5, <2>2, <2>3 DEF ReportError
<1>6. CASE RepeatedError
  BY <1>6 DEF RepeatedError, lexVars, RangesInv, TokenRange, SkipRanges, Limit
<1> QED
  BY <1>2, <1>3, <1>4, <1>5, <1>6 DEF Parse

\* The range that `error` is to cover starts behind the stack: this is what
\* the hypothesis is for.
LEMMA StartRecoveryRanges ==
  ASSUME TypeOK, TypeOK', RangesInv, StackBeforeInvalid, StartRecovery
  PROVE  RangesInv'
<1> DEFINE starts == { next.off } \union { pending[i].off : i \in InvalidPending }
           ends   == IF InvalidPending = {} THEN { next.off }
                     ELSE { pending[i].end : i \in { k \in InvalidPending :
                                                      IsMax(k, InvalidPending) } }
<1>1. PICK s \in starts, e \in ends :
        IsMin(s, starts) /\ recovery' = [pos |-> ErrorPositions, syms |-> AfterErr, s |-> s, e |-> e]
  BY DEF StartRecovery
<1>2. /\ next.sym # NoToken /\ pc = "recover"
      /\ UNCHANGED << next, offset, pending, stack, events >>
  BY DEF StartRecovery, lexVars
<1>3. /\ Ranged(stack) /\ Ranged(pending) /\ Ranged(events)
      /\ Limit = next.off /\ Limit \in Nat
      /\ Len(stack) \in DOMAIN stack /\ Last(stack) = stack[Len(stack)]
  BY <1>2, RangesOfTypeOK DEF Limit, Ranged
<1>4. recovery'.s = s /\ recovery'.e = e
  BY <1>1
<1>5. \A i \in DOMAIN pending :
        /\ pending[i].off \in Nat /\ pending[i].end \in Nat
        /\ pending[i].off < pending[i].end /\ pending[i].end <= Limit
  BY <1>3 DEF Ranged, RangesInv, Fits, PendingFits
<1>6. \A i \in InvalidPending : i \in DOMAIN pending
  BY DEF InvalidPending
<1>7. s = next.off \/ \E i \in InvalidPending : s = pending[i].off
  OBVIOUS
<1>8. \/ InvalidPending = {} /\ e = next.off
      \/ \E i \in InvalidPending : e = pending[i].end
  OBVIOUS
<1>9. \A y \in starts : s <= y
  BY <1>1 DEF IsMin
<1>10. s <= next.off /\ \A i \in InvalidPending : s <= pending[i].off
  BY <1>9
<1> HIDE DEF starts, ends
<1>11. s \in Nat /\ e \in Nat /\ s <= e /\ e <= Limit
  BY <1>3, <1>5, <1>6, <1>7, <1>8, <1>10
<1>12. Last(stack).end <= s
  <2>1. Last(stack).end <= next.off
    BY <1>3 DEF RangesInv, Fits, StackFits
  <2>2. \A i \in InvalidPending : Last(stack).end <= pending[i].off
    BY <1>2 DEF StackBeforeInvalid
  <2> QED
    BY <1>7, <2>1, <2>2
<1>13. ASSUME NEW x, x.off \in Nat, x.end \in Nat, x.off <= x.end, x.end <= Limit,
              \A i \in DOMAIN pending :
                \/ Calls!Beside(x, pending[i])
                \/ x.off = pending[i].off /\ x.end = pending[i].end
       PROVE  Clear(x, s) /\ Clear(x, e)
  <2>1. Clear(x, next.off)
    BY <1>3, <1>13 DEF Clear
  <2>2. \A i \in InvalidPending : Clear(x, pending[i].off) /\ Clear(x, pending[i].end)
    BY <1>5, <1>6, <1>13 DEF Clear, Calls!Beside
  <2> QED
    BY <1>7, <1>8, <2>1, <2>2
<1>14. \A i \in DOMAIN pending : Clear(pending[i], s) /\ Clear(pending[i], e)
  <2> SUFFICES ASSUME NEW i \in DOMAIN pending
               PROVE  Clear(pending[i], s) /\ Clear(pending[i], e)
    OBVIOUS
  <2>1. \A j \in DOMAIN pending : \/ Calls!Beside(pending[i], pending[j])
                                  \/ pending[i] = pending[j]
    <3> SUFFICES ASSUME NEW j \in DOMAIN pending, i # j
                 PROVE  Calls!Beside(pending[i], pending[j])
      OBVIOUS
    <3>1. i < j \/ j < i
      BY <1>3 DEF Ranged
    <3> QED
      BY <3>1 DEF RangesInv, Fits, PendingFits, Calls!Beside
  <2> QED
    BY <1>5, <1>13, <2>1
<1>15. \A i \in DOMAIN events : Clear(events[i], s) /\ Clear(events[i], e)
  BY <1>3, <1>13 DEF Ranged, RangesInv, Fits, EventsFit
<1>16. SkipRanges'
  BY <1>2, <1>3, <1>4, <1>11, <1>12, <1>14, <1>15 DEF SkipRanges, Limit
<1>17. TokenRange' /\ Fits(events', pending', stack', Limit')
  BY <1>2 DEF RangesInv, TokenRange, Limit
<1> QED
  BY <1>16, <1>17 DEF RangesInv

LEMMA SkipTokenRanges ==
  ASSUME TypeOK, TypeOK', RangesInv, SkipToken
  PROVE  RangesInv'
<1>1. /\ pc = "skip" /\ pc' = "skip" /\ next.sym # NoToken /\ next.sym # EOI
      /\ Flush(next.end)
      /\ UNCHANGED << stack, offset >>
  BY DEF SkipToken, SkipStops, lexVars
<1>2. next'.sym = NoToken /\ next'.off = next.off /\ next'.end = next.end
  BY DEF SkipToken, TypeOK, SymbolSet
<1>3. recovery'.s = recovery.s
      /\ recovery'.e = IF next.end > recovery.e THEN next.end ELSE recovery.e
  BY DEF SkipToken, TypeOK
<1>4. /\ Limit = next.off /\ Limit \in Nat /\ next.off \in Nat /\ next.end \in Nat /\ offset \in Nat
      /\ next.off < next.end /\ next.end <= offset
      /\ recovery.s \in Nat /\ recovery.e \in Nat
      /\ Ranged(stack) /\ Ranged(stack') /\ Ranged(pending') /\ Ranged(events')
      /\ Ranged(events) /\ Ranged(pending)
  BY <1>1, RangesOfTypeOK, RangesOfNextTypeOK DEF Limit, RangesInv, TokenRange
<1>5. /\ recovery.s <= recovery.e /\ recovery.e <= Limit /\ Last(stack).end <= recovery.s
      /\ \A i \in DOMAIN pending : Clear(pending[i], recovery.s)
      /\ \A i \in DOMAIN events : Clear(events[i], recovery.s)
  BY <1>1 DEF RangesInv, SkipRanges
<1>6. recovery'.e = next.end
  BY <1>3, <1>4, <1>5
<1>7. /\ Fits(events', pending', stack, Limit) /\ DOMAIN pending' = {}
      /\ \A i \in DOMAIN events' : \/ \E j \in DOMAIN events : events'[i] = events[j]
                                   \/ \E j \in DOMAIN pending : events'[i] = pending[j]
  BY <1>1, <1>4, FlushFits, FlushEmpties DEF RangesInv
<1>8. Limit' = offset /\ Limit <= Limit' /\ Limit' \in Nat
  BY <1>1, <1>2, <1>4 DEF Limit
<1>9. Fits(events', pending', stack', Limit')
  <2>1. Fits(events', pending', stack, Limit')
    <3> HIDE DEF Fits
    <3> QED
      BY <1>4, <1>7, <1>8, FitsFurther
  <2> QED
    BY <1>1, <2>1
<1>10. \A i \in DOMAIN events' : Clear(events'[i], recovery.s) /\ Clear(events'[i], next.end)
  <2> SUFFICES ASSUME NEW i \in DOMAIN events'
               PROVE  Clear(events'[i], recovery.s) /\ Clear(events'[i], next.end)
    OBVIOUS
  <2>1. Clear(events'[i], recovery.s)
    BY <1>5, <1>7
  <2>2. events'[i].end <= next.off /\ events'[i].end \in Nat
    BY <1>4, <1>7 DEF Fits, EventsFit, Ranged
  <2> QED
    BY <1>4, <2>1, <2>2 DEF Clear
<1>11. SkipRanges'
  BY <1>1, <1>3, <1>4, <1>5, <1>6, <1>7, <1>8, <1>10 DEF SkipRanges
<1>12. TokenRange'
  BY <1>1, <1>2, <1>4, SymbolAssumption DEF TokenRange
<1> QED
  BY <1>9, <1>11, <1>12 DEF RangesInv

\* The bounds of `error` cut nothing that was told or is pending, and the
\* range is behind the entry below it and covers what it replaces.
LEMMA ErrorRange ==
  ASSUME TypeOK, RangesInv, pc = "skip", next.sym # NoToken,
         NEW n \in DOMAIN stack, IsMax(n, MatchingPositions),
         NEW e \in ErrorEnds(n), IsMax(e, ErrorEnds(n)), NEW a, a = ErrorStart(n)
  PROVE  /\ a \in Nat /\ e \in Nat /\ a <= e /\ e <= Limit /\ stack[n].end <= a
         /\ \A i \in n + 1 .. Len(stack) : a <= stack[i].off /\ stack[i].end <= e
         /\ recovery.s # recovery.e => a <= recovery.s /\ recovery.e <= e
         /\ \A i \in DOMAIN events : Clear(events[i], a) /\ Clear(events[i], e)
         /\ \A i \in DOMAIN pending : Clear(pending[i], a) /\ Clear(pending[i], e)
<1> DEFINE N == Len(stack)
           s == recovery.s
<1>1. /\ Ranged(stack) /\ Ranged(pending) /\ Ranged(events)
      /\ Limit = next.off /\ Limit \in Nat
      /\ s \in Nat /\ recovery.e \in Nat
      /\ N \in Nat /\ N \in DOMAIN stack /\ Last(stack) = stack[N] /\ n \in 1 .. N
  BY RangesOfTypeOK DEF Limit, Ranged
<1>2. /\ s <= recovery.e /\ recovery.e <= Limit /\ stack[N].end <= s
      /\ \A i \in DOMAIN pending : Clear(pending[i], s) /\ Clear(pending[i], recovery.e)
      /\ \A i \in DOMAIN events : Clear(events[i], s) /\ Clear(events[i], recovery.e)
  BY <1>1 DEF RangesInv, SkipRanges
<1>3. \A i \in DOMAIN stack : /\ stack[i].off \in Nat /\ stack[i].end \in Nat
                              /\ stack[i].off <= stack[i].end
  BY <1>1 DEF Ranged, RangesInv, Fits, StackFits
<1>4. \A i, j \in DOMAIN stack : i <= j => stack[i].off <= stack[j].off /\ stack[i].end <= stack[j].end
  <2> SUFFICES ASSUME NEW i \in DOMAIN stack, NEW j \in DOMAIN stack, i <= j
               PROVE  stack[i].off <= stack[j].off /\ stack[i].end <= stack[j].end
    OBVIOUS
  <2>1. i = j \/ stack[i].end <= stack[j].off
    <3>1. i = j \/ i < j
      BY <1>1 DEF Ranged
    <3> QED
      BY <3>1 DEF RangesInv, Fits, StackFits
  <2> QED
    BY <1>3, <2>1
<1>5. a = IF n < N THEN stack[n + 1].off ELSE s
  BY DEF ErrorStart
<1>6. e = ErrorEnd(n) \/ \E i \in DOMAIN pending : e = pending[i].end
  BY DEF ErrorEnds, InvalidPending
<1>7. ErrorEnd(n) = IF n < N /\ s = recovery.e THEN stack[N].end ELSE recovery.e
  BY <1>1 DEF ErrorEnd
<1>8. ErrorEnd(n) <= e /\ e \in Nat /\ a \in Nat /\ ErrorEnd(n) \in Nat
  BY ErrorType DEF IsMax, ErrorEnds
<1>9. n < N => n + 1 \in DOMAIN stack /\ stack[n + 1].end <= stack[N].end
               /\ stack[n].end <= stack[n + 1].off
  <2> SUFFICES ASSUME n < N
               PROVE  n + 1 \in DOMAIN stack /\ stack[n + 1].end <= stack[N].end
                      /\ stack[n].end <= stack[n + 1].off
    OBVIOUS
  <2>1. n + 1 \in DOMAIN stack /\ n + 1 <= N /\ n < n + 1
    BY <1>1 DEF Ranged
  <2> QED
    BY <1>1, <1>4, <2>1 DEF RangesInv, Fits, StackFits
<1>10. stack[N].end <= ErrorEnd(n) \/ (n = N /\ s <= ErrorEnd(n))
  BY <1>1, <1>2, <1>3, <1>7
<1> HIDE DEF N, s
<1>11. a <= e
  BY <1>1, <1>2, <1>3, <1>5, <1>7, <1>8, <1>9
<1>12. e <= Limit
  <2>1. \A i \in DOMAIN pending : pending[i].end <= Limit
    BY DEF RangesInv, Fits, PendingFits
  <2>2. stack[N].end <= Limit
    BY <1>1 DEF RangesInv, Fits, StackFits
  <2> QED
    BY <1>2, <1>6, <1>7, <2>1, <2>2
<1>13. stack[n].end <= a
  BY <1>1, <1>2, <1>5, <1>9
<1>14. \A i \in n + 1 .. Len(stack) : a <= stack[i].off /\ stack[i].end <= e
  <2> SUFFICES ASSUME NEW i \in n + 1 .. N PROVE a <= stack[i].off /\ stack[i].end <= e
    BY DEF N
  <2>1. n < N /\ i \in DOMAIN stack /\ n + 1 <= i /\ i <= N /\ n + 1 \in DOMAIN stack
    BY <1>1 DEF Ranged, N
  <2>2. stack[n + 1].off <= stack[i].off /\ stack[i].end <= stack[N].end
    BY <1>1, <1>4, <2>1
  <2>3. stack[N].end <= e
    BY <1>1, <1>2, <1>3, <1>7, <1>8, <2>1
  <2> QED
    BY <1>1, <1>3, <1>5, <1>8, <2>1, <2>2, <2>3
<1>15. s # recovery.e => a <= s /\ recovery.e <= e
  BY <1>1, <1>2, <1>3, <1>5, <1>7, <1>8, <1>9
<1>16. ASSUME NEW x, x.off \in Nat, x.end \in Nat, x.off <= x.end,
              Clear(x, s), Clear(x, recovery.e),
              \A i \in DOMAIN stack : Meets(x, stack[i]),
              \A i \in DOMAIN pending : Clear(x, pending[i].end)
       PROVE  Clear(x, a) /\ Clear(x, e)
  <2>1. \A i \in DOMAIN stack : Clear(x, stack[i].off) /\ Clear(x, stack[i].end)
    BY <1>3, <1>16 DEF Meets, Clear, Calls!Beside, Calls!Encloses
  <2> QED
    BY <1>1, <1>5, <1>6, <1>7, <1>9, <1>16, <2>1
<1>17. \A i \in DOMAIN pending : /\ pending[i].off \in Nat /\ pending[i].end \in Nat
                                 /\ pending[i].off < pending[i].end
  BY <1>1 DEF Ranged, RangesInv, Fits, PendingFits
<1>18. \A i \in DOMAIN events : /\ events[i].off \in Nat /\ events[i].end \in Nat
                                /\ events[i].off <= events[i].end
  BY <1>1 DEF Ranged, RangesInv, Fits, EventsFit
<1>19. ASSUME NEW i \in DOMAIN events PROVE Clear(events[i], a) /\ Clear(events[i], e)
  <2>1. \A j \in DOMAIN stack : Meets(events[i], stack[j])
    BY DEF RangesInv, Fits, EventsFit
  <2>2. \A j \in DOMAIN pending : Clear(events[i], pending[j].end)
    <3> SUFFICES ASSUME NEW j \in DOMAIN pending PROVE Clear(events[i], pending[j].end)
      OBVIOUS
    <3>1. Calls!Beside(events[i], pending[j])
      BY DEF RangesInv, Fits, EventsFit
    <3> QED
      BY <1>17, <1>18, <3>1 DEF Clear, Calls!Beside
  <2> QED
    BY <1>2, <1>16, <1>18, <2>1, <2>2
<1>20. ASSUME NEW i \in DOMAIN pending PROVE Clear(pending[i], a) /\ Clear(pending[i], e)
  <2>1. \A j \in DOMAIN stack : Meets(pending[i], stack[j])
    <3> SUFFICES ASSUME NEW j \in DOMAIN stack PROVE Meets(pending[i], stack[j])
      OBVIOUS
    <3>1. Behind(pending[i], stack[j])
      BY DEF RangesInv, Fits, PendingFits
    <3> QED
      BY <1>3, <1>17, <3>1, BehindIsBeside DEF Meets
  <2>2. \A j \in DOMAIN pending : Clear(pending[i], pending[j].end)
    <3> SUFFICES ASSUME NEW j \in DOMAIN pending PROVE Clear(pending[i], pending[j].end)
      OBVIOUS
    <3>1. i = j \/ pending[i].end <= pending[j].off \/ pending[j].end <= pending[i].off
      <4>1. i = j \/ i < j \/ j < i
        BY <1>1 DEF Ranged
      <4> QED
        BY <4>1 DEF RangesInv, Fits, PendingFits
    <3> QED
      BY <1>17, <3>1 DEF Clear
  <2>3. pending[i].off <= pending[i].end
    BY <1>17
  <2> QED
    BY <1>2, <1>16, <1>17, <2>1, <2>2, <2>3
<1> QED
  BY <1>8, <1>11, <1>12, <1>13, <1>14, <1>15, <1>19, <1>20 DEF s

\* What lies behind the new end of `error` stays pending.
LEMMA KeptBehindError ==
  ASSUME TypeOK, RangesInv, pc = "skip", next.sym # NoToken,
         NEW n \in DOMAIN stack, IsMax(n, MatchingPositions),
         NEW e \in ErrorEnds(n), NEW i \in DOMAIN pending, pending[i].end > e
  PROVE  e <= pending[i].off
<1>1. /\ Ranged(stack) /\ Ranged(pending) /\ e \in Nat
      /\ Len(stack) \in DOMAIN stack /\ Last(stack) = stack[Len(stack)]
      /\ \A j \in DOMAIN pending : /\ pending[j].off \in Nat /\ pending[j].end \in Nat
                                   /\ pending[j].off < pending[j].end
      /\ \A j \in DOMAIN stack : stack[j].off \in Nat /\ stack[j].end \in Nat
  BY RangesOfTypeOK, ErrorType DEF Ranged, RangesInv, Fits, PendingFits
<1>2. CASE \E j \in DOMAIN pending : e = pending[j].end
  <2>1. PICK j \in DOMAIN pending : e = pending[j].end
    BY <1>2
  <2>2. i < j \/ j < i
    BY <1>1, <2>1 DEF Ranged
  <2>3. pending[i].end <= pending[j].off \/ pending[j].end <= pending[i].off
    BY <2>2 DEF RangesInv, Fits, PendingFits
  <2> QED
    BY <1>1, <2>1, <2>3
<1>3. CASE e = recovery.e
  <2>1. Clear(pending[i], recovery.e)
    BY DEF RangesInv, SkipRanges
  <2> QED
    BY <1>1, <1>3, <2>1 DEF Clear
<1>4. CASE e = Last(stack).end
  <2>1. Behind(pending[i], stack[Len(stack)])
    BY <1>1 DEF RangesInv, Fits, PendingFits
  <2> QED
    BY <1>1, <1>4, <2>1 DEF Behind
<1>5. e = recovery.e \/ e = Last(stack).end \/ \E j \in DOMAIN pending : e = pending[j].end
  BY DEF ErrorEnds, ErrorEnd, InvalidPending
<1> QED
  BY <1>2, <1>3, <1>4, <1>5

LEMMA RecoverRanges ==
  ASSUME TypeOK, TypeOK', RangesInv, NEW n \in DOMAIN stack, Recover(n)
  PROVE  /\ RangesInv'
         /\ Len(stack') = n + 1
         /\ \A i \in n + 1 .. Len(stack) :
              stack'[n + 1].off <= stack[i].off /\ stack[i].end <= stack'[n + 1].end
         /\ recovery.s # recovery.e =>
              stack'[n + 1].off <= recovery.s /\ recovery.e <= stack'[n + 1].end
<1>1. /\ pc = "skip" /\ next.sym # NoToken /\ IsMax(n, MatchingPositions)
      /\ pc' = "parse" /\ UNCHANGED << next, offset >>
  BY DEF Recover, lexVars
<1>2. PICK e \in ErrorEnds(n) :
        /\ IsMax(e, ErrorEnds(n))
        /\ Flush(e)
        /\ stack' = Append(SubSeq(stack, 1, n),
                           Entry(ErrSym, ErrorStart(n), e, gotoState(stack[n].state, ErrSym)))
  BY DEF Recover
<1> DEFINE a == ErrorStart(n)
           x == stack'[n + 1]
<1>3. /\ a \in Nat /\ e \in Nat /\ a <= e /\ e <= Limit /\ stack[n].end <= a
      /\ \A i \in n + 1 .. Len(stack) : a <= stack[i].off /\ stack[i].end <= e
      /\ recovery.s # recovery.e => a <= recovery.s /\ recovery.e <= e
      /\ \A i \in DOMAIN events : Clear(events[i], a) /\ Clear(events[i], e)
      /\ \A i \in DOMAIN pending : Clear(pending[i], a) /\ Clear(pending[i], e)
  BY <1>1, <1>2, ErrorRange
<1>4. /\ Len(stack') = n + 1 /\ \A i \in 1 .. n : stack'[i] = stack[i]
      /\ x.off = a /\ x.end = e
  <2> DEFINE base == SubSeq(stack, 1, n)
             err  == Entry(ErrSym, a, e, gotoState(stack[n].state, ErrSym))
  <2>1. base \in Seq(EntrySet) /\ Len(base) = n /\ \A i \in 1 .. n : base[i] = stack[i]
    <3>1. stack \in Seq(EntrySet) /\ n \in 1 .. Len(stack) /\ Len(stack) \in Nat
      BY CurType DEF TypeOK
    <3>2. base \in Seq(EntrySet)
      BY <3>1, CurType, SubSeqProperties
    <3> QED
      BY <3>1, <3>2
  <2>2. err.off = a /\ err.end = e
    BY DEF Entry
  <2>3. n \in Nat /\ stack' = Append(base, err)
    BY <1>2, CurType
  <2> HIDE DEF base, err
  <2>4. Len(stack') = n + 1 /\ x = err /\ \A i \in 1 .. n : stack'[i] = base[i]
    BY <2>1, <2>3
  <2> QED
    BY <2>1, <2>2, <2>4
<1>5. /\ Ranged(stack) /\ Ranged(stack') /\ Ranged(pending') /\ Ranged(events')
      /\ Limit \in Nat /\ Limit' = Limit
  BY <1>1, RangesOfTypeOK, RangesOfNextTypeOK DEF Limit
<1>6. /\ Fits(events', pending', stack, Limit)
      /\ \A i \in DOMAIN pending' : \E j \in DOMAIN pending : pending'[i] = pending[j]
      /\ \A i \in DOMAIN events' : \/ \E j \in DOMAIN events : events'[i] = events[j]
                                   \/ \E j \in DOMAIN pending : events'[i] = pending[j]
      /\ \A i \in DOMAIN pending' : pending'[i].end > e
  BY <1>2, <1>3, <1>5, FlushFits DEF RangesInv
<1>7. \A i \in DOMAIN events' : Meets(events'[i], x)
  <2> SUFFICES ASSUME NEW i \in DOMAIN events' PROVE Meets(events'[i], x)
    OBVIOUS
  <2>1. Clear(events'[i], a) /\ Clear(events'[i], e)
    BY <1>3, <1>6
  <2>2. events'[i].off \in Nat /\ events'[i].end \in Nat
    BY <1>5 DEF Ranged
  <2> HIDE DEF x, a
  <2> QED
    BY <1>3, <1>4, <2>1, <2>2 DEF Meets, Clear, Calls!Beside, Calls!Encloses
<1>8. \A i \in DOMAIN pending' : Behind(pending'[i], x)
  <2> SUFFICES ASSUME NEW i \in DOMAIN pending' PROVE Behind(pending'[i], x)
    OBVIOUS
  <2>1. PICK j \in DOMAIN pending : pending'[i] = pending[j]
    BY <1>6
  <2>2. e <= pending[j].off
    BY <1>1, <1>2, <1>6, <2>1, KeptBehindError
  <2> HIDE DEF x, a
  <2> QED
    BY <1>4, <2>1, <2>2 DEF Behind
<1> HIDE DEF x, a
<1>9. Fits(events', pending', stack', Limit)
  <2> DEFINE evs == events'
             pend == pending'
             stk2 == stack'
  <2>1. /\ Len(stk2) = n + 1 /\ x = stk2[n + 1]
        /\ \A i \in 1 .. n : stk2[i] = stack[i]
        /\ Ranged(stk2) /\ Ranged(evs) /\ Ranged(pend) /\ Fits(evs, pend, stack, Limit)
        /\ x.off <= x.end /\ x.end <= Limit /\ stack[n].end <= x.off
        /\ \A i \in DOMAIN evs : Meets(evs[i], x)
        /\ \A i \in DOMAIN pend : Behind(pend[i], x)
    BY <1>3, <1>4, <1>5, <1>6, <1>7, <1>8 DEF x
  <2> HIDE DEF evs, pend, stk2, Fits
  <2>2. Fits(evs, pend, stk2, Limit)
    BY <1>5, <2>1, PushFits
  <2> QED
    BY <2>2 DEF evs, pend, stk2
<1>10. TokenRange' /\ SkipRanges'
  BY <1>1 DEF RangesInv, TokenRange, SkipRanges
<1> QED
  BY <1>3, <1>4, <1>5, <1>9, <1>10 DEF RangesInv, x

LEMMA RecoveryRanges ==
  ASSUME TypeOK, TypeOK', RangesInv, StackBeforeInvalid, recoverFromError
  PROVE  RangesInv'
<1>1. CASE NoRecoveryPoint
  <2>1. /\ UNCHANGED << next, stack, offset >> /\ pc' # "skip" /\ Flush(next.end)
    BY <1>1 DEF NoRecoveryPoint, lexVars
  <2> QED
    BY <2>1, FlushRanges
<1>2. CASE StartRecovery
  BY <1>2, StartRecoveryRanges
<1>3. CASE SkipToken
  BY <1>3, SkipTokenRanges
<1>4. CASE \E n \in DOMAIN stack : Recover(n)
  BY <1>4, RecoverRanges
<1>5. CASE DropSymbol
  <2>1. /\ UNCHANGED << next, stack, offset, pending, events, pc >>
        /\ recovery'.s = recovery.s /\ recovery'.e = recovery.e
    BY <1>5 DEF DropSymbol, lexVars, TypeOK
  <2> QED
    BY <2>1 DEF RangesInv, TokenRange, SkipRanges, Limit
<1>6. CASE GiveUp
  <2>1. /\ UNCHANGED << next, stack, offset >> /\ pc' # "skip" /\ Flush(next.end)
    BY <1>6 DEF GiveUp, lexVars
  <2> QED
    BY <2>1, FlushRanges
<1> QED
  BY <1>1, <1>2, <1>3, <1>4, <1>5, <1>6 DEF recoverFromError

LEMMA NextRanges ==
  TypeOK /\ TypeOK' /\ RangesInv /\ StackBeforeInvalid /\ [Next]_vars => RangesInv'
<1> SUFFICES ASSUME TypeOK, TypeOK', RangesInv, StackBeforeInvalid, [Next]_vars
             PROVE  RangesInv'
  OBVIOUS
<1>1. CASE Lex
  BY <1>1, LexIgnoredRanges, LexTokenRanges DEF Lex
<1>2. CASE Parse
  BY <1>2, LoopRanges
<1>3. CASE Accept
  BY <1>3 DEF Accept, lexVars, RangesInv, TokenRange, SkipRanges, Limit
<1>4. CASE recoverFromError
  BY <1>4, RecoveryRanges
<1>5. CASE Finished \/ UNCHANGED vars
  BY <1>5 DEF Finished, vars, RangesInv, TokenRange, SkipRanges, Limit
<1> QED
  BY <1>1, <1>2, <1>3, <1>4, <1>5 DEF Next

LEMMA RangesInvariant == Spec /\ []StackBeforeInvalid => []RangesInv
BY InitRanges, NextRanges, TypeCorrect, PTL DEF Spec

\* The ranges on the stack follow one another, as long as recoveries begin
\* with the stack in front of the invalid tokens they are to cover.
THEOREM RangesOrdered == Spec /\ []StackBeforeInvalid => []StackRangesOrdered
<1>1. TypeOK /\ RangesInv => StackRangesOrdered
  <2> SUFFICES ASSUME TypeOK, RangesInv PROVE StackRangesOrdered
    OBVIOUS
  <2>1. /\ Len(stack) \in DOMAIN stack /\ Last(stack) = stack[Len(stack)]
        /\ \A i \in DOMAIN stack : stack[i].off <= stack[i].end /\ stack[i].end <= Limit
        /\ \A i, j \in DOMAIN stack : i < j => stack[i].end <= stack[j].off
    BY RangesOfTypeOK DEF Ranged, RangesInv, Fits, StackFits
  <2>2. next.sym # NoToken => Limit = next.off
    BY DEF Limit
  <2> QED
    BY <2>1, <2>2 DEF StackRangesOrdered
<1> QED
  BY <1>1, RangesInvariant, TypeCorrect, PTL

\* Under the same condition `error` covers what it stands for.
THEOREM ErrorCovers == Spec /\ []StackBeforeInvalid => ErrorCoversBrokenCode
<1>1. ASSUME TypeOK, TypeOK', RangesInv, [Next]_vars, NEW n \in DOMAIN stack, Recover(n)
      PROVE  LET err == Last(stack')
             IN  /\ \A i \in n + 1 .. Len(stack) :
                      err.off <= stack[i].off /\ stack[i].end <= err.end
                 /\ recovery.s # recovery.e =>
                      err.off <= recovery.s /\ recovery.e <= err.end
  <2>1. Last(stack') = stack'[n + 1]
    BY <1>1, RecoverRanges DEF Last
  <2> QED
    BY <1>1, <2>1, RecoverRanges
<1>2. TypeOK /\ TypeOK' /\ RangesInv /\ [Next]_vars =>
        [ \A n \in DOMAIN stack :
            Recover(n) =>
              LET err == Last(stack')
              IN  /\ \A i \in n + 1 .. Len(stack) :
                       err.off <= stack[i].off /\ stack[i].end <= err.end
                  /\ recovery.s # recovery.e =>
                       err.off <= recovery.s /\ recovery.e <= err.end ]_vars
  BY <1>1
<1> QED
  BY <1>2, RangesInvariant, TypeCorrect, PTL DEF Spec, ErrorCoversBrokenCode

\* A step makes no call, or adds some to those made.
LEMMA CallsAreAdded ==
  ASSUME TypeOK, TypeOK', [Next]_vars
  PROVE  \/ events' = events
         \/ Len(events') > Len(events) /\ SubSeq(events', 1, Len(events)) = events
<1> DEFINE Added == \/ events' = events
                    \/ Len(events') > Len(events) /\ SubSeq(events', 1, Len(events)) = events
<1>1. events \in Seq(EventSet) /\ events' \in Seq(EventSet)
  BY DEF TypeOK, EventSet
<1>2. ASSUME NEW more \in Seq(EventSet), events' = events \o more
      PROVE  Added
  <2>1. CASE Len(more) = 0
    <3>1. more = <<>>
      BY <2>1, EmptySeq
    <3> QED
      BY <1>1, <1>2, <3>1, ConcatEmptySeq
  <2>2. CASE Len(more) # 0
    <3>1. Len(events') = Len(events) + Len(more) /\ Len(more) \in Nat /\ Len(events) \in Nat
      BY <1>1, <1>2, ConcatProperties, LenProperties
    <3>2. SubSeq(events \o more, 1, Len(events)) = events
      BY <1>1
    <3>3. Len(events') > Len(events)
      BY <2>2, <3>1
    <3>4. SubSeq(events', 1, Len(events)) = events
      BY <1>2, <3>2
    <3> QED
      BY <3>3, <3>4
  <2> QED
    BY <2>1, <2>2
<1>3. ASSUME NEW end, Flush(end) PROVE Added
  <2>1. PICK n \in 0 .. Len(pending) : events' = events \o SubSeq(pending, 1, n)
    BY <1>3 DEF Flush
  <2>2. SubSeq(pending, 1, n) \in Seq(EventSet)
    <3>1. SubSeq(pending, 1, n) \in Seq(SymbolSet)
      <4>1. pending \in Seq(SymbolSet) /\ Len(pending) \in Nat
        BY LenProperties DEF TypeOK
      <4> QED
        BY <4>1, LenProperties, SubSeqProperties
    <3>2. SymbolSet \subseteq EventSet
      BY DEF SymbolSet, EventSet
    <3> QED
      BY <3>1, <3>2, SeqMonotonic
  <2> QED
    BY <1>2, <2>1, <2>2
<1>4. ASSUME NEW r \in Rule, InLoop, ReduceBy(r) PROVE Added
  <2> DEFINE x == stack'[Len(stack) - RuleLen[r] + 1]
  <2>1. /\ x.off \in Nat /\ x.end \in Nat
        /\ events' = events \o RuleEvents(r, Rhs(r), x.off, x.end)
    BY <1>4, ReducedRanges
  <2>2. Len(stack) > RuleLen[r]
    BY <1>4 DEF ReduceBy
  <2> HIDE DEF x
  <2>3. RuleEvents(r, Rhs(r), x.off, x.end) \in Seq(EventSet)
    BY <2>1, <2>2, RuleEventsType
  <2> QED
    BY <1>2, <2>1, <2>3
<1>5. \/ events' = events
      \/ \E end : Flush(end)
      \/ InLoop /\ \E r \in Rule : ReduceBy(r)
  BY DEF Next, Lex, LexIgnored, LexToken, Parse, ShiftTo, Cancel, ReportError, RepeatedError,
         Accept, recoverFromError, NoRecoveryPoint, StartRecovery, SkipToken, Recover,
         DropSymbol, GiveUp, Finished, vars
<1> QED
  BY <1>3, <1>4, <1>5

\* Under the same condition the parser is a Listener's caller: its calls come
\* in post-order.
THEOREM PostOrderReports == Spec /\ []StackBeforeInvalid => ReportsInPostOrder
<1>1. Init => Calls!Init
  BY DEF Init, Calls!Init
<1>2. ASSUME TypeOK, TypeOK', RangesInv', [Next]_vars
      PROVE  [Calls!Report]_events
  <2>1. Calls!PostOrder(events')
    <3>1. Ranged(events')
      BY <1>2, RangesOfNextTypeOK
    <3>2. \A i \in DOMAIN events' : Calls!IsRange(events'[i])
      BY <1>2, <3>1 DEF Ranged, RangesInv, Fits, EventsFit, Calls!IsRange
    <3>3. \A i, j \in DOMAIN events' : i < j => Meets(events'[i], events'[j])
      BY <1>2 DEF RangesInv, Fits, EventsFit
    <3> QED
      BY <3>2, <3>3 DEF Calls!PostOrder, Meets
  <2> QED
    BY <1>2, <2>1, CallsAreAdded DEF Calls!Report
<1> QED
  BY <1>1, <1>2, RangesInvariant, TypeCorrect, PTL DEF Spec, ReportsInPostOrder, Calls!Spec

\* No invalid token is put aside by a grammar whose listener is not told of
\* them: there the condition always holds, and the three properties with it.
THEOREM RangesWithoutInvalidTokens ==
  ASSUME Invalid = {}
  PROVE  Spec => []StackRangesOrdered /\ ErrorCoversBrokenCode /\ ReportsInPostOrder
<1>1. StackBeforeInvalid
  BY DEF StackBeforeInvalid, InvalidPending
<1> QED
  BY <1>1, RangesOrdered, ErrorCovers, PostOrderReports, PTL

-----------------------------------------------------------------------------
(***************************************************************************)
(* The nodes reported so far are those of the symbols on the stack.        *)
(***************************************************************************)
\* Some entry of the stack covers x.
OnStack(x, stk) ==
  \E j \in 2 .. Len(stk) : stk[j].off <= x.off /\ x.end <= stk[j].end

IsNodeCall(x) == x.sym \in NodeType /\ x.off # x.end

NodesOnStack ==
  \A i \in DOMAIN events : IsNodeCall(events[i]) => OnStack(events[i], stack)

\* No token is taken for a node.
LEMMA FlushedAreNoNodes ==
  ASSUME TypeOK, NEW end, Flush(end), NEW i \in DOMAIN events', IsNodeCall(events'[i])
  PROVE  \E j \in DOMAIN events : events'[i] = events[j]
<1>1. PICK n \in 0 .. Len(pending) :
        /\ n \in Nat
        /\ Len(events') = Len(events) + n
        /\ \A k \in 1 .. Len(events) : events'[k] = events[k]
        /\ \A k \in 1 .. n : events'[Len(events) + k] = pending[k]
  BY FlushParts
<1>2. /\ Ranged(pending) /\ Ranged(events) /\ Ranged(events')
      /\ \A k \in DOMAIN pending : pending[k] \in SymbolSet
  <2>1. pending \in Seq(SymbolSet) /\ Ranged(pending)
    BY RangesOfTypeOK DEF TypeOK
  <2>2. \A k \in DOMAIN pending : pending[k] \in SymbolSet
    BY <2>1, ElementOfSeq DEF Ranged
  <2> QED
    BY <2>2, RangesOfTypeOK, FlushParts
<1>3. \A k \in DOMAIN pending : pending[k].sym \notin NodeType
  BY <1>2, SymbolAssumption DEF SymbolSet
<1>4. CASE i <= Len(events)
  BY <1>1, <1>2, <1>4 DEF Ranged
<1>5. CASE i > Len(events)
  <2>1. i - Len(events) \in 1 .. n /\ Len(events) + (i - Len(events)) = i
    BY <1>1, <1>2, <1>5 DEF Ranged
  <2>2. i - Len(events) \in DOMAIN pending
    BY <1>1, <1>2, <2>1 DEF Ranged
  <2>3. events'[i] = pending[i - Len(events)]
    BY <1>1, <2>1
  <2> QED
    BY <1>3, <2>2, <2>3 DEF IsNodeCall
<1> QED
  BY <1>2, <1>4, <1>5 DEF Ranged

\* A non-empty part of a range of neighbours is inside the whole range.
LEMMA SpanCovers ==
  ASSUME NEW stk, NEW lim \in Nat, Ranged(stk), StackFits(stk, lim),
         NEW from \in DOMAIN stk, NEW to \in DOMAIN stk, NEW x, IsSpan(x, stk, from, to),
         NEW i \in from .. to, stk[i].off # stk[i].end
  PROVE  x.off <= stk[i].off /\ stk[i].end <= x.end
<1>1. PICK l \in from .. to :
        /\ x.off = stk[from].off /\ x.end = stk[l].end
        /\ \A m \in from .. to : stk[m].off # stk[m].end => m <= l
  BY DEF IsSpan
<1>2. /\ from \in Nat /\ to \in Nat /\ i \in Nat /\ l \in Nat
      /\ from <= i /\ i <= l /\ i \in DOMAIN stk /\ l \in DOMAIN stk
  BY <1>1 DEF Ranged
<1>3. /\ stk[i].off \in Nat /\ stk[i].end \in Nat /\ stk[l].off \in Nat /\ stk[l].end \in Nat
      /\ stk[from].off \in Nat /\ stk[from].end \in Nat
  BY <1>2 DEF Ranged
<1>4. /\ stk[i].off <= stk[i].end /\ stk[l].off <= stk[l].end /\ stk[from].off <= stk[from].end
      /\ from = i \/ stk[from].end <= stk[i].off
      /\ l = i \/ stk[i].end <= stk[l].off
  BY <1>2 DEF StackFits
<1> QED
  BY <1>1, <1>3, <1>4

\* Everything on the stack above the k lowest entries is covered by the new
\* entry, if not empty; then so is each node that these entries covered.
LEMMA CoveredByNew ==
  ASSUME NEW stk, NEW new, Ranged(stk), Ranged(new),
         NEW k \in 1 .. Len(stk), Len(new) = k + 1,
         \A i \in 1 .. k : new[i] = stk[i],
         \A i \in k + 1 .. Len(stk) :
           stk[i].off # stk[i].end =>
             new[k + 1].off <= stk[i].off /\ stk[i].end <= new[k + 1].end,
         NEW x, x.off \in Nat, x.end \in Nat, x.off < x.end, OnStack(x, stk)
  PROVE  OnStack(x, new)
<1>1. PICK j \in 2 .. Len(stk) : stk[j].off <= x.off /\ x.end <= stk[j].end
  BY DEF OnStack
<1>2. k \in Nat /\ Len(stk) \in Nat /\ j \in Nat /\ j \in DOMAIN stk
  BY DEF Ranged
<1>3. stk[j].off \in Nat /\ stk[j].end \in Nat
  BY <1>2 DEF Ranged
<1>4. CASE j <= k
  <2>1. j \in 2 .. Len(new) /\ new[j] = stk[j]
    BY <1>2, <1>4
  <2> QED
    BY <1>1, <2>1 DEF OnStack
<1>5. CASE j > k
  <2>1. j \in k + 1 .. Len(stk) /\ stk[j].off # stk[j].end
    BY <1>1, <1>2, <1>3, <1>5
  <2>2. k + 1 \in 2 .. Len(new) /\ k + 1 \in DOMAIN new
    BY <1>2 DEF Ranged
  <2>3. new[k + 1].off <= stk[j].off /\ stk[j].end <= new[k + 1].end
    BY <2>1
  <2>4. new[k + 1].off \in Nat /\ new[k + 1].end \in Nat
    BY <2>2 DEF Ranged
  <2>5. new[k + 1].off <= x.off /\ x.end <= new[k + 1].end
    BY <1>1, <1>3, <2>3, <2>4
  <2> QED
    BY <2>2, <2>5 DEF OnStack
<1> QED
  BY <1>2, <1>4, <1>5

LEMMA ReduceByCovers ==
  ASSUME TypeOK, TypeOK', RangesInv, NodesOnStack, InLoop, NEW r \in Rule, ReduceBy(r)
  PROVE  NodesOnStack'
<1> DEFINE k == Len(stack) - RuleLen[r]
           x == stack'[k + 1]
           more == RuleEvents(r, Rhs(r), x.off, x.end)
           sub == RuleReports[r]
<1>1. /\ k \in 1 .. Len(stack) /\ Len(stack') = k + 1
      /\ \A i \in 1 .. k : stack'[i] = stack[i]
      /\ x.off \in Nat /\ x.end \in Nat
      /\ events' = events \o more
      /\ \/ /\ next.sym # NoToken /\ x.off = next.off /\ x.end = next.off
            /\ \A i \in k + 1 .. Len(stack) : stack[i].off = stack[i].end
         \/ RuleLen[r] > 0 /\ IsSpan(x, stack, k + 1, k + RuleLen[r])
  BY ReducedRanges
<1>2. /\ Len(stack) > RuleLen[r] /\ RuleLen[r] \in Nat /\ Len(stack) \in Nat
      /\ Ranged(stack) /\ Ranged(stack') /\ Ranged(events) /\ Ranged(events') /\ Limit \in Nat
      /\ StackFits(stack, Limit)
  BY CurType, TableAssumption, RangesOfTypeOK, RangesOfNextTypeOK DEF ReduceBy, RangesInv, Fits
<1>3. /\ Ranged(more)
      /\ \A i \in DOMAIN more :
           \/ /\ i \in DOMAIN sub /\ i <= Len(sub)
              /\ sub[i].from \in 1 .. sub[i].to /\ sub[i].to \in 1 .. RuleLen[r]
              /\ IsSpan(more[i], stack, k + sub[i].from, k + sub[i].to)
           \/ i = Len(sub) + 1 /\ more[i].off = x.off /\ more[i].end = x.end
  <2>1. x.off \in Nat /\ x.end \in Nat /\ Len(stack) > RuleLen[r]
    BY <1>1, <1>2
  <2> HIDE DEF x
  <2> QED
    BY <2>1, RuleEventsParts
<1>4. k + RuleLen[r] = Len(stack)
  BY <1>2
<1> HIDE DEF k, x, more, sub
<1>8. k \in Nat /\ DOMAIN stack = 1 .. Len(stack)
  BY <1>1, <1>2 DEF Ranged
<1>5. ASSUME NEW i \in k + 1 .. Len(stack), stack[i].off # stack[i].end
      PROVE  x.off <= stack[i].off /\ stack[i].end <= x.end
  <2>1. RuleLen[r] > 0 /\ IsSpan(x, stack, k + 1, k + RuleLen[r])
    BY <1>1, <1>5
  <2>2. k + 1 \in DOMAIN stack /\ k + RuleLen[r] \in DOMAIN stack /\ i \in k + 1 .. k + RuleLen[r]
    BY <1>2, <1>4, <1>8, <2>1
  <2> QED
    BY <1>2, <1>5, <2>1, <2>2, SpanCovers
<1>6. ASSUME NEW i \in DOMAIN more, more[i].off # more[i].end
      PROVE  x.off <= more[i].off /\ more[i].end <= x.end
  <2>1. CASE i = Len(sub) + 1 /\ more[i].off = x.off /\ more[i].end = x.end
    BY <1>1, <2>1
  <2>2. CASE /\ sub[i].from \in 1 .. sub[i].to /\ sub[i].to \in 1 .. RuleLen[r]
             /\ IsSpan(more[i], stack, k + sub[i].from, k + sub[i].to)
    <3> DEFINE f == k + sub[i].from
               t == k + sub[i].to
    <3>1. f \in k + 1 .. Len(stack) /\ t \in k + 1 .. Len(stack) /\ f <= t /\ f \in Nat /\ t \in Nat
      <4>1. /\ sub[i].from \in Nat /\ sub[i].to \in Nat /\ sub[i].from <= sub[i].to
            /\ 1 <= sub[i].from /\ sub[i].to <= RuleLen[r]
        BY <1>2, <2>2
      <4> QED
        <5>1. k \in Nat /\ RuleLen[r] \in Nat /\ k + RuleLen[r] = Len(stack)
          BY <1>2, <1>4, <1>8
        <5>2. \A a, b \in Nat : a <= b /\ 1 <= a /\ b <= RuleLen[r] =>
                /\ k + a \in k + 1 .. k + RuleLen[r] /\ k + b \in k + 1 .. k + RuleLen[r]
                /\ k + a <= k + b /\ k + a \in Nat /\ k + b \in Nat
          BY <5>1
        <5> QED
          BY <4>1, <5>1, <5>2
    <3> HIDE DEF f, t
    <3>2. PICK l \in f .. t :
            /\ more[i].off = stack[f].off /\ more[i].end = stack[l].end
            /\ l = f \/ stack[l].off # stack[l].end
      BY <2>2 DEF IsSpan, f, t
    <3>3. l \in k + 1 .. Len(stack) /\ f \in DOMAIN stack /\ l \in DOMAIN stack /\ f <= l
      BY <1>8, <3>1, <3>2
    <3>4. stack[l].off # stack[l].end
      BY <1>6, <3>2
    <3>5. x.off <= stack[l].off /\ stack[l].end <= x.end
      BY <1>5, <3>3, <3>4
    <3>6. RuleLen[r] > 0 /\ IsSpan(x, stack, k + 1, k + RuleLen[r])
      BY <1>1, <3>3, <3>4
    <3>7. x.off = stack[k + 1].off /\ k + 1 \in DOMAIN stack /\ k + 1 <= f
      BY <1>2, <1>8, <3>1, <3>6 DEF IsSpan
    <3>8. /\ stack[f].off \in Nat /\ stack[k + 1].off \in Nat /\ stack[k + 1].end \in Nat
          /\ stack[k + 1].off <= stack[k + 1].end
          /\ k + 1 = f \/ stack[k + 1].end <= stack[f].off
      <4>1. /\ stack[f].off \in Nat /\ stack[k + 1].off \in Nat /\ stack[k + 1].end \in Nat
            /\ stack[k + 1].off <= stack[k + 1].end
        BY <1>2, <3>3, <3>7 DEF Ranged, StackFits
      <4>2. CASE k + 1 < f
        BY <1>2, <3>3, <3>7, <4>1, <4>2 DEF StackFits
      <4>3. k + 1 = f \/ k + 1 < f
        BY <1>8, <3>1, <3>7
      <4> QED
        BY <4>1, <4>2, <4>3
    <3> QED
      BY <3>2, <3>5, <3>7, <3>8
  <2> QED
    BY <1>3, <2>1, <2>2
<1>7. ASSUME NEW i \in DOMAIN events', IsNodeCall(events'[i])
      PROVE  OnStack(events'[i], stack')
  <2>1. \/ i \in DOMAIN events /\ events'[i] = events[i]
        \/ \E j \in DOMAIN more : events'[i] = more[j]
    <3>1. events' = events \o more /\ Len(events) \in Nat /\ Len(more) \in Nat
          /\ DOMAIN events = 1 .. Len(events) /\ DOMAIN more = 1 .. Len(more)
      BY <1>1, <1>2, <1>3 DEF Ranged
    <3>2. /\ i \in 1 .. Len(events) + Len(more)
          /\ events'[i] = IF i <= Len(events) THEN events[i] ELSE more[i - Len(events)]
      BY <3>1
    <3>3. CASE i > Len(events)
      <4>1. i - Len(events) \in DOMAIN more
        BY <3>1, <3>2, <3>3
      <4> QED
        BY <3>1, <3>2, <3>3, <4>1
    <3> QED
      BY <3>1, <3>2, <3>3
  <2>2. CASE i \in DOMAIN events /\ events'[i] = events[i]
    <3>1. /\ OnStack(events[i], stack) /\ events[i].off \in Nat /\ events[i].end \in Nat
          /\ events[i].off < events[i].end
      BY <1>2, <1>7, <2>2 DEF NodesOnStack, RangesInv, Fits, EventsFit, Ranged, IsNodeCall
    <3> QED
      BY <1>1, <1>2, <1>5, <2>2, <3>1, CoveredByNew DEF x
  <2>3. CASE \E j \in DOMAIN more : events'[i] = more[j]
    <3>1. x.off <= events'[i].off /\ events'[i].end <= x.end
      BY <1>6, <1>7, <2>3 DEF IsNodeCall
    <3>2. k + 1 \in 2 .. Len(stack')
      BY <1>1, <1>8
    <3> QED
      BY <3>1, <3>2 DEF OnStack, x
  <2> QED
    BY <2>1, <2>2, <2>3
<1> QED
  BY <1>7 DEF NodesOnStack

\* A node that is on the stack stays there when an entry is added.
LEMMA GrowsOnly ==
  ASSUME NEW stk, NEW new, Len(stk) \in Nat, Len(new) = Len(stk) + 1,
         \A i \in 1 .. Len(stk) : new[i] = stk[i], NEW x, OnStack(x, stk)
  PROVE  OnStack(x, new)
BY DEF OnStack

LEMMA RecoverCovers ==
  ASSUME TypeOK, TypeOK', RangesInv, NodesOnStack, NEW n \in DOMAIN stack, Recover(n)
  PROVE  NodesOnStack'
<1>1. PICK e : /\ Flush(e)
               /\ stack' = Append(SubSeq(stack, 1, n),
                                  Entry(ErrSym, ErrorStart(n), e,
                                        gotoState(stack[n].state, ErrSym)))
  BY DEF Recover
<1>2. /\ Len(stack') = n + 1
      /\ \A i \in n + 1 .. Len(stack) :
           stack'[n + 1].off <= stack[i].off /\ stack[i].end <= stack'[n + 1].end
  BY RecoverRanges
<1>3. /\ Ranged(stack) /\ Ranged(stack') /\ Ranged(events) /\ n \in 1 .. Len(stack)
      /\ Len(stack) \in Nat /\ n \in Nat
  BY RangesOfTypeOK, RangesOfNextTypeOK DEF Ranged
<1>4. \A i \in 1 .. n : stack'[i] = stack[i]
  <2>1. stack \in Seq(EntrySet)
    BY DEF TypeOK
  <2>2. /\ SubSeq(stack, 1, n) \in Seq(EntrySet) /\ Len(SubSeq(stack, 1, n)) = n
        /\ \A i \in 1 .. n : SubSeq(stack, 1, n)[i] = stack[i]
    BY <1>3, <2>1, SubSeqProperties
  <2> QED
    BY <1>1, <1>3, <2>2, AppendProperties
<1>5. ASSUME NEW i \in DOMAIN events', IsNodeCall(events'[i])
      PROVE  OnStack(events'[i], stack')
  <2>1. PICK j \in DOMAIN events : events'[i] = events[j]
    BY <1>1, <1>5, FlushedAreNoNodes
  <2>2. /\ OnStack(events[j], stack) /\ events[j].off \in Nat /\ events[j].end \in Nat
        /\ events[j].off < events[j].end
    BY <1>3, <1>5, <2>1 DEF NodesOnStack, RangesInv, Fits, EventsFit, Ranged, IsNodeCall
  <2> QED
    BY <1>2, <1>3, <1>4, <2>1, <2>2, CoveredByNew
<1> QED
  BY <1>5 DEF NodesOnStack

LEMMA FlushCovers ==
  ASSUME TypeOK, NodesOnStack, NEW end, Flush(end),
         \A x : OnStack(x, stack) => OnStack(x, stack')
  PROVE  NodesOnStack'
BY FlushedAreNoNodes DEF NodesOnStack

LEMMA NextCovers ==
  TypeOK /\ TypeOK' /\ RangesInv /\ NodesOnStack /\ [Next]_vars => NodesOnStack'
<1> SUFFICES ASSUME TypeOK, TypeOK', RangesInv, NodesOnStack, [Next]_vars
             PROVE  NodesOnStack'
  OBVIOUS
<1>1. ASSUME NEW end, Flush(end), UNCHANGED stack PROVE NodesOnStack'
  BY <1>1, FlushCovers
<1>2. ASSUME UNCHANGED << events, stack >> PROVE NodesOnStack'
  BY <1>2 DEF NodesOnStack
<1>3. ASSUME NEW q \in State, ShiftTo(q) PROVE NodesOnStack'
  <2>1. stack' = Append(stack, Entry(next.sym, next.off, next.end, q)) /\ Flush(next.end)
    BY <1>3 DEF ShiftTo
  <2>2. stack \in Seq(EntrySet) /\ Len(stack) \in Nat
    BY CurType DEF TypeOK
  <2>3. Len(stack') = Len(stack) + 1 /\ \A i \in 1 .. Len(stack) : stack'[i] = stack[i]
    BY <2>1, <2>2, AppendProperties
  <2>4. \A x : OnStack(x, stack) => OnStack(x, stack')
    BY <2>2, <2>3, GrowsOnly
  <2> QED
    BY <2>1, <2>4, FlushCovers
<1>4. CASE Lex
  BY <1>2, <1>4 DEF Lex, LexIgnored, LexToken
<1>5. CASE Parse
  <2>1. ASSUME Cancel \/ RepeatedError PROVE NodesOnStack'
    BY <1>2, <2>1 DEF Cancel, RepeatedError
  <2>2. ASSUME NEW goOn \in BOOLEAN, ReportError(goOn) PROVE NodesOnStack'
    BY <1>1, <1>2, <2>2 DEF ReportError
  <2> QED
    BY <1>3, <1>5, <2>1, <2>2, ReduceByCovers DEF Parse
<1>6. CASE recoverFromError
  <2>1. ASSUME NoRecoveryPoint \/ SkipToken \/ GiveUp PROVE NodesOnStack'
    BY <1>1, <2>1 DEF NoRecoveryPoint, SkipToken, GiveUp
  <2>2. ASSUME StartRecovery \/ DropSymbol PROVE NodesOnStack'
    BY <1>2, <2>2 DEF StartRecovery, DropSymbol
  <2> QED
    BY <1>6, <2>1, <2>2, RecoverCovers DEF recoverFromError
<1>7. CASE Accept \/ Finished \/ UNCHANGED vars
  BY <1>2, <1>7 DEF Accept, Finished, vars
<1> QED
  BY <1>4, <1>5, <1>6, <1>7 DEF Next

LEMMA NodesStayOnStack == Spec /\ []StackBeforeInvalid => []NodesOnStack
<1>1. Init => NodesOnStack
  BY DEF Init, NodesOnStack
<1> QED
  BY <1>1, NextCovers, RangesInvariant, TypeCorrect, PTL DEF Spec

-----------------------------------------------------------------------------
(***************************************************************************)
(* The stack is a path of the automaton.  Along it the dot of every item   *)
(* of the state on top can be followed back, so a reduction finds its      *)
(* right-hand side on the stack and the goto in the state below it.        *)
(***************************************************************************)
\* What the tables answer belongs to the automaton.
LEMMA ActionIsOfAutomaton ==
  ASSUME NEW q \in State, NEW t
  PROVE  /\ Lookup(q, t).op = "shift" => << q, t, Lookup(q, t).to >> \in Transitions
         /\ Lookup(q, t).op = "reduce" =>
              /\ Lookup(q, t).rule \in Rule
              /\ << Lookup(q, t).rule, RuleLen[Lookup(q, t).rule] >> \in Items[q]
<1>1. CASE t \in DOMAIN ActRow[q]
  <2>1. ActRow[q][t] \in TableAction /\ Lookup(q, t) = ActRow[q][t]
    BY <1>1, TableAssumption DEF Lookup
  <2>2. ActRow[q][t].op = "reduce" => ActRow[q][t].rule \in Rule
    BY <2>1 DEF TableAction, Shift, Reduce, Error
  <2> QED
    BY <1>1, <2>1, <2>2, AutomatonAssumption
<1>2. CASE t \notin DOMAIN ActRow[q]
  <2>1. Lookup(q, t) = DefAct[q]
    BY <1>2 DEF Lookup
  <2>2. /\ DefAct[q].op # "shift"
        /\ DefAct[q].op = "reduce" => DefAct[q].rule \in Rule
    BY TableAssumption DEF Reduce, Error
  <2> QED
    BY <2>1, <2>2, AutomatonAssumption
<1> QED
  BY <1>1, <1>2

LEMMA gotoStateOfAutomaton ==
  ASSUME NEW q \in State, NEW t, gotoState(q, t) # NoState
  PROVE  << q, t, gotoState(q, t) >> \in Transitions
BY ActionIsOfAutomaton DEF gotoState

LEMMA gotoNTOfAutomaton ==
  ASSUME NEW q \in State, NEW r \in Rule, << r, 0 >> \in Items[q]
  PROVE  << q, RuleSymbol[r], gotoNT(q, RuleSymbol[r]) >> \in Transitions
<1>1. PICK to \in State : << q, RuleSymbol[r], to >> \in Transitions
  BY AutomatonAssumption
<1>2. RuleSymbol[r] \in Nonterminals
  BY TableAssumption
<1>3. to = gotoNT(q, RuleSymbol[r])
  BY <1>1, <1>2, AutomatonAssumption DEF gotoNT
<1> QED
  BY <1>1, <1>3

\* StackIsPath, of any stack.
IsPath(s) ==
  /\ s[1].state = input.start
  /\ \A i \in 1 .. Len(s) - 1 : << s[i].state, s[i + 1].sym, s[i + 1].state >> \in Transitions

\* An item of the state on top, followed back along the path to its beginning.
LEMMA ItemGoesBack ==
  ASSUME input \in Inputs, NEW s, IsPath(s), Len(s) \in Nat \ {0},
         NEW r \in Rule, NEW k \in Nat, << r, k >> \in Items[s[Len(s)].state]
  PROVE  k < Len(s) /\ << r, 0 >> \in Items[s[Len(s) - k].state]
<1> DEFINE Back(j) == j < Len(s) /\ << r, k - j >> \in Items[s[Len(s) - j].state]
           lost == { j \in 0 .. k : ~ Back(j) }
<1>1. Len(s) \in Nat \ {0}
  OBVIOUS
<1>2. Back(0)
  BY <1>1
<1>3. ASSUME NEW j \in 1 .. k, Back(j - 1)
      PROVE  Back(j)
  <2>1. << r, k - (j - 1) >> \in Items[s[Len(s) - (j - 1)].state] /\ k - (j - 1) > 0
    BY <1>3
  <2>2. j < Len(s)
    <3> SUFFICES ASSUME j = Len(s) PROVE FALSE
      BY <1>1, <1>3
    <3>1. Len(s) - (j - 1) = 1 /\ s[1].state = input.start
      BY <1>1 DEF IsPath
    <3>2. << r, k - (j - 1) >> \in Items[input.start]
      BY <2>1, <3>1
    <3> QED
      BY <2>1, <3>1, <3>2, AutomatonAssumption
  <2> DEFINE i == Len(s) - j
             x == << s[i].state, s[i + 1].sym, s[i + 1].state >>
  <2>3. i \in 1 .. Len(s) - 1 /\ i + 1 = Len(s) - (j - 1) /\ k - (j - 1) - 1 = k - j
    BY <1>1, <2>2
  <2>4. x \in Transitions
    BY <2>3 DEF IsPath
  <2>5. << r, k - (j - 1) >> \in Items[x[3]]
    BY <2>1, <2>3
  <2>6. << r, k - j >> \in Items[x[1]]
    BY <2>1, <2>3, <2>4, <2>5, AutomatonAssumption
  <2> QED
    BY <2>2, <2>6
<1> HIDE DEF Back
<1>4. lost \in SUBSET Nat /\ \A j \in 0 .. k : j \in lost <=> ~ Back(j)
  OBVIOUS
<1> HIDE DEF lost
<1>5. lost = {}
  <2> SUFFICES ASSUME lost # {} PROVE FALSE
    OBVIOUS
  <2>1. PICK j \in lost : \A y \in lost : j <= y
    BY <1>4, LeastNatural
  <2>2. j \in 1 .. k /\ ~ Back(j)
    BY <1>2, <1>4, <2>1 DEF lost
  <2>3. j - 1 \in 0 .. k /\ ~ (j - 1 \in lost)
    BY <2>1, <2>2
  <2> QED
    BY <1>3, <1>4, <2>2, <2>3
<1>6. Back(k)
  BY <1>4, <1>5
<1>7. k - k = 0
  OBVIOUS
<1> QED
  BY <1>6, <1>7 DEF Back

\* A part of a path with one more entry, behind a transition, is a path.
LEMMA PushKeepsPath ==
  ASSUME NEW s, NEW t, IsPath(s), Len(s) \in Nat, NEW keep \in 1 .. Len(s),
         Len(t) = keep + 1, \A i \in 1 .. keep : t[i] = s[i],
         << s[keep].state, t[keep + 1].sym, t[keep + 1].state >> \in Transitions
  PROVE  IsPath(t)
<1>1. t[1].state = input.start
  BY DEF IsPath
<1>2. ASSUME NEW i \in 1 .. keep
      PROVE  << t[i].state, t[i + 1].sym, t[i + 1].state >> \in Transitions
  <2>1. CASE i = keep
    BY <2>1
  <2>2. CASE i < keep
    <3>1. i + 1 \in 1 .. keep /\ i \in 1 .. Len(s) - 1
      BY <2>2
    <3>2. t[i] = s[i] /\ t[i + 1] = s[i + 1]
      BY <3>1
    <3> QED
      BY <3>1, <3>2 DEF IsPath
  <2> QED
    BY <2>1, <2>2
<1> QED
  BY <1>1, <1>2 DEF IsPath

\* The same for the stack of the parser.
LEMMA PushOnStack ==
  ASSUME StackIsPath, NEW keep \in 1 .. Len(stack), Len(stack) \in Nat,
         Len(stack') = keep + 1, \A i \in 1 .. keep : stack'[i] = stack[i],
         << stack[keep].state, stack'[keep + 1].sym, stack'[keep + 1].state >> \in Transitions,
         UNCHANGED input
  PROVE  StackIsPath'
<1> DEFINE t == stack'
<1>1. IsPath(stack)
  BY DEF StackIsPath, IsPath
<1>2. /\ Len(t) = keep + 1 /\ \A i \in 1 .. keep : t[i] = stack[i]
      /\ << stack[keep].state, t[keep + 1].sym, t[keep + 1].state >> \in Transitions
  OBVIOUS
<1>3. t = stack'
  OBVIOUS
<1> HIDE DEF t
<1>4. IsPath(t)
  BY <1>1, <1>2, PushKeepsPath
<1> QED
  BY <1>3, <1>4 DEF IsPath, StackIsPath

LEMMA ReduceByPath ==
  ASSUME TypeOK, StackIsPath, NEW r \in Rule, ReduceBy(r)
  PROVE  StackIsPath'
<1> DEFINE keep == Len(stack) - RuleLen[r]
<1>1. Lookup(cur, next.sym).op = "reduce" /\ Lookup(cur, next.sym).rule = r
  BY CurActionIsLookup DEF ReduceBy, Reduce
<1>2. << r, RuleLen[r] >> \in Items[cur] /\ RuleLen[r] \in Nat
  BY <1>1, CurType, ActionIsOfAutomaton, TableAssumption
<1>3. << r, 0 >> \in Items[stack[keep].state]
  <2>1. /\ IsPath(stack) /\ input \in Inputs /\ Len(stack) \in Nat \ {0}
        /\ cur = stack[Len(stack)].state
    BY CurType DEF StackIsPath, IsPath, TypeOK, cur, Last
  <2> QED
    BY <1>2, <2>1, ItemGoesBack
<1>4. /\ keep \in 1 .. Len(stack) /\ Len(stack') = keep + 1
      /\ \A i \in 1 .. keep : stack'[i] = stack[i]
      /\ stack'[keep + 1].state = gotoNT(stack[keep].state, RuleSymbol[r])
      /\ stack'[keep + 1].sym = RuleSymbol[r]
  BY StackOfReduceBy
<1>5. stack[keep].state \in State /\ Len(stack) \in Nat
  BY <1>4, CurType
<1>6. << stack[keep].state, RuleSymbol[r], gotoNT(stack[keep].state, RuleSymbol[r]) >>
        \in Transitions
  BY <1>3, <1>5, gotoNTOfAutomaton
<1>7. UNCHANGED input
  BY DEF ReduceBy, lexVars
<1> HIDE DEF keep
<1> QED
  BY <1>4, <1>5, <1>6, <1>7, PushOnStack

LEMMA ShiftToPath ==
  ASSUME TypeOK, StackIsPath, NEW q \in State, ShiftTo(q)
  PROVE  StackIsPath'
<1> DEFINE n   == Len(stack)
           new == Entry(next.sym, next.off, next.end, q)
<1>1. n \in Nat \ {0} /\ stack \in Seq(EntrySet) /\ stack[n].state = cur /\ cur \in State
  BY CurType DEF TypeOK, cur, Last
<1>2. stack' = Append(stack, new) /\ UNCHANGED input
  BY DEF ShiftTo, lexVars
<1>3. << cur, next.sym, q >> \in Transitions
  <2>1. Lookup(cur, next.sym).op = "shift" /\ Lookup(cur, next.sym).to = q
    BY CurActionIsLookup DEF ShiftTo, Shift
  <2> QED
    BY <1>1, <2>1, ActionIsOfAutomaton
<1>4. new.sym = next.sym /\ new.state = q
  BY DEF Entry
<1> HIDE DEF new
<1>5. Len(stack') = n + 1 /\ stack'[n + 1] = new /\ \A i \in 1 .. n : stack'[i] = stack[i]
  BY <1>1, <1>2
<1>6. n \in 1 .. Len(stack) /\ Len(stack) \in Nat
  BY <1>1
<1> HIDE DEF n
<1> QED
  BY <1>1, <1>2, <1>3, <1>4, <1>5, <1>6, PushOnStack

LEMMA RecoverPath ==
  ASSUME TypeOK, StackIsPath, NEW n \in DOMAIN stack, Recover(n)
  PROVE  StackIsPath'
<1> DEFINE base == SubSeq(stack, 1, n)
           q    == gotoState(stack[n].state, ErrSym)
<1>1. n \in 1 .. Len(stack) /\ Len(stack) \in Nat /\ stack[n].state \in State
      /\ stack \in Seq(EntrySet)
  BY CurType DEF TypeOK
<1>2. PICK e : stack' = Append(base, Entry(ErrSym, ErrorStart(n), e, q))
  BY DEF Recover
<1> DEFINE err == Entry(ErrSym, ErrorStart(n), e, q)
<1>3. err.sym = ErrSym /\ err.state = q
  BY DEF Entry
<1>4. q # NoState
  BY DEF Recover, IsMax, MatchingPositions, reduceAll
<1>5. << stack[n].state, ErrSym, q >> \in Transitions
  BY <1>1, <1>4, gotoStateOfAutomaton
<1>6. base \in Seq(EntrySet) /\ Len(base) = n /\ \A i \in 1 .. n : base[i] = stack[i]
  BY <1>1, CurType, SubSeqProperties
<1>7. UNCHANGED input
  BY DEF Recover, lexVars
<1>8. stack' = Append(base, err)
  BY <1>2
<1> HIDE DEF base, q, err
<1>9. Len(stack') = n + 1 /\ stack'[n + 1] = err /\ \A i \in 1 .. n : stack'[i] = stack[i]
  BY <1>6, <1>8
<1> QED
  BY <1>1, <1>3, <1>5, <1>7, <1>9, PushOnStack

LEMMA NextPath == TypeOK /\ StackIsPath /\ [Next]_vars => StackIsPath'
<1> SUFFICES ASSUME TypeOK, StackIsPath, [Next]_vars PROVE StackIsPath'
  OBVIOUS
<1>1. UNCHANGED << stack, input >> => StackIsPath'
  BY DEF StackIsPath
<1>2. CASE Lex
  BY <1>1, <1>2 DEF Lex, LexIgnored, LexToken
<1>3. CASE Parse
  <2>1. CASE \E r \in Rule : ReduceBy(r)
    BY <2>1, ReduceByPath
  <2>2. CASE \E q \in State : ShiftTo(q)
    BY <2>2, ShiftToPath
  <2>3. CASE Cancel \/ (\E goOn \in BOOLEAN : ReportError(goOn)) \/ RepeatedError
    BY <1>1, <2>3 DEF Cancel, ReportError, RepeatedError, lexVars
  <2> QED
    BY <1>3, <2>1, <2>2, <2>3 DEF Parse
<1>4. CASE recoverFromError
  <2>1. CASE \E n \in DOMAIN stack : Recover(n)
    BY <2>1, RecoverPath
  <2>2. CASE NoRecoveryPoint \/ StartRecovery \/ SkipToken \/ DropSymbol \/ GiveUp
    BY <1>1, <2>2 DEF NoRecoveryPoint, StartRecovery, SkipToken, DropSymbol, GiveUp, lexVars
  <2> QED
    BY <1>4, <2>1, <2>2 DEF recoverFromError
<1>5. CASE Accept \/ Finished \/ UNCHANGED vars
  BY <1>1, <1>5 DEF Accept, Finished, vars, lexVars
<1> QED
  BY <1>2, <1>3, <1>4, <1>5 DEF Next

\* The stack spells a path of the automaton from the start state, for the tables
\* of every automaton and every text, however many recoveries cut the stack at a
\* remembered size and pushed `error`: a compressed goto row is never asked for a
\* state that has no transition, where it would answer with its default.
THEOREM StackSpellsPath == Spec => []StackIsPath
<1>1. Init => StackIsPath
  BY DEF Init, Entry, StackIsPath
<1> QED
  BY <1>1, NextPath, TypeCorrect, PTL DEF Spec

\* The right-hand side that a reduction takes off the stack is there, and a
\* state is left below it.
ReductionsFit ==
  InLoop /\ CurAction.op = "reduce" => RuleLen[CurAction.rule] < Len(stack)

\* parse never slices the stack below its bottom (parser.go:100), although it
\* has no check: the guard that ReduceBy states for it always holds.
THEOREM ReductionsFitTheStack == Spec => []ReductionsFit
<1>1. TypeOK /\ StackIsPath => ReductionsFit
  <2> SUFFICES ASSUME TypeOK, StackIsPath, CurAction.op = "reduce"
               PROVE  RuleLen[CurAction.rule] < Len(stack)
    BY DEF ReductionsFit
  <2>1. /\ CurAction.rule \in Rule
        /\ << CurAction.rule, RuleLen[CurAction.rule] >> \in Items[cur]
    BY CurType, CurActionIsLookup, ActionIsOfAutomaton
  <2>2. RuleLen[CurAction.rule] \in Nat
    BY <2>1, TableAssumption
  <2>3. /\ IsPath(stack) /\ input \in Inputs /\ Len(stack) \in Nat \ {0}
        /\ cur = stack[Len(stack)].state
    BY CurType DEF StackIsPath, IsPath, TypeOK, cur, Last
  <2> QED
    BY <2>1, <2>2, <2>3, ItemGoesBack
<1> QED
  BY <1>1, TypeCorrect, StackSpellsPath, PTL

(***************************************************************************)
(* reduceAll, which works on a copy of the stack's states, stays on it too.*)
(***************************************************************************)
\* One turn of its loop that goes on, on the token t.
Turns(c, t) == Last(c.top) # input.end /\ Lookup(Last(c.top), t).op = "reduce"

TurnRule(c, t) == Lookup(Last(c.top), t).rule

\* The loop meets the configuration c: every set that has the first one and
\* those of the next turns has c.
LoopMeets(stk, q, t, c) ==
  \A C \in SUBSET Configuration :
    /\ [size |-> Len(stk), top |-> << q >>] \in C
    /\ \A d \in C : Turns(d, t) => Reduced(stk, d, TurnRule(d, t)) \in C
    => c \in C

\* Wherever recoverFromError may try to put `error`, reduceAll reads no state
\* from under the stack.
SimulationsFit ==
  \A n \in DOMAIN stack, t \in Terminals :
    gotoState(stack[n].state, ErrSym) # NoState =>
      \A c \in Configuration :
        /\ LoopMeets(SubSeq(stack, 1, n), gotoState(stack[n].state, ErrSym), t, c)
        /\ Turns(c, t)
        => LET base == Pop(c, RuleLen[TurnRule(c, t)])
           IN  base.top = <<>> => base.size \in 1 .. n

\* A configuration that stands for a path on top of stk.
OnPath(stk, c) ==
  c \in Configuration /\ \E s \in Seq(EntrySet) : OnRun(s, stk, c) /\ IsPath(s)

LEMMA TurnOnPath ==
  ASSUME input \in Inputs, NEW stk, NEW c, NEW t, OnPath(stk, c), Len(stk) \in Nat, Turns(c, t)
  PROVE  LET r    == TurnRule(c, t)
             base == Pop(c, RuleLen[r])
         IN  /\ OnPath(stk, Reduced(stk, c, r))
             /\ base.top = <<>> => base.size \in 1 .. Len(stk)
<1> DEFINE r == TurnRule(c, t)
<1>1. c \in Configuration
  BY DEF OnPath
<1>2. PICK s \in Seq(EntrySet) : OnRun(s, stk, c) /\ IsPath(s)
  BY DEF OnPath
<1>3. /\ c.size \in 0 .. Len(stk) /\ Len(s) = c.size + Len(c.top)
      /\ Len(c.top) \in Nat \ {0} /\ Last(c.top) \in State
      /\ c.size \in Nat /\ Len(s) \in Nat \ {0}
      /\ s[c.size + Len(c.top)].state = Last(c.top)
  <2>1. /\ c.size \in 0 .. Len(stk) /\ Len(s) = c.size + Len(c.top)
        /\ Len(c.top) \in Nat \ {0} /\ Last(c.top) \in State /\ Last(c.top) = c.top[Len(c.top)]
        /\ \A i \in 1 .. Len(c.top) : s[c.size + i].state = c.top[i]
    BY <1>1, <1>2, ConfigurationParts DEF OnRun
  <2>2. Len(c.top) \in 1 .. Len(c.top)
    BY <2>1
  <2>3. s[c.size + Len(c.top)].state = Last(c.top)
    BY <2>1, <2>2
  <2> QED
    BY <2>1, <2>3
<1>4. r \in Rule /\ << r, RuleLen[r] >> \in Items[s[Len(s)].state] /\ RuleLen[r] \in Nat
  <2>1. r \in Rule /\ << r, RuleLen[r] >> \in Items[Last(c.top)]
    BY <1>3, ActionIsOfAutomaton DEF Turns, TurnRule
  <2> QED
    BY <1>3, <2>1, TableAssumption
<1> HIDE DEF r
<1> DEFINE keep == Len(s) - RuleLen[r]
           q    == gotoNT(s[keep].state, RuleSymbol[r])
           new  == Entry(RuleSymbol[r], 0, 0, q)
           base == SubSeq(s, 1, keep)
           u    == Append(base, new)
<1>5. RuleLen[r] < Len(s) /\ << r, 0 >> \in Items[s[keep].state]
  BY <1>2, <1>3, <1>4, ItemGoesBack
<1>6. keep \in 1 .. Len(s) /\ s[keep].state \in State
  <2>1. keep \in 1 .. Len(s)
    BY <1>3, <1>4, <1>5
  <2>2. s[keep] \in EntrySet
    BY <1>2, <2>1, ElementOfSeq
  <2> QED
    BY <2>1, <2>2 DEF EntrySet
<1>7. << s[keep].state, RuleSymbol[r], q >> \in Transitions
  BY <1>4, <1>5, <1>6, gotoNTOfAutomaton
<1>8. new \in EntrySet /\ new.sym = RuleSymbol[r] /\ new.state = q
  BY <1>4, gotoNTType, TableAssumption DEF Entry, EntrySet
<1>9. base \in Seq(EntrySet) /\ Len(base) = keep /\ \A i \in 1 .. keep : base[i] = s[i]
  <2>1. \A i \in 1 .. keep : s[i] \in EntrySet
    BY <1>2, <1>3, <1>6, ElementOfSeq
  <2>2. keep \in Int /\ 1 <= keep
    BY <1>3, <1>6
  <2> HIDE DEF keep
  <2> QED
    BY <2>1, <2>2, SubSeqProperties
<1> HIDE DEF q, new, base, keep
<1>10. /\ u \in Seq(EntrySet) /\ Len(u) = keep + 1 /\ u[keep + 1] = new
       /\ \A i \in 1 .. keep : u[i] = s[i]
  BY <1>8, <1>9, AppendProperties
<1> HIDE DEF u
<1>11. IsPath(u)
  BY <1>2, <1>3, <1>6, <1>7, <1>8, <1>10, PushKeepsPath
<1>12. OnRun(u, stk, Reduced(stk, c, r))
  <2>1. AfterReduce(s, u, r)
    BY <1>3, <1>6, <1>8, <1>10 DEF AfterReduce, keep, q
  <2> QED
    BY <1>1, <1>2, <1>4, <2>1, ReducedOnRun
<1>13. OnPath(stk, Reduced(stk, c, r))
  BY <1>1, <1>4, <1>10, <1>11, <1>12, ReducedType DEF OnPath
<1>14. ASSUME Pop(c, RuleLen[r]).top = <<>>
       PROVE  Pop(c, RuleLen[r]).size \in 1 .. Len(stk)
  <2> DEFINE N == Len(c.top)
  <2>1. CASE RuleLen[r] < N
    <3>1. Pop(c, RuleLen[r]).top = SubSeq(c.top, 1, N - RuleLen[r])
      BY <2>1 DEF Pop
    <3>2. c.top \in Seq(State) /\ N - RuleLen[r] \in 1 .. N
      BY <1>1, <1>3, <1>4, <2>1, ConfigurationParts
    <3>3. Len(SubSeq(c.top, 1, N - RuleLen[r])) = N - RuleLen[r]
      BY <1>3, <3>2, LenProperties
    <3> QED
      BY <1>14, <3>1, <3>2, <3>3
  <2>2. CASE ~ (RuleLen[r] < N)
    <3>1. Pop(c, RuleLen[r]).size = c.size - (RuleLen[r] - N)
      BY <2>2 DEF Pop
    <3> QED
      BY <1>3, <1>4, <1>5, <2>2, <3>1
  <2> QED
    BY <2>1, <2>2
<1> QED
  BY <1>13, <1>14 DEF r

\* reduceAll never indexes the stack below its bottom (parser.go:232), for the
\* tables of every automaton: also the reductions that it simulates behind an
\* `error` find their right-hand sides, partly in the copy, partly on the stack.
THEOREM SimulationsFitTheStack == Spec => []SimulationsFit
<1>1. TypeOK /\ StackIsPath => SimulationsFit
  <2> SUFFICES ASSUME TypeOK, StackIsPath,
                      NEW n \in DOMAIN stack, NEW t \in Terminals,
                      gotoState(stack[n].state, ErrSym) # NoState,
                      NEW c \in Configuration,
                      LoopMeets(SubSeq(stack, 1, n), gotoState(stack[n].state, ErrSym), t, c),
                      Turns(c, t),
                      Pop(c, RuleLen[TurnRule(c, t)]).top = <<>>
               PROVE  Pop(c, RuleLen[TurnRule(c, t)]).size \in 1 .. n
    BY DEF SimulationsFit
  <2> DEFINE stk == SubSeq(stack, 1, n)
             q   == gotoState(stack[n].state, ErrSym)
             c0  == [size |-> n, top |-> << q >>]
             err == Entry(ErrSym, 0, 0, q)
             s   == Append(stk, err)
             C   == { d \in Configuration : OnPath(stk, d) }
  <2>1. n \in 1 .. Len(stack) /\ Len(stack) \in Nat /\ stack[n].state \in State
        /\ stack \in Seq(EntrySet) /\ input \in Inputs
    BY CurType DEF TypeOK
  <2>2. stk \in Seq(EntrySet) /\ Len(stk) = n /\ \A i \in 1 .. n : stk[i] = stack[i]
    BY <2>1, CurType, SubSeqProperties
  <2>3. q \in State /\ << stack[n].state, ErrSym, q >> \in Transitions
    BY <2>1, gotoStateType, gotoStateOfAutomaton
  <2>4. err \in EntrySet /\ err.sym = ErrSym /\ err.state = q
    BY <2>3, SymbolAssumption DEF Entry, EntrySet
  <2>5. c0 \in Configuration /\ c0.size = n /\ Len(c0.top) = 1 /\ c0.top[1] = q
    BY <2>1, <2>3 DEF Configuration
  <2>6. LoopMeets(stk, q, t, c)
    OBVIOUS
  <2> HIDE DEF stk, q, err, C
  <2>7. /\ s \in Seq(EntrySet) /\ Len(s) = n + 1 /\ s[n + 1] = err
        /\ \A i \in 1 .. n : s[i] = stk[i]
    BY <2>2, <2>4, AppendProperties
  <2> HIDE DEF s, c0
  <2>8. OnPath(stk, c0)
    <3>1. OnRun(s, stk, c0)
      BY <2>1, <2>2, <2>4, <2>5, <2>7 DEF OnRun
    <3>2. IsPath(stack) /\ \A i \in 1 .. n : s[i] = stack[i]
      BY <2>2, <2>7 DEF StackIsPath, IsPath
    <3>3. IsPath(s)
      BY <2>1, <2>3, <2>4, <2>7, <3>2, PushKeepsPath
    <3> QED
      BY <2>5, <2>7, <3>1, <3>3 DEF OnPath
  <2>9. C \in SUBSET Configuration /\ [size |-> Len(stk), top |-> << q >>] \in C
    BY <2>2, <2>5, <2>8 DEF C, c0
  <2>10. ASSUME NEW d \in C, Turns(d, t)
         PROVE  Reduced(stk, d, TurnRule(d, t)) \in C
    <3>1. OnPath(stk, Reduced(stk, d, TurnRule(d, t)))
      BY <2>1, <2>2, <2>10, TurnOnPath DEF C
    <3> QED
      BY <3>1 DEF C, OnPath
  <2>11. c \in C
    BY <2>6, <2>9, <2>10 DEF LoopMeets
  <2>12. OnPath(stk, c)
    BY <2>11 DEF C
  <2>13. Len(stk) \in Nat /\ input \in Inputs /\ Turns(c, t)
    BY <2>1, <2>2
  <2>14. Pop(c, RuleLen[TurnRule(c, t)]).size \in 1 .. Len(stk)
    BY <2>12, <2>13, TurnOnPath
  <2> QED
    BY <2>2, <2>14
<1> QED
  BY <1>1, TypeCorrect, StackSpellsPath, PTL
=============================================================================
