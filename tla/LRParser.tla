------------------------------ MODULE LRParser ------------------------------
(***************************************************************************)
(* The table-driven LALR parser that Textmapper generates, together with   *)
(* the token stream it reads from: parsers/tm/parser.go and                *)
(* parsers/tm/stream.go.                                                   *)
(*                                                                         *)
(* One step of this module is one turn of the parsing loop (a reduction, a *)
(* shift, the report of a syntax error), one token taken from the lexer by *)
(* TokenStream.next, or one turn of the recovery loop.  The tables are     *)
(* constants: an instance supplies those of a grammar.                     *)
(***************************************************************************)
EXTENDS Integers, SequencesExt

CONSTANTS
  Terminals,      \* token types the parser itself consumes
  Ignored,        \* token types TokenStream.next puts aside (comments, ...)
  Invalid,        \* the ignored types that stand for INVALID_TOKEN
  EOI,            \* end of input
  ErrSym,         \* the terminal `error` of the grammar (errSymbol)
  NoToken,        \* token.UNAVAILABLE: no token in hand
  Nonterminals,
  State,          \* LALR states
  Inputs,         \* the %input nonterminals: where parse starts and ends
  Rule,           \* grammar rules
  RuleLen, RuleSymbol,
  RuleNode,       \* the node type a rule reports, or NoNode
  RuleReports,    \* sub-ranges a rule reports in applyRule
  NoNode, NodeType,
  ActRow, DefAct, \* action tables, one row per state
  GotoRow, DefGoto,
  Transitions,    \* of the automaton that the tables were made from: <<p, symbol, q>>
  Items,          \* the items of its states: <<rule, symbols in front of the dot>>
  AfterErr,       \* terminals that can follow `error` in the grammar
  RecoveryScope,  \* states marked with .recoveryScope
  CheckEvery,     \* a context is looked at once per CheckEvery shifts
  Gaps,           \* BOUND: widths of the white space between tokens
  MaxTokens       \* BOUND: number of tokens before the end of input

(***************************************************************************)
(* The actions of the tables: shift and go to a state, reduce by a rule,   *)
(* syntax error.                                                           *)
(***************************************************************************)
Shift(q)  == [op |-> "shift", to |-> q]
Reduce(r) == [op |-> "reduce", rule |-> r]
Error     == [op |-> "error"]

NoState == -1

TableAction ==
  { Shift(q) : q \in State } \union { Reduce(r) : r \in Rule } \union { Error }

ASSUME SymbolAssumption ==
  /\ EOI \in Terminals /\ ErrSym \in Terminals
  /\ NoToken \notin Terminals \union Ignored
  /\ Terminals \intersect Ignored = {}
  /\ Invalid \subseteq Ignored
  /\ AfterErr \subseteq Terminals
  /\ NoNode \notin NodeType
  /\ NodeType \intersect (Terminals \union Ignored \union {NoToken}) = {}

ASSUME TableAssumption ==
  /\ State \subseteq Nat
  /\ Inputs \subseteq [start : State, end : State, eoi : BOOLEAN]
  /\ RecoveryScope \subseteq State
  /\ RuleLen \in [Rule -> Nat]
  /\ RuleSymbol \in [Rule -> Nonterminals]
  /\ RuleNode \in [Rule -> NodeType \union {NoNode}]
  /\ RuleReports \in [Rule -> Seq([type : NodeType, from : Nat, to : Nat])]
  /\ \A r \in Rule : \A i \in DOMAIN RuleReports[r] :
       /\ RuleReports[r][i].from \in 1 .. RuleReports[r][i].to
       /\ RuleReports[r][i].to \in 1 .. RuleLen[r]
  /\ \A r \in Rule : \A i, j \in DOMAIN RuleReports[r] : \* left to right, inner first
       LET a == RuleReports[r][i]
           b == RuleReports[r][j]
       IN  i < j => a.to < b.from \/ (b.from <= a.from /\ a.to <= b.to)
  /\ DOMAIN ActRow = State
  /\ \A q \in State : /\ DOMAIN ActRow[q] \subseteq Terminals
                      /\ \A t \in DOMAIN ActRow[q] : ActRow[q][t] \in TableAction
  /\ DefAct \in [State -> { Reduce(r) : r \in Rule } \union { Error }]
  /\ DOMAIN GotoRow = Nonterminals
  /\ \A n \in Nonterminals : \A q \in DOMAIN GotoRow[n] : GotoRow[n][q] \in State
  /\ DefGoto \in [Nonterminals -> State]

\* The tables are those of an automaton: it has the shifts they hold, a rule is
\* reduced where its last symbol was passed, and the compressed rows give every
\* goto.  Nothing is assumed about gotos that the automaton does not have.  The
\* items of merged states (lalr/minimize.go) are those they share, rules that the
\* parser cannot tell apart being one.
ASSUME AutomatonAssumption ==
  /\ Transitions \subseteq State \X (Terminals \union Nonterminals) \X State
  /\ Items \in [State -> SUBSET (Rule \X Nat)]
  /\ \A in \in Inputs : \A item \in Items[in.start] : item[2] = 0
  /\ \A x \in Transitions : \A item \in Items[x[3]] :
       item[2] > 0 => << item[1], item[2] - 1 >> \in Items[x[1]]
  /\ \A q \in State, r \in Rule :
       << r, 0 >> \in Items[q] =>
         \E to \in State : << q, RuleSymbol[r], to >> \in Transitions
  /\ \A q \in State : \A t \in DOMAIN ActRow[q] :
       LET a == ActRow[q][t]
       IN  /\ a.op = "shift" => << q, t, a.to >> \in Transitions
           /\ a.op = "reduce" => << a.rule, RuleLen[a.rule] >> \in Items[q]
  /\ \A q \in State :
       DefAct[q].op = "reduce" => << DefAct[q].rule, RuleLen[DefAct[q].rule] >> \in Items[q]
  /\ \A x \in Transitions :
       x[2] \in Nonterminals =>
         x[3] = IF x[1] \in DOMAIN GotoRow[x[2]] THEN GotoRow[x[2]][x[1]] ELSE DefGoto[x[2]]

ASSUME BoundAssumption ==
  /\ CheckEvery \in Nat \ {0}
  /\ Gaps \subseteq Nat
  /\ MaxTokens \in Nat

VARIABLES
  input,      \* what is parsed: the start and end arguments of parse
  offset,     \* where the lexer stands in the text
  lexed,      \* history: the tokens handed to the parser, in order
  ignored,    \* history: the tokens put aside, in order
  pending,    \* TokenStream.pending: put aside and not yet reported
  next,       \* Parser.next; its sym is NoToken when no token is in hand
  stack,      \* the parsing stack; the state of the loop is on its top
  recovering, \* Parser.recovering: shifts left before errors are reported again
  shifts,     \* shiftCounter
  recovery,   \* the locals of recoverFromError
  events,     \* everything the listener was told, in order
  reported,   \* history: the part of events that reports ignored tokens
  errors,     \* the syntax errors given to the error handler
  pc          \* "start", "parse", "recover", "skip", or how parse returned

vars == << input, offset, lexed, ignored, pending, next, stack, recovering, shifts,
           recovery, events, reported, errors, pc >>

lexVars == << input, offset, lexed, ignored >>

Symbol(s, o, e)   == [sym |-> s, off |-> o, end |-> e]
Entry(s, o, e, q) == [sym |-> s, off |-> o, end |-> e, state |-> q]
NoRecovery        == [pos |-> {}, syms |-> {}, s |-> 0, e |-> 0]

IsMax(x, S) == x \in S /\ \A y \in S : y <= x
IsMin(x, S) == x \in S /\ \A y \in S : x <= y

Returned == pc \in {"accepted", "failed", "cancelled"}

(***************************************************************************)
(* Reading the tables.  A row maps the terminals whose cell was not the    *)
(* default one; a state with an empty row acts without looking at a token. *)
(***************************************************************************)
NeedsLookahead(q) == DOMAIN ActRow[q] # {}

Lookup(q, t) == IF t \in DOMAIN ActRow[q] THEN ActRow[q][t] ELSE DefAct[q]

\* Mutant: the default is taken for every state.
gotoNT_DefaultOnly(q, n) == DefGoto[n]

gotoNT(q, n) == IF q \in DOMAIN GotoRow[n] THEN GotoRow[n][q] ELSE DefGoto[n]

gotoState(q, t) ==
  IF NeedsLookahead(q) /\ Lookup(q, t).op = "shift" THEN Lookup(q, t).to
                                                    ELSE NoState

\* The last state of an input that ends with the text is a state of its own,
\* entered by shifting EOI (afterEoi in lalr/compile.go).
ASSUME FinalStateAssumption ==
  \A in \in Inputs :
    in.eoi => /\ in.start # in.end
              /\ \A q \in State : gotoState(q, ErrSym) # in.end
              /\ \A q \in State, n \in Nonterminals : gotoNT(q, n) # in.end

(***************************************************************************)
(* reduceAll: apply to the stack of states stk + <<q>>, without touching   *)
(* the real stack, all reductions that the token t triggers; `ok` says     *)
(* whether t can be consumed after them.  As in the code, only the part of *)
(* the stack above the first `size` states of stk is rebuilt, in `top`.    *)
(***************************************************************************)
Configuration == [size : Int, top : Seq(State) \ {<<>>}]

\* The configuration without its n topmost states, and the state it is in.
Pop(c, n) ==
  IF n < Len(c.top)
  THEN [size |-> c.size, top |-> SubSeq(c.top, 1, Len(c.top) - n)]
  ELSE [size |-> c.size - (n - Len(c.top)), top |-> <<>>]

StateOf(stk, c) == IF c.top # <<>> THEN Last(c.top) ELSE stk[c.size].state

Reduced(stk, c, r) ==
  LET base == Pop(c, RuleLen[r])
  IN  [base EXCEPT !.top = Append(@, gotoNT(StateOf(stk, base), RuleSymbol[r]))]

\* The outcome of the simulation from every configuration.
Outcomes(stk, end, t) ==
  LET run[c \in Configuration] ==
        LET q == Last(c.top)
            a == Lookup(q, t)
        IN  IF q # end /\ a.op = "reduce"
            THEN run[Reduced(stk, c, a.rule)]
            ELSE [state |-> q, ok |-> IF q = end THEN t = EOI ELSE a.op = "shift"]
  IN  run

Simulate(stk, q, t) ==
  Outcomes(stk, input.end, t)[[size |-> Len(stk), top |-> << q >>]]

reduceAll(stk, q, t) ==
  IF q = NoState THEN [state |-> 0, ok |-> FALSE] ELSE Simulate(stk, q, t)

(***************************************************************************)
(* The parser's position.                                                  *)
(***************************************************************************)
cur == Last(stack).state

CurAction == IF NeedsLookahead(cur) THEN Lookup(cur, next.sym) ELSE DefAct[cur]

\* The right-hand side of a rule on the stack, and the part of it left when
\* the empty symbols at its end are trimmed.
Rhs(r) == SubSeq(stack, Len(stack) - RuleLen[r] + 1, Len(stack))

\* Mutant: trailing empty symbols are not trimmed.
NonEmpty_All(rhs) == DOMAIN rhs

NonEmpty(rhs) == { i \in DOMAIN rhs : rhs[i].off # rhs[i].end }

\* The code is about to use p.next and asks the stream for it first: a state
\* that needs lookahead, a reduction of an empty range, a syntax error to
\* report, or a recovery.
TokenWanted ==
  /\ next.sym = NoToken
  /\ \/ pc = "start"
     \/ /\ pc = "parse" /\ cur # input.end
        /\ \/ NeedsLookahead(cur)
           \/ DefAct[cur].op = "reduce" /\ NonEmpty(Rhs(DefAct[cur].rule)) = {}
           \/ DefAct[cur].op = "error" /\ recovering = 0
     \/ pc = "recover" /\ \E n \in DOMAIN stack : gotoState(stack[n].state, ErrSym) # NoState
     \/ pc = "skip"

Init ==
  /\ input \in Inputs
  /\ offset = 0
  /\ lexed = <<>> /\ ignored = <<>> /\ pending = <<>>
  /\ next = Symbol(NoToken, 0, 0)
  /\ stack = << Entry(NoToken, 0, 0, input.start) >>
  /\ recovering = 0 /\ shifts = 0
  /\ recovery = NoRecovery
  /\ events = <<>> /\ reported = <<>> /\ errors = <<>>
  /\ pc = "start"

-----------------------------------------------------------------------------
(***************************************************************************)
(* TokenStream.next takes tokens from the lexer, puts the ignored ones     *)
(* aside and returns the first other one.  The lexer is arbitrary: any     *)
(* token may come next, after any gap, until the text ends.                *)
(***************************************************************************)
InputLeft == Len(lexed) + Len(ignored) < MaxTokens

LexIgnored(t, gap) ==
  /\ TokenWanted /\ InputLeft
  /\ LET tok == Symbol(t, offset + gap, offset + gap + 1)
     IN  /\ pending' = Append(pending, tok)
         /\ ignored' = Append(ignored, tok)
         /\ offset' = tok.end
  /\ UNCHANGED << input, lexed, next, stack, recovering, shifts, recovery, events,
                  reported, errors, pc >>

LexToken(t, gap) ==
  /\ TokenWanted
  /\ t # EOI => InputLeft
  /\ next' = Symbol(t, offset + gap, offset + gap + (IF t = EOI THEN 0 ELSE 1))
  /\ lexed' = Append(lexed, next')
  /\ offset' = next'.end
  /\ pc' = IF pc = "start" THEN "parse" ELSE pc
  /\ UNCHANGED << input, ignored, pending, stack, recovering, shifts, recovery, events,
                  reported, errors >>

Lex ==
  \E gap \in Gaps :
    \/ \E t \in Ignored : LexIgnored(t, gap)
    \/ \E t \in Terminals \ {ErrSym} : LexToken(t, gap)

\* Mutant: what is not reported yet is dropped.
Flush_DropsRest(end) ==
  \E n \in 0 .. Len(pending) :
    /\ \A i \in 1 .. n : pending[i].end <= end
    /\ n < Len(pending) => pending[n + 1].end > end
    /\ pending'  = <<>>
    /\ reported' = reported \o SubSeq(pending, 1, n)
    /\ events'   = events \o SubSeq(pending, 1, n)

\* TokenStream.flush: report the pending tokens that end before `end`.
Flush(end) ==
  \E n \in 0 .. Len(pending) :
    /\ \A i \in 1 .. n : pending[i].end <= end
    /\ n < Len(pending) => pending[n + 1].end > end
    /\ pending'  = SubSeq(pending, n + 1, Len(pending))
    /\ reported' = reported \o SubSeq(pending, 1, n)
    /\ events'   = events \o SubSeq(pending, 1, n)

-----------------------------------------------------------------------------
(***************************************************************************)
(* The parsing loop.                                                       *)
(***************************************************************************)
\* The loop holds all it needs for its next turn; every action below is a turn.
InLoop == pc = "parse" /\ cur # input.end /\ ~TokenWanted

\* The range of rhs[from..to] that reportRange gives: trailing empty symbols
\* are trimmed, down to one symbol.
RangeOf(rhs, from, to) ==
  LET last == { i \in from .. to : i = from \/ i \in NonEmpty(rhs) }
  IN  [off |-> rhs[from].off, end |-> rhs[Max(last)].end]

\* The node events of a reduction: applyRule reports its sub-ranges first.
RuleEvents(r, rhs, off, end) ==
  LET sub == RuleReports[r]
      Report(i) == LET range == RangeOf(rhs, sub[i].from, sub[i].to)
                   IN  Symbol(sub[i].type, range.off, range.end)
  IN  [i \in DOMAIN sub |-> Report(i)] \o
      (IF RuleNode[r] = NoNode THEN <<>> ELSE << Symbol(RuleNode[r], off, end) >>)

ReduceBy(r) ==
  /\ CurAction = Reduce(r)
  /\ Len(stack) > RuleLen[r]   \* otherwise the slice expression panics
  /\ LET rhs   == Rhs(r)
         base  == SubSeq(stack, 1, Len(stack) - RuleLen[r])
         empty == NonEmpty(rhs) = {}
         off   == IF empty THEN next.off ELSE rhs[1].off
         end   == IF empty THEN next.off ELSE rhs[Max(NonEmpty(rhs))].end
     IN  /\ events' = events \o RuleEvents(r, rhs, off, end)
         /\ stack' = Append(base, Entry(RuleSymbol[r], off, end,
                                        gotoNT(Last(base).state, RuleSymbol[r])))
  /\ UNCHANGED << lexVars, pending, next, recovering, shifts, recovery,
                  reported, errors, pc >>

\* Mutants: the counter is not stopped at zero, is cleared by the first shift.
CountDown_Unguarded == recovering - 1
CountDown_Cleared   == 0

\* A shift brings the parser closer to reporting syntax errors again.
CountDown == IF recovering > 0 THEN recovering - 1 ELSE 0

ShiftTo(q) ==
  /\ CurAction = Shift(q)
  /\ shifts' = shifts + 1
  /\ stack' = Append(stack, Entry(next.sym, next.off, next.end, q))
  /\ Flush(next.end)
  /\ next' = IF next.sym = EOI THEN next ELSE [next EXCEPT !.sym = NoToken]
  /\ recovering' = CountDown
  /\ UNCHANGED << lexVars, recovery, errors, pc >>

\* A shift whose turn it is to look at the context, and finds it cancelled.
Cancel ==
  /\ CurAction.op = "shift"
  /\ (shifts + 1) % CheckEvery = 0
  /\ shifts' = shifts + 1
  /\ pc' = "cancelled"
  /\ UNCHANGED << lexVars, pending, next, stack, recovering, recovery, events,
                  reported, errors >>

\* A syntax error is reported only if the last one is `recovering` shifts
\* behind.  The handler may stop the parser.
ReportError(goOn) ==
  /\ CurAction = Error /\ recovering = 0
  /\ errors' = Append(errors, [off |-> next.off, end |-> next.end, at |-> shifts])
  /\ \/ goOn /\ pc' = "recover" /\ recovering' = 4
        /\ UNCHANGED << pending, events, reported >>
     \/ ~goOn /\ pc' = "failed" /\ Flush(next.end) /\ UNCHANGED recovering
  /\ UNCHANGED << lexVars, next, stack, shifts, recovery >>

RepeatedError ==
  /\ CurAction = Error /\ recovering > 0
  /\ recovering' = 4
  /\ pc' = "recover"
  /\ UNCHANGED << lexVars, pending, next, stack, shifts, recovery, events,
                  reported, errors >>

Accept ==
  /\ pc = "parse" /\ cur = input.end
  /\ pc' = "accepted"
  /\ UNCHANGED << lexVars, pending, next, stack, recovering, shifts, recovery,
                  events, reported, errors >>

-----------------------------------------------------------------------------
(***************************************************************************)
(* recoverFromError.                                                       *)
(***************************************************************************)
\* Stack sizes at which `error` can be shifted, from the top of the stack
\* down to the innermost recovery scope.
ErrorPositions ==
  LET shiftable == { n \in DOMAIN stack : gotoState(stack[n].state, ErrSym) # NoState }
  IN  { n \in shiftable :
          ~ \E m \in shiftable : m > n /\ stack[m].state \in RecoveryScope }

InvalidPending == { i \in DOMAIN pending : pending[i].sym \in Invalid }

\* Mutant: parse returns without the flush.
NoRecoveryPoint_NoFlush ==
  /\ pc = "recover" /\ ErrorPositions = {}
  /\ pc' = "failed"
  /\ UNCHANGED << lexVars, pending, next, stack, recovering, shifts, recovery, events,
                  reported, errors >>

\* There is nowhere to put `error`.
NoRecoveryPoint ==
  /\ pc = "recover" /\ ErrorPositions = {}
  /\ Flush(next.end)
  /\ pc' = "failed"
  /\ UNCHANGED << lexVars, next, stack, recovering, shifts, recovery, errors >>

\* `error` is to cover the invalid tokens right before the next token.
StartRecovery ==
  /\ pc = "recover" /\ ErrorPositions # {} /\ next.sym # NoToken
  /\ LET starts == { next.off } \union { pending[i].off : i \in InvalidPending }
         ends   == IF InvalidPending = {} THEN { next.off }
                   ELSE { pending[i].end : i \in { k \in InvalidPending :
                                                    IsMax(k, InvalidPending) } }
     IN  \E s \in starts, e \in ends :
           /\ IsMin(s, starts)
           /\ recovery' = [pos |-> ErrorPositions, syms |-> AfterErr, s |-> s, e |-> e]
  /\ pc' = "skip"
  /\ UNCHANGED << lexVars, pending, next, stack, recovering, shifts, events,
                  reported, errors >>

SkipStops == next.sym = EOI \/ next.sym \in recovery.syms

\* One turn of skipBrokenCode.
SkipToken ==
  /\ pc = "skip" /\ next.sym # NoToken /\ ~SkipStops
  /\ Flush(next.end)
  /\ recovery' = [recovery EXCEPT !.e = IF next.end > @ THEN next.end ELSE @]
  /\ next' = [next EXCEPT !.sym = NoToken]
  /\ UNCHANGED << lexVars, stack, recovering, shifts, errors, pc >>

\* Mutant: the token is expected to fit everywhere.
MatchingPositions_Unchecked == recovery.pos

\* The stack sizes after which the token in hand is accepted behind `error`.
MatchingPositions ==
  { n \in recovery.pos :
      reduceAll(SubSeq(stack, 1, n), gotoState(stack[n].state, ErrSym), next.sym).ok }

\* Mutants: the range forgets the dropped entries, or what was skipped.
ErrorStart_InFront(n) == recovery.s
ErrorEnd_OnStack(n)   == IF n < Len(stack) THEN Last(stack).end ELSE recovery.e

\* The range of `error` when n stack entries stay.
ErrorStart(n) == IF n < Len(stack) THEN stack[n + 1].off ELSE recovery.s

ErrorEnd(n) ==
  IF n < Len(stack) /\ recovery.s = recovery.e THEN Last(stack).end ELSE recovery.e

\* What `error` may end at: a non-empty range is extended over the invalid
\* tokens that follow it.
ErrorEnds(n) ==
  { ErrorEnd(n) } \union
  (IF ErrorStart(n) = ErrorEnd(n) THEN {}
                                  ELSE { pending[i].end : i \in InvalidPending })

\* Drop the stack above position n and shift `error` there.
Recover(n) ==
  /\ pc = "skip" /\ next.sym # NoToken /\ SkipStops
  /\ IsMax(n, MatchingPositions)
  /\ \E e \in ErrorEnds(n) :
       /\ IsMax(e, ErrorEnds(n))
       /\ Flush(e)
       /\ stack' = Append(SubSeq(stack, 1, n),
                          Entry(ErrSym, ErrorStart(n), e,
                                gotoState(stack[n].state, ErrSym)))
  /\ recovery' = NoRecovery
  /\ pc' = "parse"
  /\ UNCHANGED << lexVars, next, recovering, shifts, errors >>

\* Mutant: the token stays among those to recover on.
DropSymbol_Keeps ==
  /\ pc = "skip" /\ next.sym # NoToken /\ SkipStops
  /\ MatchingPositions = {} /\ next.sym # EOI
  /\ UNCHANGED vars

\* The token in hand fits nowhere: look for another one.
DropSymbol ==
  /\ pc = "skip" /\ next.sym # NoToken /\ SkipStops
  /\ MatchingPositions = {} /\ next.sym # EOI
  /\ recovery' = [recovery EXCEPT !.syms = @ \ { next.sym }]
  /\ UNCHANGED << lexVars, pending, next, stack, recovering, shifts, events,
                  reported, errors, pc >>

GiveUp ==
  /\ pc = "skip" /\ next.sym = EOI /\ MatchingPositions = {}
  /\ Flush(next.end)
  /\ recovery' = NoRecovery
  /\ pc' = "failed"
  /\ UNCHANGED << lexVars, next, stack, recovering, shifts, errors >>

-----------------------------------------------------------------------------
Parse ==
  /\ InLoop
  /\ \/ \E r \in Rule : ReduceBy(r)
     \/ \E q \in State : ShiftTo(q)
     \/ Cancel
     \/ \E goOn \in BOOLEAN : ReportError(goOn)
     \/ RepeatedError

recoverFromError ==
  \/ NoRecoveryPoint
  \/ StartRecovery
  \/ SkipToken
  \/ \E n \in DOMAIN stack : Recover(n)
  \/ DropSymbol
  \/ GiveUp

Finished == Returned /\ UNCHANGED vars

Next == Lex \/ Parse \/ Accept \/ recoverFromError \/ Finished

Spec == Init /\ [][Next]_vars

\* The loop runs in one goroutine that nothing blocks, over a finite text.
FairSpec == Spec /\ WF_vars(Lex \/ Parse \/ Accept \/ recoverFromError)

-----------------------------------------------------------------------------
(***************************************************************************)
(* Properties.                                                             *)
(***************************************************************************)
SymbolSet == [sym : Terminals \union Ignored \union {NoToken}, off : Nat, end : Nat]
EntrySet  == [sym : Terminals \union Nonterminals \union {NoToken},
              off : Nat, end : Nat, state : State]

\* Every variable keeps the shape the code gives it; in particular the stack
\* is never empty and `recovering` stays between 0 and 4.
TypeOK ==
  /\ input \in Inputs
  /\ offset \in Nat
  /\ lexed \in Seq(SymbolSet) /\ ignored \in Seq(SymbolSet) /\ pending \in Seq(SymbolSet)
  /\ next \in SymbolSet
  /\ stack \in Seq(EntrySet) /\ stack # <<>>
  /\ recovering \in 0 .. 4
  /\ shifts \in Nat
  /\ recovery \in [pos : SUBSET (DOMAIN stack), syms : SUBSET Terminals, s : Nat, e : Nat]
  /\ events \in Seq([sym : NodeType \union Terminals \union Ignored \union {NoToken},
                     off : Nat, end : Nat])
  /\ reported \in Seq(SymbolSet)
  /\ errors \in Seq([off : Nat, end : Nat, at : Nat])
  /\ pc \in {"start", "parse", "recover", "skip", "accepted", "failed", "cancelled"}

\* The stack spells a path of the automaton from the start state, whatever was
\* cut off it and put on it by an error recovery.  A compressed goto row that
\* answered with its default for a state it does not know would leave it.
StackIsPath ==
  /\ stack[1].state = input.start
  /\ \A i \in 1 .. Len(stack) - 1 :
       << stack[i].state, stack[i + 1].sym, stack[i + 1].state >> \in Transitions

\* Flushing in the middle of an error recovery, at shifts and at the returns
\* neither loses, repeats nor reorders a token put aside: what was reported,
\* followed by what is pending, is exactly what was put aside.
IgnoredConserved == reported \o pending = ignored

\* When parse returns, the listener has been told of every token put aside.
\* It may not have been when the context was cancelled, or for those in front
\* of the token that a no-eoi input leaves unread.
NothingLeftPending ==
  pc = "failed" \/ (pc = "accepted" /\ input.eoi) => pending = <<>>

\* The ranges on the stack are well formed and follow one another, and the
\* token in hand is behind them, also after stack entries, skipped tokens and
\* nearby invalid tokens were folded into `error`.
StackRangesOrdered ==
  /\ \A i \in DOMAIN stack : stack[i].off <= stack[i].end
  /\ \A i, j \in DOMAIN stack : i < j => stack[i].end <= stack[j].off
  /\ next.sym \notin {NoToken, EOI} => Last(stack).end <= next.off

\* The token on which recoverFromError stops is consumed: the reductions that
\* reduceAll simulated for it are those the parser performs, so no syntax
\* error occurs before it is shifted.
RecoveredTokenIsConsumed == InLoop /\ recovering = 4 => CurAction # Error

\* The handler is not called again before four tokens were shifted since the
\* error it was last called for, however many errors were met in between.
ErrorsKeepApart ==
  \A i \in 1 .. Len(errors) - 1 : errors[i + 1].at >= errors[i].at + 4

\* `error` covers the broken part of the text: the stack entries it replaces,
\* and, if there are any, the skipped and the nearby invalid tokens.
ErrorCoversBrokenCode ==
  [][ \A n \in DOMAIN stack :
        Recover(n) =>
          LET err == Last(stack')
          IN  /\ \A i \in n + 1 .. Len(stack) :
                   err.off <= stack[i].off /\ stack[i].end <= err.end
              /\ recovery.s # recovery.e =>
                   err.off <= recovery.s /\ recovery.e <= err.end ]_vars

\* When a recovery begins, no entry of the stack is behind an invalid token
\* that `error` is to cover.  An empty reduction on a token that is then found
\* to be erroneous puts one there.
StackBeforeInvalid ==
  pc = "recover" /\ next.sym # NoToken =>
    \A i \in InvalidPending : Last(stack).end <= pending[i].off

\* The calls of the listener are those of Listener: nodes and ignored tokens
\* come in post-order, wherever the flushes of pending tokens fall.
Calls == INSTANCE Listener

ReportsInPostOrder == Calls!Spec

\* Whatever the tokens, parse returns: every turn of the recovery loop gets
\* closer to a token that is consumed or to the end of the text.
ParseReturns == <>Returned
=============================================================================
