------------------------------ MODULE Lookahead ------------------------------
(***************************************************************************)
(* Syntactic lookaheads `(?= A)` with memoization, as in                   *)
(* parsers/test/parser.go (recursiveLookaheads = true).                    *)
(*                                                                         *)
(* When the tables leave it to a lookahead which of two empty nonterminals *)
(* to reduce, the parser runs a second parser, over a copy of the lexer,   *)
(* that only answers whether the input A matches here.  That parser meets  *)
(* lookaheads of its own, so runs nest: `frames` is the stack of the Go    *)
(* calls parse > lookahead > lookahead > ...  Answers are memoized in a    *)
(* direct-mapped cache that forgets on collision.                          *)
(*                                                                         *)
(* What parse does besides (ranges, listener, pending tokens) is LRParser. *)
(***************************************************************************)
EXTENDS Integers, FiniteSetsExt, SequencesExt

CONSTANTS
  Ignored,        \* token types that fetchNext and lookaheadNext skip
  EOI,
  State, Start, End, \* the automaton; where parse starts and ends
  RuleLen, RuleSymbol,
  LookaheadRule,  \* rule -> the input to try and the symbols it decides between
  Action,         \* state -> shift, reduce, error, or a row that tells by the token
  Row,            \* rows of tmLalr: token -> action, or a row for one more token
  Transition,     \* <<state, symbol>> -> state (tmGoto, tmFromTo)
  Texts,          \* BOUND: the texts parsed, as sequences of token types
  CacheSizes,     \* BOUND: the sizes of the cache tried (lookaheadCacheSize)
  CheckEvery      \* the context is looked at once per CheckEvery shifts

Shift     == [op |-> "shift"]
Error     == [op |-> "error"]
Reduce(r) == [op |-> "reduce", rule |-> r]
Ask(k)    == [op |-> "row", row |-> k]

TableAction == {Shift, Error} \union { Reduce(r) : r \in DOMAIN RuleLen }
                              \union { Ask(k) : k \in DOMAIN Row }

NoState == -1
NoKey   == [off |-> 0, end |-> 0]
NoToken == [sym |-> "none", off |-> 0, at |-> 0]

ASSUME LookaheadAssumption ==
  /\ \A t \in Texts : Len(t) \in Nat
  /\ DOMAIN LookaheadRule \subseteq DOMAIN RuleLen
  /\ RuleLen \in [DOMAIN RuleLen -> Nat]
  /\ \A r \in DOMAIN LookaheadRule :
       /\ RuleLen[r] = 0
       /\ LookaheadRule[r].start \in State /\ LookaheadRule[r].end # 0
  /\ Start \in State
  /\ Action \in [State -> TableAction]
  /\ Transition \in [DOMAIN Transition -> State]
  /\ CheckEvery \in Nat \ {0}
  /\ CacheSizes \subseteq Nat \ {0}

\* The inputs of lookaheads are those of nonterminals without the end of the
\* text, one for each nonterminal (addSyntheticInputs), and the state behind a
\* nonterminal is entered with no other symbol.
ASSUME OneStartForEachEnd ==
  \A r, s \in DOMAIN LookaheadRule :
    LookaheadRule[r].end = LookaheadRule[s].end =>
      LookaheadRule[r].start = LookaheadRule[s].start

VARIABLES
  text,     \* what is parsed
  size,     \* number of slots in the cache
  frames,   \* the running parse and, on top of it, the running lookaheads
  cache,    \* slot -> the memoized answer in it; empty slots are left out
  runs,     \* history: number of lookaheads that were not answered by the cache
  shifts,   \* session.shiftCounter
  pc        \* "parse", or how parse returned

vars == << text, size, frames, cache, runs, shifts, pc >>

\* The slot of a key: any hash function does, this one has collisions as soon
\* as the cache is small.
Slot(k) == (100 * k.off + k.end) % size

(***************************************************************************)
(* The lexer.  A copy of it is a position in the text t.  A token remembers *)
(* its offset and where it leaves the lexer.                               *)
(***************************************************************************)
NextToken(t, at) ==
  LET left == { j \in at + 1 .. Len(t) : t[j] \notin Ignored }
  IN  IF left = {} THEN [sym |-> EOI, off |-> Len(t), at |-> Len(t)]
                   ELSE [sym |-> t[Min(left)], off |-> Min(left) - 1, at |-> Min(left)]

gotoState(q, s) == IF << q, s >> \in DOMAIN Transition THEN Transition[<< q, s >>]
                                                       ELSE NoState

lalr(k, s) == IF s \in DOMAIN Row[k] THEN Row[k][s] ELSE Error

(***************************************************************************)
(* The variables of the loop in parse, and of the one in lookahead: whether *)
(* it is the latter, the end state to reach, the token in hand, where the  *)
(* lexer stands, and the states on the stack.                              *)
(***************************************************************************)
Loop(nested, start, end, tok) ==
  [nested |-> nested, end |-> end, next |-> tok, at |-> tok.at, stack |-> << start >>]

ParseLoop(t)     == Loop(FALSE, Start, End, NextToken(t, 0))
AskedLoop(r, tok) == Loop(TRUE, LookaheadRule[r].start, LookaheadRule[r].end, tok)

cur(l) == Last(l.stack)

Goes(l)    == cur(l) \notin {l.end, NoState}
Matches(l) == cur(l) = l.end

\* The loop needs the next token and has none in hand.
Wants(l) ==
  /\ Goes(l) /\ l.next = NoToken
  /\ \/ Action[cur(l)].op \in {"row", "shift"}
     \/ ~l.nested /\ Action[cur(l)].op = "reduce" /\ RuleLen[Action[cur(l)].rule] = 0

\* A row that cannot decide by the token in hand sends the parser to a copy of
\* the lexer for one more token, and so on.
Decided(t, action, sym, from) ==
  LET decide[a \in TableAction, at \in 0 .. Len(t)] ==
        LET tok == NextToken(t, at)
        IN  IF a.op = "row" THEN decide[lalr(a.row, tok.sym), tok.at] ELSE a
  IN  IF action.op = "row" THEN decide[lalr(action.row, sym), from] ELSE action

Acts(t, l, a) ==
  /\ Goes(l) /\ ~Wants(l)
  /\ Decided(t, Action[cur(l)], l.next.sym, l.at) = a

Ended(t, l) == ~Goes(l) \/ Acts(t, l, Error)

Fetched(t, l) == LET tok == NextToken(t, l.at) IN [l EXCEPT !.next = tok, !.at = tok.at]

\* The last n symbols on the stack are replaced by s.
Reduced(l, n, s) ==
  LET base == SubSeq(l.stack, 1, Len(l.stack) - n)
  IN  [l EXCEPT !.stack = Append(base, gotoState(Last(base), s))]

\* The token is kept when it is the end of the text, or cannot be shifted.
Shifted(l) ==
  LET q == gotoState(cur(l), l.next.sym)
  IN  [l EXCEPT !.stack = Append(@, q),
                !.next = IF q = NoState \/ @.sym = EOI THEN @ ELSE NoToken]

-----------------------------------------------------------------------------
(***************************************************************************)
(* A frame is a Go call: its loop and, for a lookahead, the rule that asks *)
(* for it and the key to memoize its answer under.                         *)
(***************************************************************************)
Frame(loop, rule, key) == [loop |-> loop, rule |-> rule, key |-> key]

top == Last(frames).loop

Running == pc = "parse"
Nested  == Len(frames) > 1

TopBecomes(l) == frames' = [frames EXCEPT ![Len(frames)].loop = l]

Init ==
  /\ text \in Texts
  /\ size \in CacheSizes
  /\ frames = << Frame(ParseLoop(text), 0, NoKey) >>
  /\ cache = <<>>
  /\ runs = 0 /\ shifts = 0
  /\ pc = "parse"

Fetch ==
  /\ Running /\ Wants(top)
  /\ TopBecomes(Fetched(text, top))
  /\ UNCHANGED << text, size, cache, runs, shifts, pc >>

ReduceStep ==
  \E r \in DOMAIN RuleLen \ DOMAIN LookaheadRule :
    /\ Running /\ Acts(text, top, Reduce(r))
    /\ TopBecomes(Reduced(top, RuleLen[r], RuleSymbol[r]))
    /\ UNCHANGED << text, size, cache, runs, shifts, pc >>

ShiftToken ==
  /\ Running /\ Acts(text, top, Shift)
  /\ shifts' = shifts + 1
  /\ TopBecomes(Shifted(top))
  /\ UNCHANGED << text, size, cache, runs, pc >>

\* All the nested calls return the context's error; nothing is memoized.
Cancel ==
  /\ Running /\ Acts(text, top, Shift)
  /\ (shifts + 1) % CheckEvery = 0
  /\ shifts' = shifts + 1
  /\ pc' = "cancelled"
  /\ UNCHANGED << text, size, frames, cache, runs >>

-----------------------------------------------------------------------------
(***************************************************************************)
(* lookahead: answered from the cache, or by a new frame.                  *)
(***************************************************************************)
Chosen(r, ok) == IF ok THEN LookaheadRule[r].yes ELSE LookaheadRule[r].no

\* The first token of the lookahead: the one in hand, or the lexer's next.
FirstToken(t, l) == IF l.next = NoToken THEN NextToken(t, l.at) ELSE l.next

\* Mutant: without the end state.
Key_OffsetOnly(tok, r) == [off |-> tok.off, end |-> 1]

Key(tok, r) == [off |-> tok.off, end |-> LookaheadRule[r].end]

\* Mutant: an entry is taken for the answer without a look at its key.
cacheGet_AnyKey(k) == Slot(k) \in DOMAIN cache

cacheGet(k) == Slot(k) \in DOMAIN cache /\ cache[Slot(k)].key = k

WithEntry(k, ok) ==
  [s \in DOMAIN cache \union {Slot(k)} |->
     IF s = Slot(k) THEN [key |-> k, value |-> ok] ELSE cache[s]]

\* Mutant: only what matched is kept.
cachePut_Matches(k, ok) == cache' = IF ok THEN WithEntry(k, ok) ELSE cache

cachePut(k, ok) == cache' = WithEntry(k, ok)

\* The rule that the topmost loop is about to reduce with a lookahead's help.
Asks(r) == Running /\ Acts(text, top, Reduce(r))

AskCache ==
  \E r \in DOMAIN LookaheadRule : LET tok == FirstToken(text, top) IN
    /\ Asks(r) /\ cacheGet(Key(tok, r))
    /\ TopBecomes(Reduced(top, 0, Chosen(r, cache[Slot(Key(tok, r))].value)))
    /\ UNCHANGED << text, size, cache, runs, shifts, pc >>

AskParser ==
  \E r \in DOMAIN LookaheadRule : LET tok == FirstToken(text, top) IN
    /\ Asks(r) /\ ~cacheGet(Key(tok, r))
    /\ frames' = Append(frames, Frame(AskedLoop(r, tok), r, Key(tok, r)))
    /\ runs' = runs + 1
    /\ UNCHANGED << text, size, cache, shifts, pc >>

\* A lookahead returns; the caller finishes the reduction it asked for.
Answer ==
  /\ Running /\ Nested /\ Ended(text, top)
  /\ LET callee == Last(frames)
         below  == Front(frames)
     IN  /\ frames' = [below EXCEPT ![Len(below)].loop =
                         Reduced(@, 0, Chosen(callee.rule, Matches(top)))]
         /\ cachePut(callee.key, Matches(top))
  /\ UNCHANGED << text, size, runs, shifts, pc >>

Return ==
  /\ Running /\ ~Nested /\ Ended(text, top)
  /\ pc' = IF Matches(top) THEN "accepted" ELSE "failed"
  /\ UNCHANGED << text, size, frames, cache, runs, shifts >>

Finished == ~Running /\ UNCHANGED vars

Next ==
  \/ Fetch
  \/ ReduceStep
  \/ AskCache
  \/ AskParser
  \/ ShiftToken
  \/ Cancel
  \/ Answer
  \/ Return
  \/ Finished

Spec == Init /\ [][Next]_vars
=============================================================================
