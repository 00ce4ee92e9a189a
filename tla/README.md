# Textmapper in TLA+

Textmapper (`src/`) is a compiler generator written in Go: it reads a grammar
(`*.tm`), builds a lexer and an LALR parser as tables, and writes the program
that drives these tables from templates. The parser it generates for its own
language, in `parsers/tm`, is both an example of its output and the front end
of the tool. This directory holds TLA+ models of that program, the TLC
configurations that check them on small instances, and theorems about them with
proofs that TLAPS checks.

Line numbers refer to the sources of this repository; `PROJECT.json` maps each
definition to the lines it models.

- [The system](#the-system): inventory of the components, and what makes each correct
- [The modules](#the-modules): how state and actions correspond to the code
- [The runs](#the-runs): bounds, fairness, what they show
- [The proofs](#the-proofs)
- [What was found](#what-was-found)
- [The plan](#the-plan): what could come next, and what is left out

## The system

    *.tm --> parsers/tm --> compiler/ + syntax/ --> lex/  --> tables --+
             (lexer,         (names, types,         lalr/ --> tables --+--> gen/ --> files
              parser, AST)    templates, sets)        |                     |
                 ^                  ^             util/ (sets, graphs)   gen/templates
                 |                  |                                       |
                 +------------------+---- ls/ (language server)    parsers/* are its output

**Generated parser runtime** (`parsers/tm/parser.go`, `stream.go`, `listener.go`).
State: the parsing stack (symbol, range, LALR state), the token in hand
(`p.next`), the counter `recovering`, the tokens `pending` in the stream, the
lexer's position, and the locals of `recoverFromError`. Operations: reduce,
shift, report a syntax error, the recovery loop, `next` and `flush` of the
stream. It calls the lexer (pull), the error handler (which may stop it) and the
listener (push: nodes at reductions, ignored tokens at flushes). Hard: a
recovery rewrites the stack and consumes tokens in a loop that has to make
progress; ignored tokens are reported late and in part; ranges come from three
places. Correct when: the stack is a path of the automaton; every ignored token
is reported once and in order; ranges nest; errors are reported for exactly the
texts outside of the language and not in cascades; `parse` returns.

**AST builder** (`parsers/tm/ast/parse.go`). State: the stack of trees without a
parent. Operations: `addNode` (the listener), `build`. Correct when the tree is
the one the ranges define and nothing is lost.

**Lexer runtime** (`parsers/tm/lexer.go`, `lexer_actions.go`). State: offset,
scan offset, current rune, line. Operations: `Next`, `rewind`, skipping a nested
code block. Hard: backtracking to the last accepted token has to restore offset
and line together; accelerated loops skip runs of bytes.

**Lookahead runtime** (`parsers/test/parser.go`). Predicates on the input ahead
are parsed on a copy of the lexer and memoized in a lossy cache of 128 entries,
keyed by offset and end state. Correct when a cached answer is the answer a new
evaluation would give.

**JavaScript runtime** (`parsers/js/*_impl.go`). The stream inserts semicolons:
it looks at the parser's stack, may deliver an inserted token and delay the real
one, and sets the lexer back to split `>>`. Correct when a semicolon is inserted
exactly where the rules ask for it and no token is lost or delivered twice.

**LALR construction** (`lalr/`). State: item sets, transitions, lookahead sets,
a trie of multi-token lookaheads, a planner of runtime lookaheads, partitions of
states, an array in which lines are laid over each other. Correct when the
tables accept the language of the grammar, conflicts are all reported or
resolved as declared, minimization merges only equivalent states, and packing
rows does not change a lookup.

**Lexer generator** (`lex/`, `shiftdfa/`). Subset construction with priorities
and backtracking checkpoints. Correct when the DFA finds the longest match, and
of several rules the one with the highest priority.

**Grammar front end** (`syntax/`, `compiler/`, `grammar/`). Sequential passes
that rewrite a grammar: templates, lists, options, sets; name resolution.

**Code generator, command line, language server** (`gen/`, `cmd/textmapper/`,
`ls/`, `status/`). `gen` writes one file after another. The server keeps a map
of open documents, recompiles on every change and publishes diagnostics.

**Utilities** (`util/`). The set closure solves equations over token sets per
strongly connected component and reuses buffers; Tarjan's algorithm; integer
sets with complement; small helpers.

## The modules

### LRParser: parser.go and stream.go

The tables are CONSTANTS: `ActRow`/`DefAct` and `GotoRow`/`DefGoto` are the rows
of the compressed tables (a row maps the terminals whose cell was not the
default; `action > tmActionBase` is "the row is not empty"), the `Rule...`
functions are `tmRuleLen`, `tmRuleSymbol`, `tmRuleAction` and `tmRuleType` with
the sub-ranges `applyRule` reports.

| module | code |
|---|---|
| `next`, `sym = NoToken` | `p.next`, `symbol == noToken`; offsets stay after a shift as in the code |
| `stack`, `cur` | `stack`, and `state`, which always is the state on its top |
| `pending`, `Flush` | `stream.pending`, `flush`/`flushSlow` |
| `recovery` | `recoverPos`, `recoverSyms`, `s`, `e` |
| `pc` | where the code is: before the first `stream.next`, in the loop, entering `recoverFromError`, in its `for` loop, returned |
| `offset` and `Lex` | the lexer: any token after any gap |
| `events`, `reported`, `errors`, `lexed`, `ignored` | histories of the calls to the listener and the handler and of what was read |

| action | code |
|---|---|
| `LexIgnored`, `LexToken` | one turn of `TokenStream.next`, where the parser needs a token (`TokenWanted`) |
| `ReduceBy` | lines 93-129, with `applyRule` and `reportRange` |
| `ShiftTo`, `Cancel` | 130-157; the context is looked at once per `CheckEvery` shifts (512) |
| `ReportError`, `RepeatedError` | 159-176: the handler is called, or was called less than four shifts ago |
| `NoRecoveryPoint`, `StartRecovery` | 265-298 |
| `SkipToken` | a turn of `skipBrokenCode` |
| `Recover`, `DropSymbol`, `GiveUp` | the three ends of a turn of the loop at 299 |
| `Accept` | the loop's condition and `return nil` |

`Simulate` is `reduceAll` with its own bookkeeping of a shared stack prefix and
a private top. It is a recursive function, not a RECURSIVE operator, so that the
module can be proved about.

The lexer is not modelled here: it may return any token type at any distance.
Tokens have width one, EOI has width zero. `shifts` and `offset` are integers,
not 64-bit words; both are bounded by the length of the text.

`FinalStateAssumption` is what the parser needs from `lalr/compile.go` (299-328):
the final state of an input that ends with the text is a new state entered by
shifting EOI only.

### Listener, AstBuilder, ParserAst

`Listener` is the abstract specification of what a parser promises to whom it
reports: calls in post-order, the later range beside or around the earlier one.
`LRParser` is shown to implement it (`ReportsInPostOrder`, a refinement with
`events` mapped to itself), and `AstBuilder` is driven by it on its own: every
sequence of calls that `Listener` allows.

`AstBuilder` holds `builder.stack` as `roots`, and the chains of `firstChild` and
`next` as one sequence `kids` per node. `addNode` finds the two places the Go
loop stops at (`Start`, `End`) and splices; the three ways the code does that
in place are one.

`ParserAst` composes both as `ast.Parse` does: each step of the parser runs
`addNode`, one call after the other (`addNodes`), on the events of that step, synchronously; after an accepting return
`build` adds `File`.

### BlocksGrammar, MCLRParser, MCParserAst

`BlocksGrammar` has the tables of a grammar small enough for TLC that has what
makes recovery hard: nested blocks with a recovery scope, an error production,
empty rules at the start and at the end of a rule, nodes that are reported before
the rule they belong to is complete (a recovery drops them from the stack), a
sub-range with an empty symbol at its end, an input that ends with the text and one that does not (`no-eoi`). `Strict*` are
its LALR(1) tables. `Reducing*` are those of the option `defaultReduce`, where
`lalr/optimize.go` replaces a state's error entries by its most common
reduction. It also has the automaton (`GTransitions`, `GItems`) and a recognizer of the
language that knows nothing of tables (`Sentence`). `MCLRParser` joins the
constants and the specification. `MCParserAst` has two callers of the builder:
the parser, as in `ParserAst`, and anyone who keeps to post-order.

### Lookahead, LookaheadGrammar, MCLookahead: parsers/test/parser.go

With `recursiveLookaheads`, a parser that meets a lookahead rule starts another
parser on a copy of the lexer, which may meet lookahead rules itself. `frames` is
the stack of the Go calls `parse`, `lookahead`, `lookahead`, ...; each frame has the
variables of its loop (`Loop`: stack, token, position, end state) and what it was
called for. `cache` is the session's array with
the key of each slot, `size` how many slots it has.

| action | code |
|---|---|
| `Fetch` | `fetchNext`, `lookaheadNext`: ignored tokens are skipped |
| `ReduceStep`, `ShiftToken` | a turn of the loop of `parse` or `lookahead`; shifts are counted for both |
| `AskCache`, `AskParser` | `lookaheadRule` with a hit, and with a miss that starts a run |
| `Answer` | the loop of a lookahead ends; its answer is stored and used |
| `Cancel` | the context is looked at after `CheckEvery` shifts |
| `Return` | `parse` returns |

`LookaheadGrammar` has the tables of a grammar with two inputs that ask each other
and a rule that needs two tokens; `MCLookahead` reads that grammar by recursive
descent, with no tables and no memo. That the tables know a lookahead by its end state
alone is the assumption `OneStartForEachEnd`: `addSyntheticInputs` (compiler.go:97)
adds one input for each nonterminal, and the state behind a nonterminal is entered with no other symbol.

### JsParser, JsGrammar, MCJsParser: parsers/js

`TokenStream.next` as `TakeToken`/`TakeDelayed`: it decides in front of every
token whether a semicolon is inserted (`SemicolonBefore`), by asking `reduceAll`
whether the parser would accept the token (`Unacceptable`), by line breaks
(`Restricted`), and by what is forbidden (`Forbidden`). While the parser recovers
it has no stack to ask, and inserts by simpler rules. `next`, `delayed`,
`consumed` and `at` are the token in hand, the one behind an inserted semicolon,
what the parser shifted or skipped, and the lexer's position. The loop, `skipBrokenCode` and
`recoverFromError` with its second attempt behind a semicolon are the other
actions. What is as in LRParser (ranges, listener) is left out.

`JsGrammar` has the LALR(1) tables of a fragment of `js.tm` with every kind of
position the stream treats in a special way. `MCJsParser` defines the token
sequence that the rules of the language (ECMA-262, 12.9.1) make of a text
(`Corrected`), from the grammar alone.

### Lalr, LookaheadPlanner, Tries, Minimize, PackedTables, LalrCompile, MCLalr: lalr/

One behaviour is one call of `Compile`; the initial state picks the grammar.
`stage` says which pass is next; the modules extend each other in the order of
the passes.

| module | passes |
|---|---|
| `Lalr` | `computeStates` (one action per state, then the final states), both steps of `buildLA`, `populateTables` with `ruleAction` and precedence |
| `LookaheadPlanner` | `newLookaheadRule` and `pickLookahead`, which `populateTables` calls for each set of lookaheads on one terminal; no state |
| `Tries` | `resolveWithLookahead` and the trie builder: conflicts of reductions that two or three tokens decide |
| `Minimize` | `computeRuleClasses`, the partition by actions and its refinement, and how the tables of the classes are rebuilt; or no minimization |
| `PackedTables` | `Optimize`, with and without `defaultReduce`: default entries, lines, their places in one array; and the lookups of a generated parser |
| `LalrCompile` | `Compile` as a whole: the passes one after the other, and what the last two preserve |

Lookahead sets are sets of transitions, as with `Options.Lookahead > 1`; with one
token the code keeps their terminals alone, which are the same. `MCLalr` runs
parsers over each form of the tables and compares: with the texts that the rules
derive (`Derived`), with canonical LR(1) items merged by state (`LR1`), with all
parse trees of a text (`Trees`), and with the predicates of the lookaheads.

### Closure, TokenSets, MCTokenSets: util/set, util/graph, syntax/set.go, nullable.go, compiler/syntax.go

`Closure` is one computation of a set of equations: `NewNode` and `Include` build
the nodes and their edges; `ClosureStep` is Tarjan's algorithm call by
call, `SimpleClosure` for components without complements and intersections, and
`slowClosure` round by round. The reused buffer is part of the model: `View` is
what a slice of it shows after the next call wrote to it. `ClosureSpec` is a Closure with
any client: whatever the client builds, sets include sets of the same Closure
(`Equations`) when `Compute` begins, and stay untouched by it until it ends.

`TokenSets` is where the equations come from: the two passes of `compiler/` that
load named sets and nonterminals (`LoadNamed`, `LoadDirectives`,
`LoadNonterms`), the set of nullable nonterminals, the reachable rules, and
`ResolveSets` with its translation of set expressions and the edges between
first, last, follow and precede (`Expand`). `MCTokenSets` defines the sets by
relations between symbols, as the least ones.

### LexTables, Lexer, MCLexer: lex/, parsers/tm/lexer.go, parsers/js/lexer.go

`LexTables` compiles rules as `lex.Compile` does: instructions (`serialize`),
input symbols (`Symbols`), the subset construction (`StartStates`,
`ComputeState`), and the numbering of states, actions and checkpoints in one range
(`Number`). `Lexer` runs on these tables: `Next` with the accelerators for spaces
and self-loops, the table, checkpoints and `rewind`, lines. `MCLexer` defines the
tokens by the places where a match of a rule can end.

## The runs

| run | distinct states | checks |
|---|---|---|
| `LRParser_recovery` | 105 thousand | `TypeOK`, `StackIsPath`, `IgnoredConserved`, `NothingLeftPending`, `StackRangesOrdered`, `ErrorsKeepApart`, `ErrorFreeIffSentence`, `RecoveredTokenIsConsumed`, `ReportsInPostOrder`, `ErrorCoversBrokenCode`, `ParseReturns` |
| `LRParser_defaultReduce` | counterexample | `ErrorCoversBrokenCode` |
| `ParserAst_tree` | 253 thousand | `AstTypeOK`, `TreeMatchesRanges`, `SiblingsInOrder`, `RootsLieOnStack`, `TreeIsComplete` |
| `Lookahead_memo` | 180 thousand | `MemoTruthful`, `MemoIsTransparent`, `EachRunsOnce` |
| `JsParser_semicolons` | 255 thousand | `EveryTokenOnce`, `SemicolonsByTheRulesApart`, `RecoveredTokenIsConsumed`, `ReturnsInTime` |
| `JsParser_forHeader` | counterexample | `NoSemicolonInForHeader` |
| `Lalr_tables` | 127 thousand | `LookaheadsExact`, `TablesRecognizeLanguageApart`, `TreesFollowPrecedence`, `LookaheadsDecide`, `MergedStatesAgreeApart`, `PackedTablesAgreeApart`, `PackedTablesRecognizeLanguage` |
| `Lalr_sharedEnd`, `Lalr_deepFollow` | counterexamples | `TablesRecognizeLanguage` |
| `TokenSets_resolved` | 186 thousand | `SetsAsDefinedApart`, `OnlyCyclesFail`, `ComponentsInOrder`, `RoundsOnlyAdd`, `ClosureSpec` |
| `TokenSets_sharedBuffer` | counterexample | `IntersectionsAsDefined` |
| `Lexer_tokens` | 239 thousand | `TokensAsDefined`, `LinesCounted`, `IdenticalRulesReported`, `BacktrackingReported`, `EmptyTextReported` |

**LRParser_recovery** — comments, invalid tokens and parser tokens in any order,
both inputs, both answers of the error handler, a context cancelled at any look
at it. `StackIsPath`: the stack spells a path of the automaton, also after
recoveries cut it. `IgnoredConserved`, `NothingLeftPending`: ignored tokens are
reported once, in order, and all of them by the time `parse` returns.
`StackRangesOrdered`, `ReportsInPostOrder`: ranges follow one another and nest.
`ErrorCoversBrokenCode`: what is dropped lies within `error`.
`ErrorFreeIffSentence` compares the whole parser with a recognizer that has no
tables, in both directions. `ErrorsKeepApart` states what `recovering` is for.
`RecoveredTokenIsConsumed` compares the simulation of `reduceAll` with what the
loop then does. `ParseReturns` is liveness under `FairSpec`, weak fairness of
"some step": the loop is one goroutine that waits for nobody, and texts are
finite (`MaxTokens`), so fairness of a single unblocked process is all that is
used.
Bounds: texts of up to five tokens, enough for an open block with an item in it,
broken by a token that is skipped, and a recovery inside the scope, and for two
errors in one text. Reductions, recoveries and flushes depend on tokens next to
one another and on the stack's top, not on the length of the text. `CheckEvery`
is 2 here, so that the cancellation occurs, and 512 as in the code elsewhere.

**ParserAst_tree** — the parser drives the builder over texts of four tokens, with
gaps of width zero and one, so adjacent tokens, empty symbols and separated ones
all occur; or anyone does, with up to four nodes over a text of length four
(`Width`, `MaxNodes`). `TreeMatchesRanges` compares the builder with a parent that
is defined from the ranges alone; `RootsLieOnStack` relates the builder's
stack to the parser's, and `TreeIsComplete` speaks of the finished tree; both also hold where anyone
calls, the first because there are no events then.

**Lookahead_memo** — all texts of up to four tokens, with comments, and longer ones
that nest; caches with one slot (everything collides), with two, and with so many
that nothing is forgotten. A cached answer is the grammar's answer for that
offset, whoever asked first (`MemoTruthful`); the cache does not change what is
accepted (`MemoIsTransparent`); with a large one no lookahead runs twice at a
place (`EachRunsOnce`), which is what keeps nested lookaheads from taking
exponential time.

**JsParser_semicolons** — ten families of texts, each with all short sequences of
a few tokens in the middle, with and without line breaks: statements, blocks,
postfix operators, `for` headers, `do while`, generics with `>>`, calls, arrows.
Up to the first error the parser reads what the rules of the language make of the
text, and only an incorrect text is an error. Two rules which `stream_impl.go`
reads differently are set apart in the definition (`EmptyOrHeader`,
`LineBreakForbidden`); the first of them is the run `JsParser_forHeader`.
Termination is stated as a bound on the number of steps, `8 * (length + 2)`, which
is stronger than liveness and needs no fairness.

**Lalr_tables** — every grammar is compiled with one, two and three tokens of
lookahead (`Depths`), with and without minimization and `defaultReduce`.
`SmallGrammars`: all grammars of three shapes with two nonterminals and at most
two symbols in a rule. `DeepGrammars`: two reductions in conflict that up to three
more tokens tell apart. `LookaheadGrammars`: three lookaheads over two inputs with
all predicates, in one and the other order. `ExprGrammars`: operators with every
associativity. `OtherGrammars`: empty symbols in a row, two inputs, markers,
greedy items. Languages are compared on all texts of up to `MaxLen` = 4
terminals, trees on expressions of up to `ExprLen` = 7. Two symbols are enough
for a rule to begin or end with an empty one and for a cycle of nonterminals; the
deeper cases have rules of three and four. What the assumptions of the two
violated properties set apart (`EndsAreSeparate`, `FollowsSuffice`), and
`BasesAreUnique` and `SignaturesTellApart`, are conditions on the tables at hand,
which most of these grammars meet (the last one all of them, but for
`SharedSignature`, which no run uses): of the states with a trie in `DeepGrammars` several hundred have
sufficient follow sets, some of them with tries of depth three.

**TokenSets_resolved** — a skeleton grammar of five terminals with every operator
on every symbol and on pairs of them, sets that refer to each other in every way
(also through their own complements), and deeper expressions, 4532 grammars in
all. The results are the least sets that satisfy the definitions; an error is
reported exactly for a set that depends on its own complement; Tarjan's algorithm
hands over whole components in order; a round of `slowClosure` only adds, which
over a finite set is why it ends. Each step is one of `ClosureSpec`, so the equations
are ones that the theorem of `Closure_proofs` is about. Two known defects are set apart (`NamesLaterSet`,
`StartsInverse`): the run says nothing of sets that name a later one, nor of
intersections that start with a complement, the ones that `TokenSets_sharedBuffer` is about.

**Lexer_tokens** — some 530 sets of rules: all pairs of twelve patterns at equal
and different precedence, without backtracking, with rules that accept nothing,
with spaces, with an invalid token, with three rules, with two start conditions,
and with patterns such as `a(\nb)?` and `a([\nb]+a)?` that read newlines, one by
one or in a run, and give them back to the checkpoint before them, to be read again as
tokens or spaces (`GiveBackRules`: there `rewind` has to take lines back); all texts of
length three over four characters, one of which takes more than one byte, and four with
a fifth that does too. `MinSelfLoopBytes` is 2 instead of 8 so that accelerators occur in that
alphabet. The words on which the three error messages are compared have up to
three characters and the end of the text. These are safety properties; that
`Next` returns is not claimed, and does not hold for rules that match the end of
the text repeatedly (see below).

No run turns deadlock checking off: what has returned, or is compiled, stutters
explicitly.

Each property is checked against a mutant: an operator such as `Flush_DropsRest`
or `Includes_AnyRest` that changes one definition the way a slip in the code
would, and which the run detects (`mutants` in `PROJECT.json`). The operators
stand in the modules next to what they change.

## The proofs

TLC checks the small instances above; the theorems hold for every value of the
constants that satisfies the ASSUMEs, so for every table, text, grammar or sequence
of calls. Each follows the same plan: an inductive invariant, found to hold by TLC
first; that it holds initially; that each action preserves it; that it implies the
property. `CommonLemmas` has what several modules need: the least element of a set of numbers
(`LeastNatural`, from the well-foundedness of `<`), minimum and maximum, and `LoopExists`. That lemma says that a function which is defined by what it does in one
step exists, also where the loop does not end (any value will do there), so that
`reduceAll` can be reasoned about step by step without induction over its runs.

| module | theorem | says, for all constants |
|---|---|---|
| `LRParser_proofs` | `TypeCorrect` | `[]TypeOK` |
| | `IgnoredTokensConserved` | `[]IgnoredConserved` |
| | `NothingIsLeftPending` | `[]NothingLeftPending` |
| | `ErrorsAreKeptApart` | `[]ErrorsKeepApart` |
| | `RecoveredTokenConsumed` | `[]RecoveredTokenIsConsumed` |
| | `RangesOrdered` | `[]StackBeforeInvalid => []StackRangesOrdered` |
| | `ErrorCovers` | `[]StackBeforeInvalid => ErrorCoversBrokenCode` |
| | `StackSpellsPath` | `[]StackIsPath`, for the tables of every automaton |
| | `ReductionsFitTheStack` | `[](RuleLen[r] < Len(stack))` whenever `r` is to be reduced |
| | `SimulationsFitTheStack` | the same for the reductions that `reduceAll` simulates |
| | `PostOrderReports` | `[]StackBeforeInvalid => ReportsInPostOrder`, the refinement of `Listener` |
| | `RangesWithoutInvalidTokens` | these three without the condition, where `Invalid = {}` |
| `JsParser_proofs` | `TokensConsumedOnce` | `[]EveryTokenOnce` |
| | `RecoveredTokenConsumed` | `[]RecoveredTokenIsConsumed` |
| `ParserAst_proofs` | `TreeIsThatOfTheRanges` | `[](AstTypeOK /\ TreeMatchesRanges)` |
| | `SiblingsStayInOrder` | `[]SiblingsInOrder` |
| | `TreeIsAForest` | parser and builder, without a condition: `[](AstTypeOK /\ IsForest(builder))` |
| | `RootsFollowTheStack` | parser and builder: `[]StackBeforeInvalid => []RootsLieOnStack` |
| | `TreeHoldsTheText` | parser and builder: `[]StackBeforeInvalid => []TreeIsComplete` |
| | `TreeOfTheParser` | parser and builder: `[]StackBeforeInvalid => [](AstTypeOK /\ TreeMatchesRanges /\ SiblingsInOrder)` |
| | `TreeWithoutInvalidTokens` | these three without the condition, where `Invalid = {}` |
| `LalrCompile_proofs` | `PackedTablesCorrect` | `[]PackedTablesAgreeApart` |
| `Minimize_proofs` | `MergingIsSound` | `[]MergedStatesAgreeApart` |
| `Closure_proofs` | `ComponentsFound` | `ClosureSpec => []ComponentsInOrder` |
| `Lookahead_proofs` | `CacheIsTransparent` | `[]AnswersWithoutCache` |
| | `CacheNeverLies` | `[]CacheTruthful` |
| | `AnswersAreUnique` | no loop has two answers without a cache |

**LRParser_proofs.** The tables are any that satisfy the ASSUMEs of `LRParser`.

- `TypeCorrect`. `TypeOK` alone is not inductive: a recovery
  keeps positions in `recovery.pos` while the stack could change under them. The
  strengthening `TypeInv` adds that the locals of `recoverFromError` are in their
  initial state outside of its loop, and what `events` may contain. The arithmetic is in lemmas
  on the right-hand side of a rule (`RhsType`), ranges (`RangeType`,
  `RuleEventsType`) and lookups.
- `IgnoredTokensConserved`. Only `LexIgnored` and
  `Flush` touch the sequences; `FlushConserves` shows that a flush moves a prefix
  of one to the end of the other, and `StepsThatFlush` which steps do so.
- `NothingIsLeftPending`. Inductive with
  `PendingInv`: a pending token ends at or before the end of the token in hand,
  so that a flush up to that token is complete; without a token in hand, tokens
  are pending only while the parser waits for the lexer (`TokenWanted`), which
  rules out a failure in that state (`SomePositionIsTried`); and nothing is
  pending in the final state of an input that ends with the text, which is why
  `FinalStateAssumption` is needed: that state is entered by a shift of EOI only.
- `ErrorsAreKeptApart`. The strengthening `ApartInv`
  relates the counter to the past: while the parser runs, each reported error lies
  at least `4 - recovering` shifts back. A report needs `recovering = 0`.
- `RecoveredTokenConsumed`. After a recovery (`recovering = 4`) the parser is on
  the run that `reduceAll` simulated: the outcome from the configuration that its
  stack is now in is that the token fits. `Configuration` is the pair of variables
  `size` and `stack2` of the Go code; the invariant relates it to the real stack
  (`OnRun`), and a reduction of `parse` takes the stack to the configuration that
  `Reduced` gives, also where the simulation pops through its copy into the
  stack itself, the hazard at parser.go:194.
- `StackSpellsPath`, `ReductionsFitTheStack`. `AutomatonAssumption` relates the tables to
  the automaton they were made from, which the parser does not have: its transitions and the items of its
  states. The tables shift along transitions only, reduce a rule only in a state that has
  its item with the dot at the end, and their goto rows give the gotos that exist; what they
  give for others, the compressed rows' defaults, is left open. That states are
  merged (`lalr/minimize.go`) does no harm, with the items that the merged states share. TLC
  checks the assumption for both tables of `BlocksGrammar`. `StackIsPath` is
  inductive with types. The step to show is a reduction: by `ItemGoesBack` (an induction down
  the stack, as a least counterexample) the dot of a complete item goes back one symbol with each entry, so it gets
  to the front of the rule before the stack ends, in a state which then has the goto. The same lemma shows that
  the slice expressions of `parse` (parser.go:100) never leave the stack, so that the guard
  of `ReduceBy` that stands for them excludes nothing. `SimulationsFitTheStack` says it of
  `reduceAll`, which works on a copy and a size: every configuration its loop meets stands for
  a path (`OnPath`), one that the parser would have on its stack (`OnRun`). "Meets" is the least
  set that the turns of the loop are closed under, which needs no induction.
- `RangesOrdered`, `ErrorCovers`, `PostOrderReports`. One invariant, `RangesInv`,
  places everything that has a range: the entries of the stack follow one another and
  end before `Limit`, the start of the token in hand (`StackFits`); the pending
  tokens follow one another, and none lies across a stack entry (`PendingFits`); a
  call once made lies within or beside each stack entry, each pending token and
  each later call (`EventsFit`). A reduction's range joins whole
  entries, and so meets the calls properly (`SpansMeet`, `RuleEventsParts`). The hard step is
  `Recover`, where `error` gets bounds from three places, the stack, the skipped tokens and
  the invalid ones: each bound is `Clear` of every range it could cut in two.
  What the proof asks for is what the run
  `LRParser_defaultReduce` violates: when a recovery starts, the top of the stack must not end
  behind an invalid token that is about to be covered. This is
  `StackBeforeInvalid`, a statement about states in which `recovery.s` and `recovery.e`
  are not computed yet; the theorems assume it, and only `StartRecoveryRanges` uses
  it. It depends on the tables: no empty rule is reduced on a token that
  is found to be an error afterwards. TLC finds it true in all
  104,692 states of `LRParser_recovery.cfg` when it is added to the invariants, and
  false with the tables of `LRParser_defaultReduce.cfg`. Where `Invalid = {}` it
  is true by definition; those are the grammars whose listener does not ask for
  invalid tokens (the template drops them, gen/templates/go_parser.go.tmpl:838), so that
  `RangesWithoutInvalidTokens` has no condition but the ASSUMEs. One of these says
  that the nodes within a right-hand side are reported left to right and inner ones first:
  that is how the grammar compiler lists them (compiler.go:493-515).

**JsParser_proofs.** `TokensConsumedOnce`. The strengthening `TokenInv` follows a
token through the places it passes: the consumed symbols join one another and agree with the
text (`>>` split or whole), the one in hand starts where they end (`HandFollows`), a delayed one
where that ends (`DelayedFollows`), and the lexer stands behind the last of these
(`LexerStandsBehind`). A token is delayed only behind an inserted semicolon of
length zero, which is why the second attempt of a recovery, which skips the semicolon,
loses nothing; and the end of the text, once consumed, stays in hand.

`RecoveredTokenConsumed`. `RecoveryInv` says that while the counter is at four and the parser runs, the token in
hand is one that `reduceAll` accepts from the stack as it is (`RecoveredFits`). Recovery establishes
that for the token it chose, which in the second attempt is the delayed one; a reduction keeps
it, because it is the first of those that `reduceAll` makes (`ReducedUnfolds`, from
`LoopExists`), and a shift lowers the counter. Gotos are total, as in the packed tables (`DefGoto`), so no
assumption on what the tables accept is needed.

**ParserAst_proofs.** First the builder alone, where the calls are all that `Listener` allows. The invariant
`TreeInv` has the three properties in it, and that the ranges on the stack are
disjoint and ascending. From the order alone the two loops of
`addNode` stop at places that divide the stack into the trees before the node, inside it and
behind it (`StartDivides`, `EndDivides`); post-order gives that the ones in the
middle lie inside the new range (`AdoptedAreInside`), and so that no later node
changes the parent of an earlier one (`ParentOfAppend`). Empty ranges, which touch two
neighbours, are why each of these is a lemma.

`TreeIsAForest` asks nothing of the ranges. `RangesOrdered` and the theorems on the tree below need
`StackBeforeInvalid`, which some tables break; nothing is known of the order of the
ranges that their parser reports. What `addNode` makes of them is still a forest (`IsForest`): it
takes a stretch of the stack, whichever (`PlacesOnStack`), gives it to the new node and
puts that in its place (`RootsAfter`), so a node leaves the stack when, and only when, it gets its one
parent, added later. The whole of `IsForest` is the inductive invariant: the last two of its parts need each
other. No run of its own checks `IsForest`; in `ParserAst_tree` it follows from
`TreeMatchesRanges` and `SiblingsInOrder`.

Then the parser as the caller (`AstParseSpec`). `ParserTakesSteps` says that `ParserAst`
implements `LRParser`, so that the invariants of the parser hold in it, post-order of the calls
among them (`CallsInPostOrder`). A step of the parser makes several calls, folded into one
by `addNodes`; `FoldAddsInOrder` shows that the fold is a sequence of
calls (the recursive function inside of `FoldLeft` exists, step by step with
`LeastNatural`), and `AddCalls` takes the builder's invariant along it.
`ToldInv` relates the two: the builder's nodes are the parser's events, number by
number. With it, `RootsFollowTheStack` is a fact about the parser alone (`NodesOnStack`, at the
end of `LRParser_proofs`): every node that was ever reported and is not empty lies
within one entry of the stack. A reduction's entry covers the entries it replaces but for
empty ones at its end, and `error` covers what it drops, which is where
`StackBeforeInvalid` comes in again; it also needs the names of nodes and tokens to
be distinct (`SymbolAssumption`), as a comment that lies between two entries is no node.
`TreeHoldsTheText` adds the last call, `File`, by the same lemmas.

**LalrCompile_proofs**, for every grammar that satisfies `GrammarAssumption`.
`Compiling` says what each pass leaves to the next one: items, states
numbered without gaps, transitions between them, one action per state, sorted rows of pairs.
Rows come out of a fold and a recursive function; `ActionOfState` needs their range only.
`Packing` is the invariant of `pack`: each line that was placed is stored at its base in full
(`LinesStored`), and every used cell belongs to the line whose base it was laid
on (`TableOwned`). A cell whose `check` fits therefore comes from a line with the same
base, which is the same line if bases are unique (`BasesAreUnique`); that
`search` puts no line over another one is `SearchFindsRoom`. The condition
is needed: optimize.go:418 can break it, see below.

**Minimize_proofs** extends them. `Numbered` gives equal numbers to equal signatures and no others
(`NumberedTells`), in the order of first appearance, so that inputs keep their numbers
(`NumberedInOrder`). A round that finds as many classes as the one before has the same classes
(`EquallyFine`, by counting), so that states of one class have successors in one class on every symbol
(`ConvergedIsCongruence`). Together with equal signatures that gives
`MergingIsSound`, whichever member a class takes its rows from. The
hypothesis `SignaturesTellApart` came out of this proof: without it the theorem
is false (see below).

**Closure_proofs** proves Tarjan's algorithm as the code runs it, for every graph: the active calls of
`strongConnect` are explicit, and `slowClosure` may change values between any two
of its steps. `Reaches(g, v, w)` says that every set with `v` that no edge leaves has
`w` in it; `ReachableIsReaches` shows that the fixpoint that TLC computes is that relation (a set of
largest cardinality for which it is not would have a larger one). The invariant `Searching` has, besides types,

- that numbers ascend along the stack and along the active calls, each of which is at the
  edge that leads to the next one (`StackSorted`, `CallsSorted`, `CallsChain`);
- that edges which were followed lead to visited nodes, and those of nodes that left the
  stack to others that left it (`SeenVisited`, `FinishedClosed`);
- that an active call reaches what lies above it on the stack, and everything on the stack
  reaches an active call below it (`CallsReach`, `StackReaches`);
- that `lowLink` is not above the number of any stack entry that the call's part of the stack
  has a followed edge to, and is the number of one that the call reaches (`LowEnough`, `LowReached`).

At a root no edge therefore leaves the component downwards (`NothingLeavesComponent`), which with
`FinishedClosed` makes the component exact. There is one lemma per step: `EnterKeeps`,
`CrossEdgeKeeps`, `ReturnInsideKeeps`, `PopKeeps`; the last three share `GoOn`. That the test of
`onStack` is needed for `LowReached` is what the mutant `CrossEdge_Anywhere` shows.

**Lookahead_proofs** proves the comment at parser.go:69-71, "a miss only costs time, never
correctness", for all tables, whether or not they are those of a grammar. The runs compare the memo with one grammar;
here the standard is the parser without a cache, for the same tables. It is given as a relation, `Answers(t, l, v)`: from
the state `l` of a loop on the text `t` that parser ends with the answer `v`. It is the smallest
relation closed under the steps of the loop (`Follows`), where a lookahead is
answered by the relation itself; loops that do not end have no answer in it, and none has two
(`AnswersAreUnique`). The invariant `IInv` says that

- every entry of the cache is the answer of each lookahead with its key (`CacheTruthful`). That
  needs two facts: an offset determines the token at it (`TokensByOffset`), and an end state the
  start state (`OneStartForEachEnd`); together they are `OneLookaheadPerKey`;
- every nested call has the rule and the key that its caller waits for, and whatever its
  loop will answer is the answer of the lookahead that was asked for (`CallsServe`). So an answer
  may be stored however often the same key was stored or evicted while the call ran.

A step of the topmost loop, a hit included, is then one lemma (`TopGoesOn`). Nothing in the proof
looks into `Slot`, so it holds for every hash function. A cancelled parse returns no answer, and
memoizes none.

What is only model-checked, and why:

- Liveness (`ParseReturns`) and step bounds (`ReturnsInTime`): liveness is
  beyond TLAPS here, and a bound on the number of steps needs tables in
  which reductions end.
- What depends on the tables being those of a grammar:
  `ErrorFreeIffSentence`, `LookaheadsExact`, `TablesRecognizeLanguageApart`,
  `TreesFollowPrecedence`, `LookaheadsDecide`, `PackedTablesRecognizeLanguage`,
  `MemoTruthful`, `MemoIsTransparent` (the grammar's answers, where `Lookahead_proofs` has those of the
  tables), `EachRunsOnce` (no lookahead may ask for itself), `SemicolonsByTheRulesApart`, `TokensAsDefined` and the
  reports of `LexTables`. They speak of derivations or of recursive functions, and a proof
  is an induction over those, which the installed provers cannot instantiate.
- `StackBeforeInvalid`, the condition of the theorems on ranges and trees, which depends on the tables: no empty rule may be
  reduced on a token that is found to be an error afterwards.
- The values of the token sets (`SetsAsDefinedApart`, `OnlyCyclesFail`, `RoundsOnlyAdd`) and the lexer:
  folds over sequences and RECURSIVE operators, whose results would need an induction.

## What was found

Five statements of the repository that the code does not keep, each a run that
ends in a counterexample; the details are under `findings` in `PROJECT.json`.

- `LRParser_defaultReduce`: with `defaultReduce = true`, `recoverFromError`
  (parser.go:327) replaces the start of `error`, which was widened to cover
  invalid tokens, by the offset of an empty nonterminal behind them. The trace
  ends with an `error` at `[3, 2]`. It takes an empty reduction on the erroneous
  token, which `defaultReduce` allows everywhere; without the option it needs a state whose only action is that
  reduction, which looks at no token, or a lookahead that is only right in another of the
  contexts that LALR merged into the state. The strict tables of `LRParser_recovery` have
  no such state, and the property holds. The shipped tm and js
  grammars do not use the option.
- `JsParser_forHeader`: the check that no semicolon is put into the header of a
  `for` looks at a state in which the reductions before the semicolon were not
  made (stream_impl.go:137).
- `Lalr_sharedEnd`: the state that ends an input may be entered elsewhere, and may
  not look at the next token (compile.go:325).
- `Lalr_deepFollow`: with more than one token of lookahead, the follow sets of
  transitions on terminals are used but not completed at the ends of rules
  (compile.go:610), so a trie resolves a conflict silently and rejects a sentence.
- `TokenSets_sharedBuffer`: an intersection that starts with a complement is
  overwritten while it is read (closure.go:161).

Seen while modelling, without a run of their own:

- `lalr/compile.go:573`: the grammar `S: a .greedy b | a .greedy b c | A d; A: a b`
  ends the program with "internal error" (`InternalError` in Lalr).
- `lalr/optimize.go:107`: `optimizeTables` with a conflict that a trie resolved
  ends the program with "rule index out of range"; nothing forbids that
  combination of options (`RefuseTries`).
- `lalr/optimize.go:418`: two lines may share a base when no free place is below
  the end (`A: B B; B: b`), hence `BasesAreUnique`.
- A trie that decides between an ordinary empty rule and one of a set of
  lookaheads drops the other lookaheads of that set.
- `lalr/minimize.go:107`: `previousTerm` is never updated, so that the check that
  terminals are sorted is vacuous.
- `lalr/minimize.go:64-67` says that start, final and marked states "get a unique
  signature suffix so that they never merge with other states". The suffix of a marked state
  is the pair (8, m), and nothing separates it from the pairs of the row before it: a
  state with a row that ends with terminal 8 and rule class m has the same
  signature. In the grammar `SharedSignature` of `MCLalr` a marked state is merged
  with another one and the sentence `x p a t` is rejected afterwards. `Lalr_tables.cfg` with
  `Grammars <- SharedSignature` and the invariant `MergedStatesAgree` gives the
  trace.
- `compiler/syntax.go:386`: a set that is named before the set it refers to is
  loaded copies an empty one (`NamesLaterSet`).
- `syntax/set.go`: `follow` and `precede` do not see the tokens of a `set(...)`
  beside a symbol, a set is never nullable, and grammars with only `no-eoi` inputs
  have no rules; a cycle through a complement may list that complement twice.
- `parsers/js/stream_impl.go:81`: a line break between `return` and a written `;`
  gets a second semicolon, so that `do return <newline> ; while (a);` is rejected;
  `async <newline> => a` is accepted; in `if (a) {} <newline> )` an empty statement
  is inserted. `stream.Init` does not reset `lastEnd`.
- `lex/`: the pattern `()` is not reported as accepting the empty text
  (compile.go:81); `a{eoi}+` matches the end of the text for ever; whether "two
  rules are identical" is reported can depend on the order in which a third rule
  is given. In `parsers/tm/lexer.go` columns behind a line break are
  counted from 2 where the break was scanned (108 and 152 store its own offset in
  `lineOffset`) and from 1 after a rewind to that line (473 stores the one behind it).
- An empty node at the very end of the text is not adopted by `File`
  (`b.stack[start].offset >= endoffset`), so it is not in the tree
  (`TreeIsComplete` states exactly this exception); a cancelled context leaves
  pending tokens unreported.

## The plan

What could be added to these modules:

- more tables for `LRParser` and `Lookahead` (a second recovery scope, three
  inputs that ask each other), a reused stream in `JsParser`, TypeScript's
  positions, longer texts for `Lexer`;
- `checkLR0` and the expected numbers of conflicts in `Lalr`;
- columns, the BOM and nested code blocks (`lexer_actions.go`) in `Lexer`;
- theorems: a condition on the tables alone that implies `StackBeforeInvalid` (that no empty
  rule is reduced on a token that cannot be shifted then). (`LinesCounted` and `TokensAsDefined` say what a loop
  computes, and need an induction over its turns; they stay with TLC.)

Not modelled, and why:

- **The generated tables** (`parser_tables.go`, `lexer_tables.go`, the AST's
  accessors). They make up two thirds of the repository's lines, and hold data,
  not behaviour: they are the output of the generators modelled here, and the
  modules take tables as constants. Any share of the lines modelled is bounded by
  that.
- **The language server** (`ls/server.go`): the JSON-RPC library runs one handler
  after the other, and a handler keeps nothing but the map of documents; there is
  no interleaving to check.
- **The code generator** (`gen/`): one file after the other is formatted and
  written; it promises no atomicity, and keeps nothing between runs.
- **Grammar rewriting and name resolution** (`syntax/expand.go`, `templates.go`,
  most of `compiler/`): long sequential passes over trees with their results
  compared by golden tests, without an invariant that a small instance would tell
  more about. The parts with a fixpoint in them, token sets and nullable symbols,
  are in `TokenSets`.
- **The regular expression parser** (`lex/regexp.go`, `charset.go`), `shiftdfa`,
  `diff`, `ident`, `dump`, `sparse`: pure functions.
- **Code attached to rules and tokens**, templates for other languages, the VS Code
  extension, and the JSON and simple parsers, whose loops have fewer steps than
  `LRParser`'s.
