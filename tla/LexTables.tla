----------------------------- MODULE LexTables -----------------------------
(***************************************************************************)
(* The lexer generator: lex/compile.go translates regular expressions into *)
(* instructions, lex/compress.go characters into input symbols, and        *)
(* lex/generator.go the instructions into a DFA whose table also encodes   *)
(* actions and checkpoints for backtracking; lex/accel.go finds the runs   *)
(* of characters that need no table.                                       *)
(*                                                                         *)
(* A regular expression is << "class", characters >>, << "eoi" >>,         *)
(* << "concat", r, ... >>, << "alternate", r, ... >> or                    *)
(* << "repeat", min, max, r >>, where max = -1 stands for no limit.  A     *)
(* literal is the concatenation of its characters; named patterns are taken*)
(* as expanded.  Characters are numbers, in the order of their code points.*)
(***************************************************************************)
EXTENDS Integers, Sequences, SequencesExt, FiniteSets

CONSTANTS
  NumChars,          \* the characters are 1 .. NumChars
  Newline,           \* one of them
  NonAscii,          \* those of them that take more than one byte
  MinSelfLoopBytes,  \* a state with fewer characters that lead back to it has no accelerator
  RuleSets           \* [rules, backtracking]: what Compile is called with

VARIABLES
  stage,       \* "compile", "start", "states", "number", "ready" or "failed"
  rules,       \* [re, starts, precedence, action, space], the arguments
  allowBacktracking,
  ins,         \* the instructions: [consume, links, rule]
  entry,       \* the first instruction of each rule
  inputMap,    \* the symbol of each character
  emptyRule,   \* an error: a rule accepts the empty text
  states,      \* the DFA: [set, action, accept]
  order,       \* the list of states from first to last
  done,        \* how many of them have their transitions
  identical,   \* an error: two rules are identical
  backtrack,   \* the checkpoints: [action, next]
  needsBacktracking,  \* an error
  dfa,         \* the final table
  stateMap     \* the start states

tableVars == << stage, rules, allowBacktracking, ins, entry, inputMap, emptyRule, states, order, done, identical,
                backtrack, needsBacktracking, dfa, stateMap >>

ASSUME CharsAssumption == NumChars \in Nat /\ Newline \in 1 .. NumChars /\ NonAscii \subseteq 1 .. NumChars

Chars == 1 .. NumChars
EOI == 0

-----------------------------------------------------------------------------
\* compile.go.  The instructions out, with one more.
emit(out, consume) == Append(out, [consume |-> consume, links |-> {}, rule |-> 0])

link(out, srcs, dst) ==
  [i \in DOMAIN out |-> IF i \in srcs THEN [out[i] EXCEPT !.links = @ \union { dst }] ELSE out[i]]

\* The places in srcs are linked to the next instruction.
LinkNext(out, srcs) == link(out, srcs, Len(out) + 1)

RECURSIVE serialize(_, _)
RECURSIVE Copies(_, _, _)

\* n copies of re: where each of them begins, and the code.
Copies(out, re, n) ==
  IF n = 0 THEN [out |-> out, starts |-> << >>]
  ELSE LET rest == Copies(serialize(out, re), re, n - 1)
       IN  [rest EXCEPT !.starts = << Len(out) + 1 >> \o @]

\* Each alternative is linked to from the beginning, and ends on its own instruction.
RECURSIVE Branches(_, _, _)
Branches(st, alt, res) ==
  IF res = << >> THEN st
  ELSE LET o == serialize(link(st.out, { alt }, Len(st.out) + 1), Head(res))
       IN  Branches([out |-> emit(o, {}), ends |-> st.ends \union { Len(o) + 1 }], alt, Tail(res))

serialize(out, re) ==
  CASE re[1] = "class"  -> emit(out, re[2])
    [] re[1] = "eoi"    -> emit(out, { EOI })
    [] re[1] = "concat" -> FoldLeft(serialize, out, Tail(re))
    [] re[1] = "alternate" ->
         LET st == Branches([out |-> emit(out, {}), ends |-> {}], Len(out) + 1, Tail(re))
         IN  LinkNext(st.out, st.ends)
    [] re[1] = "repeat" ->
         LET least   == Copies(LinkNext(emit(out, {}), { Len(out) + 1 }), re[4], re[2])
             more    == Copies(least.out, re[4],
                               IF re[3] # -1 THEN re[3] - re[2] ELSE IF re[2] = 0 THEN 1 ELSE 0)
             last    == Last(least.starts \o more.starts)
             barrier == Len(more.out) + 1
             end     == emit(more.out, {})
         IN  CASE re[3] = -1 -> LinkNext(link(end, { barrier }, last),
                                         { barrier } \union (IF re[2] = 0 THEN { last } ELSE {}))
               [] re[3] > re[2] -> LinkNext(end, Range(more.starts) \union { barrier })
               [] re[3] = re[2] -> least.out

Linked_Direct(out, S) == S \union UNION { out[j].links : j \in S }

\* The instructions to be considered together with instruction i.
RECURSIVE Linked(_, _)
Linked(out, S) ==
  LET next == S \union UNION { out[j].links : j \in S }
  IN  IF next = S THEN S ELSE Linked(out, next)

\* One rule after the other; the text of the first instruction's links is checked.
addPattern(st, r) ==
  LET out == emit(serialize(st.out, rules[r].re), {})
      at  == Len(st.out) + 1
      all == [out EXCEPT ![Len(out)].rule = r]
  IN  [out   |-> all,
       entry |-> Append(st.entry, at),
       empty |-> st.empty \/ \E j \in Linked(all, { at }) \ { at } : all[j].rule # 0]

\* compress.go: characters in the same sets are one input symbol; the symbols are
\* numbered in the order of their first characters, EOI is 0.
CharSets(out) == { out[i].consume : i \in DOMAIN out } \ { { EOI }, {} }
Alike(out, c, d) == \A cs \in CharSets(out) : c \in cs <=> d \in cs
FirstOnes(out) == { c \in Chars : \A d \in 1 .. c - 1 : ~Alike(out, c, d) }
SymOf(out, c) ==
  LET first == CHOOSE d \in FirstOnes(out) : Alike(out, c, d)
  IN  Cardinality({ d \in FirstOnes(out) : d <= first })

Core(i) == i.rule # 0 \/ i.consume # {}

\* compile: symbols for characters, and only the links to core instructions.
CompileRules ==
  /\ stage = "compile"
  /\ stage' = "start"
  /\ LET st  == FoldLeft(addPattern, [out |-> << >>, entry |-> << >>, empty |-> FALSE],
                         [r \in DOMAIN rules |-> r])
         out == st.out
     IN  /\ inputMap' = [c \in Chars |-> SymOf(out, c)]
         /\ ins' = [i \in DOMAIN out |->
                      [consume |-> { IF c = EOI THEN EOI ELSE inputMap'[c] : c \in out[i].consume },
                       links   |-> { j \in Linked(out, { i }) \ { i } : Core(out[j]) },
                       rule    |-> out[i].rule]]
         /\ entry' = st.entry
         /\ emptyRule' = st.empty
  /\ UNCHANGED << rules, allowBacktracking, states, order, done, identical, backtrack, needsBacktracking,
                  dfa, stateMap >>

-----------------------------------------------------------------------------
\* generator.go.  States are numbered from 0 in the order of their creation.
Symbols == 0 .. Cardinality(Range(inputMap))
SymbolList == [k \in 1 .. Cardinality(Symbols) |-> k - 1]
State(k) == states[k + 1]

closure(set) == { i \in set : Core(ins[i]) } \union UNION { ins[i].links : i \in set }

\* The state for what can be reached from set; a new one goes behind the state after,
\* or to the end of the list.
addState(st, set, after) ==
  LET new   == closure(set)
      known == { k \in DOMAIN st.states : st.states[k].set = new }
      index == Len(st.states)
      at    == IF after \in Range(st.order) THEN CHOOSE i \in DOMAIN st.order : st.order[i] = after
               ELSE Len(st.order)
  IN  IF known # {} THEN [st EXCEPT !.last = (CHOOSE k \in known : TRUE) - 1]
      ELSE [st EXCEPT !.states = Append(@, [set |-> new, action |-> << >>, accept |-> 0]),
                      !.order  = InsertAt(@, at + 1, index),
                      !.last   = index]

NoState == -1
NumConditions == 1 + CHOOSE sc \in UNION { rules[r].starts : r \in DOMAIN rules } :
                       \A r \in DOMAIN rules : \A other \in rules[r].starts : other <= sc

\* Compile: one start state for each start condition.
StartStates ==
  /\ stage = "start"
  /\ stage' = "states"
  /\ LET Entries(sc) == { entry[r] : r \in { r \in DOMAIN rules : sc \in rules[r].starts } }
         Add(st, sc) == LET to == addState(st, Entries(sc), NoState)
                        IN  [to EXCEPT !.map = Append(@, to.last)]
         st == FoldLeft(Add, [states |-> << >>, order |-> << >>, last |-> NoState, map |-> << >>],
                        [i \in 1 .. NumConditions |-> i - 1])
     IN  states' = st.states /\ order' = st.order /\ stateMap' = st.map
  /\ UNCHANGED << rules, allowBacktracking, ins, entry, inputMap, emptyRule, done, identical, backtrack,
                  needsBacktracking, dfa >>

\* The first one of the rules of highest precedence.
Best(rs) ==
  CHOOSE r \in rs : \A q \in rs : \/ rules[q].precedence < rules[r].precedence
                                  \/ rules[q].precedence = rules[r].precedence /\ r <= q

acceptRule(set) ==
  LET accepted == { ins[i].rule : i \in set } \ { 0 }
  IN  IF accepted = {} THEN 0 ELSE Best(accepted)

Identical_Neighbours(set) ==
  LET accepted == { ins[i].rule : i \in set } \ { 0 }
  IN  \E r \in accepted : /\ r - 1 \in accepted
                          /\ rules[r - 1].precedence = rules[r].precedence
                          /\ rules[r - 1].action # rules[r].action

\* A rule that meets one of equal precedence for another action.
Identical(set) ==
  LET accepted == { ins[i].rule : i \in set } \ { 0 }
  IN  \E r \in accepted : LET before == { q \in accepted : q < r }
                          IN  /\ before # {}
                              /\ rules[Best(before)].precedence = rules[r].precedence
                              /\ rules[Best(before)].action # rules[r].action

\* One state of the list: what it accepts, and its transitions, which may add states.
ComputeState ==
  /\ stage = "states" /\ done < Len(order)
  /\ LET index  == order[done + 1]
         set    == State(index).set
         accept == acceptRule(set)
         shift(sym) == { i + 1 : i \in { i \in set : sym \in ins[i].consume } }
         Transition(st, sym) ==
           IF shift(sym) = {}
           THEN [st EXCEPT !.action = @ @@ (sym :> IF accept = 0 THEN -1 ELSE -1 - rules[accept].action)]
           ELSE LET to == addState(st, shift(sym), index)
                IN  [to EXCEPT !.action = @ @@ (sym :> to.last)]
         st == FoldLeft(Transition, [states |-> states, order |-> order, last |-> NoState, action |-> << >>],
                        SymbolList)
     IN  /\ states' = [st.states EXCEPT ![index + 1].accept = accept, ![index + 1].action = st.action]
         /\ order' = st.order
         /\ identical' = (identical \/ Identical(set))
  /\ done' = done + 1
  /\ UNCHANGED << stage, rules, allowBacktracking, ins, entry, inputMap, emptyRule, backtrack,
                  needsBacktracking, dfa, stateMap >>

-----------------------------------------------------------------------------
LeavesToken_Other(index, sym) ==
  LET to == State(index).action[sym]
  IN  State(index).accept # 0 /\ to >= 0 /\ State(to).accept = 0 /\ to # index + 1

\* A transition from a state that accepts to one that does not.
LeavesToken(index, sym) ==
  LET to == State(index).action[sym]
  IN  State(index).accept # 0 /\ to >= 0 /\ State(to).accept = 0

\* Such transitions lead to checkpoints, one for each target and action.
Checkpoints ==
  /\ stage = "states" /\ done = Len(order)
  /\ stage' = "number"
  /\ LET Key(index, sym) == [action |-> rules[State(index).accept].action, next |-> State(index).action[sym]]
         Leaving == FlattenSeq([i \in DOMAIN order |->
                      SelectSeq([k \in DOMAIN SymbolList |-> << order[i], SymbolList[k] >>],
                                LAMBDA t : LeavesToken(t[1], t[2]))])
         keys == FoldLeft(LAMBDA bt, t : IF Key(t[1], t[2]) \in Range(bt) THEN bt ELSE Append(bt, Key(t[1], t[2])),
                          << >>, Leaving)
         Place(index, sym) == Len(states) - 1 + CHOOSE b \in DOMAIN keys : keys[b] = Key(index, sym)
     IN  /\ backtrack' = keys
         /\ needsBacktracking' = (keys # << >> /\ ~allowBacktracking)
         /\ states' = [k \in DOMAIN states |->
                         [states[k] EXCEPT !.action = [sym \in Symbols |->
                            IF LeavesToken(k - 1, sym) THEN Place(k - 1, sym) ELSE @[sym]]]]
  /\ UNCHANGED << rules, allowBacktracking, ins, entry, inputMap, emptyRule, order, done, identical, dfa,
                  stateMap >>

\* States are numbered in the order of the list; checkpoints become the highest of
\* the negative numbers, and actions make room for them.
permutation(index) == (CHOOSE i \in DOMAIN order : order[i] = index) - 1

Encoded(val) ==
  CASE val >= Len(states)       -> -1 - (val - Len(states))
    [] val \in 0 .. Len(states) - 1 -> permutation(val)
    [] val < 0                  -> val - Len(backtrack)

Number ==
  /\ stage = "number"
  /\ stage' = IF emptyRule \/ identical \/ needsBacktracking THEN "failed" ELSE "ready"
  /\ backtrack' = [i \in DOMAIN backtrack |-> [backtrack[i] EXCEPT !.next = permutation(@)]]
  /\ dfa' = [i \in DOMAIN order |-> [sym \in Symbols |-> Encoded(State(order[i]).action[sym])]]
  /\ stateMap' = [sc \in DOMAIN stateMap |-> permutation(stateMap[sc])]
  /\ UNCHANGED << rules, allowBacktracking, ins, entry, inputMap, emptyRule, states, order, done, identical,
                  needsBacktracking >>

-----------------------------------------------------------------------------
\* accel.go.
ActionStart == -1 - Len(backtrack)
Row(s) == dfa[s + 1]
Target(s, c) == Row(s)[inputMap[c]]

\* The actions a state can produce whatever comes next.
terminal(s) == { v \in Range(Row(s)) : v <= ActionStart /\ Range(Row(s)) = { v } }

SpaceActions == { rules[r].action : r \in { r \in DOMAIN rules : rules[r].space } }

\* The characters that are always a token of a space rule in a start condition.
SpaceSkip(sc) ==
  { c \in Chars \ NonAscii : LET to == Target(stateMap[sc + 1], c)
                             IN  to >= 0 /\ \E v \in terminal(to) : ActionStart - v \in SpaceActions }

\* The characters on which a state loops; those above ASCII all or not at all.
SelfLoop(s) ==
  LET loops(S) == { c \in S : Target(s, c) = s }
      ascii    == loops(Chars \ NonAscii)
  IN  IF Cardinality(ascii) < MinSelfLoopBytes THEN {}
      ELSE ascii \union (IF loops(NonAscii) = NonAscii THEN NonAscii ELSE {})

TablesInit ==
  /\ stage = "compile"
  /\ \E input \in RuleSets : rules = input.rules /\ allowBacktracking = input.backtracking
  /\ ins = << >> /\ entry = << >> /\ inputMap = << >> /\ states = << >> /\ order = << >> /\ done = 0
  /\ backtrack = << >> /\ dfa = << >> /\ stateMap = << >>
  /\ emptyRule = FALSE /\ identical = FALSE /\ needsBacktracking = FALSE

TablesNext == CompileRules \/ StartStates \/ ComputeState \/ Checkpoints \/ Number
=============================================================================
