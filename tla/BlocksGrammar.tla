---------------------------- MODULE BlocksGrammar ----------------------------
(***************************************************************************)
(* The tables of a small grammar with nested blocks, an error production,  *)
(* empty rules at both ends of a rule, a recovery scope and two inputs, in *)
(* the shape of parsers/tm/textmapper.tm:                                  *)
(*                                                                         *)
(*   %input list, block no-eoi;                                            *)
(*   list  : item                           (rule 1)                       *)
(*         | list item                      (rule 2)                       *)
(*   item  : mid name ';'      -> Item      (rule 3)                       *)
(*         | block                          (rule 4)                       *)
(*         | error             -> SyntaxProblem                  (rule 5)  *)
(*   block : '{' .recoveryScope list ('}' tail -> Close) -> Block (rule 6) *)
(*   mid   : %empty            -> Mark      (rule 7)                       *)
(*   tail  : %empty            -> Mark      (rule 8)                       *)
(*   name  : 'a'               -> Name      (rule 9)                       *)
(*                                                                         *)
(* Strict* are the LALR(1) tables, Reducing* those of the same grammar     *)
(* with the option `defaultReduce = true` (lalr/optimize.go), where the    *)
(* most common reduction of a state takes the place of its error entries.  *)
(***************************************************************************)
EXTENDS Integers, Sequences, TLC

GTerminals    == {"EOI", "a", ";", "{", "}", "error"}
GNonterminals == {"list", "item", "block", "mid", "tail", "name"}
GRule         == 1 .. 9
GState        == 0 .. 16
GNodeType     == {"Item", "Name", "Block", "Close", "SyntaxProblem", "Mark"}

GInputs == { [start |-> 0, end |-> 10, eoi |-> TRUE],    \* list
             [start |-> 1, end |-> 8, eoi |-> FALSE] }   \* block no-eoi

GRuleLen    == << 1, 2, 3, 1, 1, 4, 0, 0, 1 >>
GRuleSymbol ==
  << "list", "list", "item", "item", "item", "block", "mid", "tail", "name" >>
GRuleNode ==
  << "none", "none", "Item", "none", "SyntaxProblem", "Block", "Mark", "Mark", "Name" >>
GRuleReports ==
  [r \in GRule |-> IF r = 6 THEN << [type |-> "Close", from |-> 3, to |-> 4] >> ELSE <<>>]

GAfterErr      == {"EOI", "a", "{", "}", "error"}
GRecoveryScope == {2}

LOCAL Shift(q)  == [op |-> "shift", to |-> q]
LOCAL Reduce(r) == [op |-> "reduce", rule |-> r]
LOCAL Error     == [op |-> "error"]
LOCAL NoRow     == <<>>

StrictActRow ==
  LET ItemRow == "{" :> Shift(2) @@ "error" :> Shift(3) @@ "a" :> Reduce(7)
  IN  [q \in GState |-> CASE q \in {0, 2} -> ItemRow
                         [] q = 1  -> "{" :> Shift(2)
                         [] q = 6  -> "EOI" :> Shift(10) @@ ItemRow
                         [] q = 7  -> "a" :> Shift(12)
                         [] q = 9  -> "}" :> Shift(13) @@ ItemRow
                         [] q = 16 -> ";" :> Shift(14)
                         [] OTHER  -> NoRow]

StrictDefAct ==
  [q \in GState |-> CASE q = 3 -> Reduce(5)
                      [] q = 4 -> Reduce(4)
                      [] q = 5 -> Reduce(1)
                      [] q = 11 -> Reduce(2)
                      [] q = 12 -> Reduce(9)
                      [] q = 13 -> Reduce(8)
                      [] q = 14 -> Reduce(3)
                      [] q = 15 -> Reduce(6)
                      [] OTHER -> Error]

\* The states that reduce by rule 7 instead of reporting an error.
LOCAL Reducing == {0, 2, 6, 9}

ReducingActRow ==
  [q \in GState |->
     [t \in DOMAIN StrictActRow[q] \ (IF q \in Reducing THEN {"a"} ELSE {}) |->
        StrictActRow[q][t]]]

ReducingDefAct ==
  [q \in GState |-> IF q \in Reducing THEN Reduce(7) ELSE StrictDefAct[q]]

GGotoRow ==
  ( "block" :> ( 1 :> 8 ) @@
    "item" :> ( 6 :> 11 @@ 9 :> 11 ) @@
    "list" :> ( 2 :> 9 ) @@
    "mid" :> NoRow @@
    "tail" :> NoRow @@
    "name" :> NoRow )

GDefGoto ==
  ( "block" :> 4 @@ "item" :> 5 @@ "list" :> 6 @@ "mid" :> 7 @@ "tail" :> 15 @@
    "name" :> 16 )

\* The transitions of the LR(0) automaton, and the items of its states.
GTransitions ==
  { << 0, "block", 4 >>, << 0, "error", 3 >>, << 0, "item", 5 >>, << 0, "list", 6 >>,
    << 0, "mid", 7 >>, << 0, "{", 2 >>, << 1, "block", 8 >>, << 1, "{", 2 >>,
    << 2, "block", 4 >>, << 2, "error", 3 >>, << 2, "item", 5 >>, << 2, "list", 9 >>,
    << 2, "mid", 7 >>, << 2, "{", 2 >>, << 6, "EOI", 10 >>, << 6, "block", 4 >>,
    << 6, "error", 3 >>, << 6, "item", 11 >>, << 6, "mid", 7 >>, << 6, "{", 2 >>,
    << 7, "a", 12 >>, << 7, "name", 16 >>, << 9, "block", 4 >>,
    << 9, "error", 3 >>, << 9, "item", 11 >>, << 9, "mid", 7 >>, << 9, "{", 2 >>,
    << 9, "}", 13 >>, << 13, "tail", 15 >>, << 16, ";", 14 >> }

GItems ==
  LET OfItem == { << 3, 0 >>, << 4, 0 >>, << 5, 0 >>, << 6, 0 >>, << 7, 0 >> }
      OfList == { << 1, 0 >>, << 2, 0 >> } \union OfItem
  IN  [q \in GState |-> CASE q = 0  -> OfList
                          [] q = 1  -> { << 6, 0 >> }
                          [] q = 2  -> { << 6, 1 >> } \union OfList
                          [] q = 3  -> { << 5, 1 >> }
                          [] q = 4  -> { << 4, 1 >> }
                          [] q = 5  -> { << 1, 1 >> }
                          [] q = 6  -> { << 2, 1 >> } \union OfItem
                          [] q = 7  -> { << 3, 1 >>, << 9, 0 >> }
                          [] q = 9  -> { << 6, 2 >>, << 2, 1 >> } \union OfItem
                          [] q = 11 -> { << 2, 2 >> }
                          [] q = 12 -> { << 9, 1 >> }
                          [] q = 13 -> { << 6, 3 >>, << 8, 0 >> }
                          [] q = 14 -> { << 3, 3 >> }
                          [] q = 15 -> { << 6, 4 >> }
                          [] q = 16 -> { << 3, 2 >> }
                          [] OTHER  -> {}]

\* An independent recognizer of the language of `list`: blocks are balanced
\* and not empty, and what remains is a sequence of 'a' ';' pairs.
Sentence(w) ==
  LET depth[i \in 0 .. Len(w)] ==
        IF i = 0 THEN 0
        ELSE depth[i - 1] + (CASE w[i] = "{" -> 1 [] w[i] = "}" -> -1 [] OTHER -> 0)
      Follows(x, y) == CASE x = "a" -> y = ";"
                         [] x = "{" -> y \in {"a", "{"}
                         [] OTHER  -> y \in {"a", "{", "}"}
  IN  /\ w # <<>> /\ w[1] \in {"a", "{"} /\ w[Len(w)] \in {";", "}"}
      /\ \A i \in 0 .. Len(w) : depth[i] >= 0
      /\ depth[Len(w)] = 0
      /\ \A i \in 1 .. Len(w) - 1 : Follows(w[i], w[i + 1])
=============================================================================
