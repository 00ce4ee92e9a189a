--------------------------- MODULE LookaheadGrammar ---------------------------
(***************************************************************************)
(* A grammar with nested lookaheads and one rule that needs LALR(2), in    *)
(* the shape of parsers/test/test.tm (there: eval, FooLookahead, AX, AY)   *)
(* and of the arrow functions of parsers/js/js.tm:                         *)
(*                                                                         *)
(*   %input S, Arrow no-eoi, Cast no-eoi;                                  *)
(*   S : (?= Cast) '(' E ')' E                (rule 1)                     *)
(*     | (?= !Cast) E                         (rule 2)                     *)
(*     | '=>' X 'a' 'a'  |  '=>' Y 'a' '('    (rules 3, 4)                 *)
(*   E : 'a'                                  (rule 5)                     *)
(*     | (?= Arrow) P '=>' E                  (rule 6)                     *)
(*     | (?= !Arrow) '(' E ')'                (rule 7)                     *)
(*   P : '(' ')'  |  '(' E ')'                (rules 8, 9)                 *)
(*   X : 'a'     Y : 'a'                      (rules 10, 11)               *)
(*   Arrow : P '=>'     Cast : '(' E ')' '('  (rules 12, 13)               *)
(*                                                                         *)
(* Rules 14 to 17 are the empty nonterminals that stand for (?= ...), 18   *)
(* and 19 are the rules that the generator adds to decide between them.    *)
(***************************************************************************)
EXTENDS Integers, Sequences, TLC

LOCAL Shift     == [op |-> "shift"]
LOCAL Error     == [op |-> "error"]
LOCAL Reduce(r) == [op |-> "reduce", rule |-> r]
LOCAL Ask(k)    == [op |-> "row", row |-> k]

LState == 0 .. 40

LRuleLen == << 5, 2, 4, 4, 1, 4, 4, 2, 3, 1, 1, 2, 4, 0, 0, 0, 0, 0, 0 >>
LRuleSymbol ==
  << "S", "S", "S", "S", "E", "E", "E", "P", "P", "X", "Y", "Arrow", "Cast",
     "laArrow", "laNotArrow", "laCast", "laNotCast", "laNotArrow", "laNotCast" >>

LLookaheadRule ==
  18 :> [start |-> 1, end |-> 38, yes |-> "laArrow", no |-> "laNotArrow"] @@
  19 :> [start |-> 2, end |-> 39, yes |-> "laCast",  no |-> "laNotCast"]

LRow ==
  << "(" :> Reduce(19) @@ "=>" :> Shift @@ "a" :> Reduce(17),
     "(" :> Reduce(18) @@ "a" :> Shift,
     "(" :> Reduce(18) @@ ")" :> Shift @@ "a" :> Shift,
     "a" :> Ask(5),
     "a" :> Reduce(10) @@ "(" :> Reduce(11) >>

LAction ==
  LET reduceIn == 13 :> 5 @@ 14 :> 2 @@ 17 :> 8 @@ 19 :> 12 @@ 26 :> 9 @@ 28 :> 3 @@
                  29 :> 4 @@ 33 :> 13 @@ 34 :> 1 @@ 35 :> 6 @@ 36 :> 7
  IN  [q \in LState |-> CASE q \in DOMAIN reduceIn -> Reduce(reduceIn[q])
                          [] q = 0 -> Ask(1)
                          [] q \in {5, 8, 12, 25, 30, 31} -> Ask(2)
                          [] q = 6 -> Ask(3)
                          [] q = 9 -> Ask(4)
                          [] q \in {38, 39, 40} -> Error
                          [] OTHER -> Shift]

\* The states of each source that has a transition on the symbol, by target.
LOCAL Edges ==
  LET ExprStates == {5, 6, 8, 12, 25, 30, 31}
  IN  { << {37}, "EOI", 40 >>, << {0}, "S", 37 >>, << {1}, "Arrow", 38 >>,
        << {2}, "Cast", 39 >>, << {0}, "laCast", 4 >>, << {0}, "laNotCast", 5 >>,
        << {1, 15}, "(", 6 >>, << {2}, "(", 8 >>, << {4}, "(", 12 >>,
        << {16}, "(", 25 >>, << {22}, "(", 29 >>, << {27}, "(", 33 >>,
        << {6}, ")", 17 >>, << {18}, ")", 26 >>, << {20}, ")", 27 >>,
        << {23}, ")", 30 >>, << {32}, ")", 36 >>, << {0}, "=>", 3 >>,
        << {7}, "=>", 19 >>, << {24}, "=>", 31 >>, << {3}, "a", 9 >>,
        << ExprStates, "a", 13 >>, << {10}, "a", 21 >>, << {11}, "a", 22 >>,
        << {21}, "a", 28 >>, << {5}, "E", 14 >>, << {6}, "E", 18 >>,
        << {8}, "E", 20 >>, << {12}, "E", 23 >>, << {25}, "E", 32 >>,
        << {30}, "E", 34 >>, << {31}, "E", 35 >>, << {1}, "P", 7 >>,
        << {15}, "P", 24 >>, << {3}, "X", 10 >>, << {3}, "Y", 11 >>,
        << ExprStates, "laArrow", 15 >>, << ExprStates, "laNotArrow", 16 >> }

LTransition ==
  LET source == UNION { { << q, e[2] >> : q \in e[1] } : e \in Edges }
  IN  [p \in source |-> (CHOOSE e \in Edges : p[1] \in e[1] /\ p[2] = e[2])[3]]
=============================================================================
