------------------------------ MODULE JsGrammar ------------------------------
(***************************************************************************)
(* LALR(1) tables of a fragment of parsers/js/js.tm that holds every kind  *)
(* of position at which TokenStream.next treats semicolons in a special    *)
(* way (a name after a dot in front of a token is a state marker):         *)
(*                                                                         *)
(*   Prog  : %empty | Stmts                                 (rules 1, 2)   *)
(*   Stmts : Stmt | Stmts Stmt                                   (3, 4)    *)
(*   Stmt  : '{' .recoveryScope '}'                              (5)       *)
(*         | '{' .recoveryScope Stmts '}'                        (6)       *)
(*         | '{' .recoveryScope error '}'                        (7)       *)
(*         | '{' .recoveryScope Stmts error '}'                  (8)       *)
(*         | ';' .emptyStatement | Expr ';' | error ';'          (9 - 11)  *)
(*         | 'do' Stmt 'while' '(' Expr ')' ';' .doWhile         (12)      *)
(*         | 'for' '(' Opt ';' .forSC Opt ';' .forSC Opt ')' Stmt     (13) *)
(*         | 'return' ';' | 'return' .noLineBreak Expr ';'       (14, 15)  *)
(*   Opt   : %empty | Expr                                       (16, 17)  *)
(*   Expr  : Bin | 'a' .noLineBreak '=>' Expr                    (18, 19)  *)
(*         | 'a' .noLineBreak '=>' error                         (20)      *)
(*   Bin   : Un | Bin '>>' Un                                    (21, 22)  *)
(*   Un    : Left | Left .noLineBreak '++' | '++' Left           (23 - 25) *)
(*   Left  : 'a' | 'a' '<' Type '>' | '(' Expr ')'               (26 - 28) *)
(*         | Left '(' Expr ')' | Left '.' 'a'                    (29, 30)  *)
(*   Type  : 'a' | 'a' '<' Type '>'                              (31, 32)  *)
(***************************************************************************)
EXTENDS Integers, TLC

JsTerminals == {"EOI", "a", ";", "{", "}", "(", ")", "for", "do", "while", "return",
                "++", "=>", "<", ">", ">>", ".", "error"}

JsStates == 0 .. 67
JsStart  == 0
JsEnd    == 67

JsRuleLen == << 0, 1, 1, 2, 2, 3, 3, 4, 1, 2, 2, 7, 9, 2, 3, 0, 1, 1, 3, 3, 1, 3, 1, 2,
                2, 1, 4, 3, 4, 3, 1, 4 >>

JsRuleSymbol ==
  [r \in 1 .. 32 |-> CASE r \in 1 .. 2   -> "Prog"  [] r \in 3 .. 4   -> "Stmts"
                       [] r \in 5 .. 15  -> "Stmt"  [] r \in 16 .. 17 -> "Opt"
                       [] r \in 18 .. 20 -> "Expr"  [] r \in 21 .. 22 -> "Bin"
                       [] r \in 23 .. 25 -> "Un"    [] r \in 26 .. 30 -> "Left"
                       [] OTHER -> "Type"]

\* Where statements and expressions begin.
LOCAL Stmts == {0, 3, 6, 10, 20, 64}
LOCAL Exprs == Stmts \union {4, 7, 16, 22, 32, 53, 54, 60}

\* The transitions: from any of these states, on this symbol, to that state.
JsEdges ==
  { << Exprs, "a", 1 >>, << Stmts, ";", 2 >>, << Stmts, "{", 3 >>,
    << Exprs \union {8, 31}, "(", 4 >>, << Stmts, "for", 5 >>, << Stmts, "do", 6 >>,
    << Stmts, "return", 7 >>, << Exprs \union {31}, "++", 8 >>,
    << {0, 6, 10, 64}, "error", 9 >>, << {0}, "Stmts", 10 >>, << {0, 3}, "Stmt", 11 >>,
    << Stmts, "Expr", 12 >>, << Exprs, "Bin", 13 >>, << Exprs, "Un", 14 >>,
    << Exprs \union {31}, "Left", 15 >>, << {1}, "=>", 16 >>, << {1, 26}, "<", 17 >>,
    << {3}, "}", 18 >>, << {3}, "error", 19 >>, << {3}, "Stmts", 20 >>,
    << {4}, "Expr", 21 >>, << {5}, "(", 22 >>, << {6}, "Stmt", 23 >>,
    << {7}, ";", 24 >>, << {7}, "Expr", 25 >>, << {8, 31}, "a", 26 >>,
    << {8}, "Left", 27 >>, << {9, 19, 41}, ";", 28 >>, << {10, 20}, "Stmt", 29 >>,
    << {12}, ";", 30 >>, << {13}, ">>", 31 >>, << {15, 27}, "(", 32 >>,
    << {15}, "++", 33 >>, << {15, 27}, ".", 34 >>, << {16}, "error", 35 >>,
    << {16}, "Expr", 36 >>, << {17, 50}, "a", 37 >>, << {17}, "Type", 38 >>,
    << {19}, "}", 39 >>, << {20}, "}", 40 >>, << {20}, "error", 41 >>,
    << {21}, ")", 42 >>, << {22}, "Opt", 43 >>, << {22, 53, 60}, "Expr", 44 >>,
    << {23}, "while", 45 >>, << {25}, ";", 46 >>, << {31}, "Un", 47 >>,
    << {32}, "Expr", 48 >>, << {34}, "a", 49 >>, << {37}, "<", 50 >>,
    << {38}, ">", 51 >>, << {41}, "}", 52 >>, << {43}, ";", 53 >>, << {45}, "(", 54 >>,
    << {48}, ")", 55 >>, << {50}, "Type", 56 >>, << {53}, "Opt", 57 >>,
    << {54}, "Expr", 58 >>, << {56}, ">", 59 >>, << {57}, ";", 60 >>,
    << {58}, ")", 61 >>, << {60}, "Opt", 62 >>, << {61}, ";", 63 >>,
    << {62}, ")", 64 >>, << {64}, "Stmt", 65 >>, << {0}, "Prog", 66 >>,
    << {66}, "EOI", 67 >> }

\* The states that reduce without looking at a token, and the rule.
JsReduceAlways ==
  ( 2 :> 9 @@ 11 :> 3 @@ 14 :> 21 @@ 18 :> 5 @@ 24 :> 14 @@ 28 :> 11 @@ 29 :> 4 @@
    30 :> 10 @@ 33 :> 24 @@ 35 :> 20 @@ 36 :> 19 @@ 39 :> 7 @@ 40 :> 6 @@ 42 :> 28 @@
    44 :> 17 @@ 46 :> 15 @@ 47 :> 22 @@ 49 :> 30 @@ 51 :> 27 @@ 52 :> 8 @@ 55 :> 29 @@
    59 :> 32 @@ 63 :> 12 @@ 65 :> 13 )

\* The states that reduce on these tokens only, and the rule.
JsReduceOn ==
  { << {0}, {"EOI"}, 1 >>, << {10}, {"EOI"}, 2 >>, << {13}, {";", ")"}, 18 >>,
    << {1, 26}, {";", "(", ")", "++", ">>", "."}, 26 >>,
    << {15}, {";", ")", ">>"}, 23 >>, << {27}, {";", ")", ">>"}, 25 >>,
    << {22, 53}, {";"}, 16 >>, << {60}, {")"}, 16 >>, << {37}, {">"}, 31 >> }

\* The goto that is stored once for a nonterminal: the one of the most states.
JsDefGoto ==
  ( "Prog" :> 66 @@ "Stmts" :> 10 @@ "Stmt" :> 11 @@ "Opt" :> 43 @@ "Expr" :> 12 @@
    "Bin" :> 13 @@ "Un" :> 14 @@ "Left" :> 15 @@ "Type" :> 38 )

JsAfterErr       == {";", "}", ")"}
JsRecoveryScope  == {3}
JsEmptyStatement == 2
JsForSC          == {53, 60}
JsDoWhile        == {63}
JsNoLineBreak    == {1, 7, 15}
=============================================================================
