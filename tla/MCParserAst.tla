----------------------------- MODULE MCParserAst -----------------------------
(***************************************************************************)
(* The builder for TLC, called by one of two: by a parser with the tables  *)
(* of BlocksGrammar, or by anyone, with any ranges in post-order.          *)
(***************************************************************************)
EXTENDS ParserAst, BlocksGrammar

VARIABLE caller

mcVars == << astParseVars, caller >>

MCInit ==
  /\ AstParseInit
  /\ caller \in { "parser", "anyone" }
  /\ caller = "anyone" => input.eoi

MCNext ==
  \/ caller = "parser" /\ AstParseNext /\ UNCHANGED caller
  \/ caller = "anyone" /\ AstNext /\ UNCHANGED << vars, caller >>

MCSpec == MCInit /\ [][MCNext]_mcVars
=============================================================================
