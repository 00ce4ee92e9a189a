----------------------------- MODULE MCLRParser -----------------------------
(***************************************************************************)
(* LRParser with the tables of BlocksGrammar, for TLC.                     *)
(***************************************************************************)
EXTENDS LRParser, BlocksGrammar

\* With the input that ends with the text: a text that is read to its end is
\* free of reported errors exactly if it is a sentence of the grammar.
ErrorFreeIffSentence ==
  pc \in {"accepted", "failed"} /\ input.eoi /\ next.sym = EOI =>
    (errors = <<>> <=>
       Sentence([i \in 1 .. Len(lexed) - 1 |-> lexed[i].sym]))
=============================================================================
