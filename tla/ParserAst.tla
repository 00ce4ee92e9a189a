------------------------------ MODULE ParserAst ------------------------------
(***************************************************************************)
(* ast.Parse of parsers/tm/ast/parse.go: a parser and its token stream     *)
(* whose listener is the builder's addNode, called synchronously from      *)
(* within the parser's steps.  After a successful parse the tree is built; *)
(* after an error it is thrown away.                                       *)
(***************************************************************************)
EXTENDS LRParser, AstBuilder

astParseVars == << vars, astVars >>

AstParseInit == Init /\ AstInit

\* Some calls of the listener, one after the other.
addNodes(b, calls) == FoldLeft(addNode, b, calls)

\* A step of the parser, with the calls of the listener it makes.
ParserStep ==
  /\ Lex \/ Parse \/ Accept \/ recoverFromError
  /\ builder' = addNodes(builder, SubSeq(events', Len(events) + 1, Len(events')))
  /\ UNCHANGED done

\* The lexer stands at the end of the text when EOI was shifted.
BuildTree ==
  /\ pc = "accepted" /\ ~done
  /\ builder' = build(builder, offset)
  /\ done' = TRUE
  /\ UNCHANGED vars

AstParseNext ==
  \/ ParserStep
  \/ BuildTree
  \/ Returned /\ (pc = "accepted" => done) /\ UNCHANGED astParseVars

AstParseSpec == AstParseInit /\ [][AstParseNext]_astParseVars

-----------------------------------------------------------------------------
IsEmptyRange(n) == builder.nodes[n].off = builder.nodes[n].end

IsNode(n) == events[n].sym \in NodeType

\* The nodes that wait for a parent are those of the symbols on the parsing
\* stack: each lies within one stack entry.  What an error recovery cuts off
\* the stack is inside the `error` it puts there, so no node of dropped code
\* ends up beside, or above, the syntax problem that stands for it.
RootsLieOnStack ==
  \A n \in ToSet(builder.roots) \intersect DOMAIN events :
    IsNode(n) /\ ~IsEmptyRange(n) =>
      \E i \in 2 .. Len(stack) :
        /\ stack[i].off <= builder.nodes[n].off
        /\ builder.nodes[n].end <= stack[i].end

\* A finished tree (build in parse.go) is that of File, below which is all of
\* the text but for empty nodes at its very end; everything that was reported
\* is in it.
TreeIsComplete ==
  done =>
    LET file == Last(builder.nodes)
    IN  /\ Root(builder) = Len(builder.nodes)
        /\ \A i \in 2 .. Len(builder.roots) :
             IsEmptyRange(builder.roots[i]) /\ builder.nodes[builder.roots[i]].off = file.end
        /\ pc = "accepted" => /\ Len(builder.nodes) = Len(events) + 1
                              /\ file = [off |-> 0, end |-> offset]
=============================================================================
