------------------------------- MODULE Lexer -------------------------------
(***************************************************************************)
(* The generated lexer, over the tables that LexTables makes: Next with its*)
(* accelerators (parsers/js/lexer.go) and its backtracking                 *)
(* (parsers/tm/lexer.go).  Offsets count characters, not bytes.  The lexer *)
(* State may be any start condition when Next is called; a rule's own code *)
(* is left out.                                                            *)
(***************************************************************************)
EXTENDS LexTables

CONSTANTS Texts   \* the sources

VARIABLES
  pc,           \* "init", "idle", "scan" (in Next, at restart) or "end"
  source,
  offset, line, \* of the current character
  tokenOffset, tokenLine,
  condition,    \* State
  tokens        \* what Next returned: [tok, start, end, line, condition]

lexerVars == << pc, source, offset, line, tokenOffset, tokenLine, condition, tokens >>

INVALID == 0    \* the token of action 0; other tokens are named by their actions
EndOfText == -1 \* token.EOI

\* The character at an offset, and what it is for the tables.
AtEnd(o) == o = Len(source)
Char(o) == source[o + 1]
Class(o) == IF AtEnd(o) THEN EOI ELSE inputMap[Char(o)]

Newlines(from, to) == Cardinality({ o \in from .. to - 1 : Char(o) = Newline })

\* The end of the run of characters of a set that begins at o.
EndOfRun(o, set) ==
  CHOOSE e \in o .. Len(source) : /\ \A i \in o .. e - 1 : Char(i) \in set
                                  /\ AtEnd(e) \/ Char(e) \notin set

Enter_NextChar(st, val) ==
  IF val \in 0 .. Len(dfa) - 1 THEN [st EXCEPT !.state = val]
  ELSE LET bt == backtrack[-val]
       IN  [st EXCEPT !.state = bt.next, !.backupRule = bt.action, !.backupOffset = st.offset + 1]

\* A checkpoint is remembered before its state is entered.
Enter(st, val) ==
  IF val \in 0 .. Len(dfa) - 1 THEN [st EXCEPT !.state = val]
  ELSE LET bt == backtrack[-val]
       IN  [st EXCEPT !.state = bt.next, !.backupRule = bt.action, !.backupOffset = st.offset]

\* The next character is scanned, and with it the run on which the new state loops.
Skipped(st) ==
  LET end == EndOfRun(st.offset + 1, SelfLoop(st.state))
  IN  [st EXCEPT !.offset = end, !.line = @ + Newlines(st.offset, end)]

RECURSIVE Scan(_)
Scan(st) ==
  LET val == Row(st.state)[Class(st.offset)]
  IN  CASE val <= ActionStart -> [st EXCEPT !.state = val]
        [] val > ActionStart /\ AtEnd(st.offset) -> Scan(Enter(st, val))
        [] val > ActionStart /\ ~AtEnd(st.offset) -> Scan(Skipped(Enter(st, val)))

\* Mutant: the newlines given back stay counted, and are counted again when they are read.
rewind_BackKeepsLine(st, o) ==
  IF o < st.offset THEN [st EXCEPT !.offset = o]
  ELSE [st EXCEPT !.offset = o, !.line = @ + Newlines(st.offset, o)]

rewind(st, o) ==
  IF o < st.offset THEN [st EXCEPT !.offset = o, !.line = @ - Newlines(o, st.offset)]
  ELSE [st EXCEPT !.offset = o, !.line = @ + Newlines(st.offset, o)]

\* Action 0: the last checkpoint, the end of the text, one character that no token
\* begins with, or what was read of a token that does not go on.
Matched(st) ==
  LET rule == ActionStart - st.state
  IN  CASE rule # 0 -> [st |-> st, tok |-> rule]
        [] rule = 0 /\ st.backupRule >= 0 -> [st |-> rewind(st, st.backupOffset), tok |-> st.backupRule]
        [] rule = 0 /\ st.backupRule < 0 /\ st.offset = tokenOffset' ->
             IF AtEnd(st.offset) THEN [st |-> st, tok |-> EndOfText]
             ELSE [st |-> rewind(st, st.offset + 1), tok |-> INVALID]
        [] OTHER -> [st |-> st, tok |-> INVALID]

LexerInit ==
  /\ pc = "init"
  /\ source = << >> /\ tokens = << >>
  /\ offset = 0 /\ line = 1 /\ tokenOffset = 0 /\ tokenLine = 1 /\ condition = 0

\* Init(source), once there are tables.
Open ==
  /\ stage = "ready" /\ pc = "init"
  /\ pc' = "idle"
  /\ source' \in Texts
  /\ UNCHANGED << tableVars, offset, line, tokenOffset, tokenLine, condition, tokens >>

Call ==
  /\ pc = "idle"
  /\ pc' = "scan"
  /\ condition' \in 0 .. Len(stateMap) - 1
  /\ UNCHANGED << tableVars, source, offset, line, tokenOffset, tokenLine, tokens >>

\* From restart to the next restart or the return.
ScanToken ==
  /\ pc = "scan"
  /\ LET run == EndOfRun(offset, SpaceSkip(condition))
     IN  /\ tokenOffset' = run
         /\ tokenLine' = line + Newlines(offset, run)
  /\ LET end == Matched(Scan([state |-> stateMap[condition + 1], offset |-> tokenOffset', line |-> tokenLine',
                              backupRule |-> -1, backupOffset |-> 0]))
     IN  /\ offset' = end.st.offset /\ line' = end.st.line
         /\ IF end.tok \in SpaceActions THEN UNCHANGED << pc, tokens >>
            ELSE /\ pc' = IF end.tok = EndOfText THEN "end" ELSE "idle"
                 /\ tokens' = Append(tokens, [tok |-> end.tok, start |-> tokenOffset', end |-> offset',
                                              line |-> tokenLine', condition |-> condition])
  /\ UNCHANGED << tableVars, source, condition >>

Init == TablesInit /\ LexerInit

Generate == TablesNext /\ UNCHANGED lexerVars

Finished == (stage = "failed" \/ pc = "end") /\ UNCHANGED << tableVars, lexerVars >>

Next == Generate \/ Open \/ Call \/ ScanToken \/ Finished

Spec == Init /\ [][Next]_<< tableVars, lexerVars >>
=============================================================================
