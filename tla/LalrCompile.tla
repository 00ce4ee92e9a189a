---------------------------- MODULE LalrCompile ----------------------------
(***************************************************************************)
(* lalr.Compile as a whole: the construction of the tables (Lalr, Tries),  *)
(* their minimization (Minimize) and their compression (PackedTables), one *)
(* after the other, and what each of the last two preserves.               *)
(***************************************************************************)
EXTENDS PackedTables

vars == << lalrVars, minimizeVars, packVars >>

Finished == stage \in { "done", "internal error" } /\ UNCHANGED vars

Next ==
  \/ Compile /\ UNCHANGED << minimizeVars, packVars >>
  \/ ResolveWithLookahead /\ UNCHANGED << minimizeVars, packVars >>
  \/ minimize /\ UNCHANGED packVars
  \/ Optimize
  \/ Finished

CompileInit == Init /\ MinimizeInit /\ PackInit

Spec == CompileInit /\ [][Next]_vars

-----------------------------------------------------------------------------
\* Two states in which the parser does the same on every token.
SameAction(T1, q1, T2, q2) ==
  LET Entries(T, q) == { << x[1], Class(x[2]) >> : x \in Range(T.lalr[q]) }
  IN  /\ Class(T1.action[q1]) = Class(T2.action[q2])
      /\ T1.action[q1] = -3 => Entries(T1, q1) = Entries(T2, q2)

\* minimize.go:188, "merging equivalent states (lead to the same set of parsing
\* actions for any given input)": a state and the class it was merged into have
\* the same actions, and the same transitions, to the classes of the targets; and
\* (minimize.go:64) the states that the generated code refers to by number are
\* never merged with others.
MergedStatesAgree ==
  (stage = "optimize" /\ before # << >>) =>
    /\ \A i \in InputIds : partition[i] = i
    /\ \A q \in DOMAIN before.action :
         LET c == partition[q]
         IN  /\ SameAction(before, q, tables, c)
             /\ DOMAIN tables.goto[c] = DOMAIN before.goto[q]
             /\ \A s \in DOMAIN before.goto[q] : tables.goto[c][s] = partition[before.goto[q][s]]
             /\ \A p \in DOMAIN before.action : partition[p] = c => Extra(before, p) = Extra(before, q)

\* Nothing tells where the row of a state ends in its signature: if there is a
\* terminal 8 and a rule class m, the pair of a marker, << sigMarker, m >>, also
\* is that of a row.
SignaturesTellApart(T) ==
  LET sig == [q \in DOMAIN T.action |-> stateSignature(T, q)]
  IN  \A p, q \in DOMAIN sig :
        sig[p] = sig[q] => actionSignature(T, p) = actionSignature(T, q) /\ Extra(T, p) = Extra(T, q)

MergedStatesAgreeApart ==
  (stage = "optimize" /\ before # << >> /\ SignaturesTellApart(before)) => MergedStatesAgree

-----------------------------------------------------------------------------
\* No two lines were laid on the same base (optimize.go:418 can: A: B B; B: b),
\* and no line on the one that stands for "no line" (optimize.go:219).
BasesAreUnique ==
  /\ \A x, y \in DOMAIN prev : prev[x] = prev[y] => x = y
  /\ \A x \in DOMAIN prev : prev[x] > -g.syms

\* optimize.go:20, "Check == j, if Table[D(i)+j] is a stored value": the packed
\* tables give every state the action of its row for every terminal, and the
\* target of every transition on a nonterminal.
PackedTablesAgree ==
  stage = "done" =>
    \A q \in States :
      /\ \A t \in Terms : packedAction(q, t) = wanted[q][t]
      /\ \A s \in Nonterms \intersect DOMAIN tables.goto[q] : gotoNT(q, s) = tables.goto[q][s]

PackedTablesAgreeApart == BasesAreUnique => PackedTablesAgree
=============================================================================
