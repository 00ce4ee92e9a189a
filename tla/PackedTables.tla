---------------------------- MODULE PackedTables ----------------------------
(***************************************************************************)
(* Optimize, lalr/optimize.go: the tables become rows with their most      *)
(* frequent value taken out, and the rows are laid over each other in one  *)
(* array.  It runs on the result of Lalr or Minimize.                      *)
(***************************************************************************)
EXTENDS Minimize

VARIABLES
  enc,      \* the result: defAct, action (by state), defGoto, goto (by nonterminal)
  lines,    \* the lines to be placed: target -> pairs
  table,    \* position -> [check, value]; absent where Check is -1
  prev,     \* pairs -> the base they were placed at
  wanted    \* state -> terminal -> the action its row stands for

packVars == << enc, lines, table, prev, wanted >>

PackInit == enc = <<>> /\ lines = <<>> /\ table = <<>> /\ prev = <<>> /\ wanted = <<>>

Base == -g.terms
size == IF DOMAIN table = {} THEN 0 ELSE Max(DOMAIN table) + 1

\* The most common value of f, the smallest of several.
pickDefault(f) ==
  LET count(v) == Cardinality({ x \in DOMAIN f : f[x] = v })
      most     == Max({ count(v) : v \in Range(f) })
  IN  Min({ v \in Range(f) : count(v) = most })

\* The row of a state over all terminals: -1 error, -2 - q shift to q, or a rule.
\* With defaultReduce the terminals without an action get the most common
\* reduction.
NextOf(q, defaultReduce) ==
  LET row      == tables.lalr[q]
      shift(t) == -2 - tables.goto[q][t]
      reduces  == { k \in DOMAIN row : row[k][2] >= 0 }
      undef    == IF defaultReduce /\ reduces # {} THEN pickDefault([k \in reduces |-> row[k][2]])
                  ELSE -1
      Entry(t) == LET k == { k \in DOMAIN row : row[k][1] = t }
                  IN  IF k = {} THEN undef
                      ELSE LET a == row[Max(k)][2]
                           IN  CASE a = -1 -> shift(t) [] a = -2 -> -1 [] OTHER -> a
  IN  [t \in Terms |-> CASE tables.action[q] >= 0 -> tables.action[q]
                         [] tables.action[q] = -1 -> IF t \in DOMAIN tables.goto[q] THEN shift(t)
                                                     ELSE -1
                         [] tables.action[q] = -2 -> -1
                         [] tables.action[q] = -3 -> Entry(t)]

Except(f, v) == [x \in { x \in DOMAIN f : f[x] # v } |-> f[x]]

\* The targets of a nonterminal by the state it is reduced in.
GotosOn(s) == [q \in { q \in States : s \in DOMAIN tables.goto[q] } |-> tables.goto[q][s]]

\* What a line is for: the state q, or, as -1 - k, the k-th nonterminal from 0.
Targets == States \union { -1 - k : k \in 0 .. g.syms - g.terms - 1 }
NontermOf(target) == g.terms - 1 - target

\* Everything Optimize does before pack: the defaults, and a line for every row
\* and every nonterminal that differs from its default somewhere.
EncodeRows ==
  /\ stage = "optimize" /\ tables.tries = << >>
  /\ \E defaultReduce \in BOOLEAN :
       LET next    == [q \in States |-> NextOf(q, defaultReduce)]
           defAct  == [q \in States |-> pickDefault(next[q])]
           defGoto == [s \in Nonterms |-> IF DOMAIN GotosOn(s) = {} THEN -1
                                          ELSE pickDefault(GotosOn(s))]
           Line(x) == IF x >= 0 THEN Except(next[x], defAct[x])
                      ELSE Except(GotosOn(NontermOf(x)), defGoto[NontermOf(x)])
       IN  /\ lines' = [x \in { x \in Targets : DOMAIN Line(x) # {} } |-> Line(x)]
           /\ enc' = [defAct |-> defAct, action |-> [q \in States |-> Base],
                      defGoto |-> defGoto, goto |-> [s \in Nonterms |-> -g.syms]]
           /\ wanted' = next
  /\ stage' = "pack"
  /\ UNCHANGED << g, states, at, final, follow, la, tables, partition, before, table, prev >>

\* A pointer to a trie is no action that Optimize knows; it ends the program.
RefuseTries ==
  /\ stage = "optimize" /\ tables.tries # << >>
  /\ stage' = "internal error"
  /\ UNCHANGED << g, states, at, final, follow, la, tables, partition, before, packVars >>

\* Mutant: the places of all pairs but the first are not looked at.
search_FirstOnly(pairs) ==
  LET min  == Min(DOMAIN pairs)
      free == { c \in 0 .. size - 1 : c - min \notin Range(prev) /\ c \notin DOMAIN table }
  IN  (IF free = {} THEN size ELSE Min(free)) - min

\* search: the first offset below `size` where all pairs fall on free places
\* and that no other line has as its base; behind the end if there is none.
search(pairs) ==
  LET min  == Min(DOMAIN pairs)
      free == { c \in 0 .. size - 1 :
                  /\ c - min \notin Range(prev)
                  /\ \A x \in DOMAIN pairs : c - min + x \notin DOMAIN table }
  IN  (IF free = {} THEN size ELSE Min(free)) - min

\* pack goes through the lines by falling number of pairs, those of states first
\* and each kind in ascending order where the numbers are equal.
Precedes(x, y) ==
  LET n(z) == Cardinality(DOMAIN lines[z])
  IN  n(x) > n(y) \/ (n(x) = n(y) /\ IF x >= 0 /\ y >= 0 THEN x < y ELSE x > y)

\* place, for the next line: lines with the same pairs share a place.
Place ==
  /\ stage = "pack"
  /\ \E target \in DOMAIN lines :
       /\ \A other \in DOMAIN lines \ { target } : Precedes(target, other)
       /\ LET pairs == lines[target]
              base  == IF pairs \in DOMAIN prev THEN prev[pairs] ELSE search(pairs)
              taken == { base + i : i \in DOMAIN pairs }
          IN  /\ table' = [x \in taken \union DOMAIN table |->
                             IF x \in taken THEN [check |-> x - base, value |-> pairs[x - base]]
                             ELSE table[x]]
              /\ prev' = [p \in DOMAIN prev \union { pairs } |-> IF p = pairs THEN base ELSE prev[p]]
              /\ enc' = IF target >= 0 THEN [enc EXCEPT !.action[target] = base]
                        ELSE [enc EXCEPT !.goto[NontermOf(target)] = base]
       /\ lines' = [x \in DOMAIN lines \ { target } |-> lines[x]]
  /\ UNCHANGED << g, states, at, final, follow, la, tables, stage, partition, before, wanted >>

Finish ==
  /\ stage = "pack" /\ DOMAIN lines = {}
  /\ stage' = "done"
  /\ UNCHANGED << g, states, at, final, follow, la, tables, partition, before, enc, lines, table,
                  prev, wanted >>

Optimize == EncodeRows \/ RefuseTries \/ Place \/ Finish

-----------------------------------------------------------------------------
\* The lookups of the generated parser (parsers/json/parser.go).
\* Mutant: Check is not compared.
Stored_Any(pos, x) == pos \in DOMAIN table

Stored(pos, x) == pos \in DOMAIN table /\ table[pos].check = x

packedAction(q, t) ==
  LET pos == enc.action[q] + t
  IN  IF enc.action[q] > Base /\ Stored(pos, t) THEN table[pos].value ELSE enc.defAct[q]

gotoNT(q, s) ==
  LET pos == enc.goto[s] + q
  IN  IF Stored(pos, q) THEN table[pos].value ELSE enc.defGoto[s]
=============================================================================
