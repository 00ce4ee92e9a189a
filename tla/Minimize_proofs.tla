--------------------------- MODULE Minimize_proofs ---------------------------
(***************************************************************************)
(* Theorems about Minimize, for all grammars and all values of the         *)
(* options, with proofs checked by TLAPS.                                  *)
(***************************************************************************)
EXTENDS LalrCompile_proofs

(***************************************************************************)
(* Numbered gives equal signatures, and only them, the same number.        *)
(***************************************************************************)
FirstOf(sig, i) == Min({ j \in DOMAIN sig : sig[j] = sig[i] })
SeenBefore(sig, i) == { sig[j] : j \in 0 .. FirstOf(sig, i) - 1 }

LEMMA FirstIsOne ==
  ASSUME NEW n \in Nat, NEW sig, DOMAIN sig = 0 .. n - 1, NEW i \in DOMAIN sig
  PROVE  /\ FirstOf(sig, i) \in 0 .. i
         /\ sig[FirstOf(sig, i)] = sig[i]
         /\ \A j \in 0 .. FirstOf(sig, i) - 1 : j \in DOMAIN sig /\ sig[j] # sig[i]
         /\ IsFiniteSet(SeenBefore(sig, i))
<1> DEFINE S == { j \in DOMAIN sig : sig[j] = sig[i] }
<1>1. S \in SUBSET Nat /\ i \in S
  OBVIOUS
<1>2. Min(S) \in S /\ \A y \in S : Min(S) <= y
  <2> HIDE DEF S
  <2> QED
    BY <1>1, MinOfSet
<1>3. FirstOf(sig, i) = Min(S)
  BY DEF FirstOf
<1>4. FirstOf(sig, i) \in 0 .. i /\ FirstOf(sig, i) \in DOMAIN sig
  BY <1>1, <1>2, <1>3
<1>5. \A j \in 0 .. FirstOf(sig, i) - 1 : j \in DOMAIN sig /\ j \notin S
  <2> HIDE DEF S
  <2> QED
    BY <1>2, <1>3, <1>4
<1>6. IsFiniteSet(SeenBefore(sig, i))
  <2>1. IsFiniteSet(0 .. FirstOf(sig, i) - 1)
    <3>1. 0 \in Int /\ FirstOf(sig, i) - 1 \in Int
      BY <1>4
    <3> QED
      BY <3>1, FS_Interval, Zenon
  <2> QED
    BY <2>1, ImageFinite DEF SeenBefore
<1> QED
  BY <1>2, <1>3, <1>4, <1>5, <1>6

LEMMA NumberedTells ==
  ASSUME NEW n \in Nat, NEW sig, DOMAIN sig = 0 .. n - 1,
         NEW i \in DOMAIN sig, NEW k \in DOMAIN sig
  PROVE  Numbered(sig)[i] = Numbered(sig)[k] <=> sig[i] = sig[k]
<1>1. \A j \in DOMAIN sig : Numbered(sig)[j] = Cardinality(SeenBefore(sig, j))
  BY DEF Numbered, SeenBefore, FirstOf
<1>2. sig[i] = sig[k] => SeenBefore(sig, i) = SeenBefore(sig, k)
  BY DEF SeenBefore, FirstOf
<1>3. ASSUME NEW x \in DOMAIN sig, NEW y \in DOMAIN sig, FirstOf(sig, x) < FirstOf(sig, y)
      PROVE  Cardinality(SeenBefore(sig, x)) # Cardinality(SeenBefore(sig, y))
  <2>1. FirstOf(sig, x) \in Nat /\ FirstOf(sig, y) \in Nat /\ IsFiniteSet(SeenBefore(sig, y))
    BY FirstIsOne
  <2>2. 0 .. FirstOf(sig, x) - 1 \in SUBSET (0 .. FirstOf(sig, y) - 1)
    BY <1>3, <2>1
  <2>3. SeenBefore(sig, x) \in SUBSET SeenBefore(sig, y)
    BY <2>2 DEF SeenBefore
  <2>4. sig[x] \in SeenBefore(sig, y)
    <3>1. FirstOf(sig, x) \in 0 .. FirstOf(sig, y) - 1 /\ sig[FirstOf(sig, x)] = sig[x]
      BY <1>3, <2>1, FirstIsOne
    <3> QED
      BY <3>1 DEF SeenBefore
  <2>5. sig[x] \notin SeenBefore(sig, x)
    <3>1. \A j \in 0 .. FirstOf(sig, x) - 1 : sig[j] # sig[x]
      BY FirstIsOne
    <3> QED
      BY <3>1 DEF SeenBefore
  <2> QED
    BY <2>1, <2>3, <2>4, <2>5, FS_Subset
<1>4. FirstOf(sig, i) = FirstOf(sig, k) => sig[i] = sig[k]
  BY FirstIsOne
<1>5. FirstOf(sig, i) \in Nat /\ FirstOf(sig, k) \in Nat
  BY FirstIsOne
<1>6. sig[i] # sig[k] => FirstOf(sig, i) < FirstOf(sig, k) \/ FirstOf(sig, k) < FirstOf(sig, i)
  BY <1>4, <1>5
<1> QED
  BY <1>1, <1>2, <1>3, <1>6

\* As long as signatures are new, they are numbered in order.
LEMMA NumberedInOrder ==
  ASSUME NEW n \in Nat, NEW sig, DOMAIN sig = 0 .. n - 1, NEW i \in DOMAIN sig,
         \A j, k \in 0 .. i : sig[j] = sig[k] => j = k
  PROVE  Numbered(sig)[i] = i
<1>1. FirstOf(sig, i) = i
  BY FirstIsOne
<1> DEFINE T == 0 .. i - 1
           U == { sig[j] : j \in T }
           h == [j \in T |-> sig[j]]
<1>2. Numbered(sig)[i] = Cardinality(U)
  BY <1>1 DEF Numbered, FirstOf
<1>3. IsFiniteSet(T) /\ Cardinality(T) = i
  <2>1. 0 \in Int /\ i - 1 \in Int /\ i \in Nat
    OBVIOUS
  <2>2. IsFiniteSet(T) /\ Cardinality(T) = IF 0 > i - 1 THEN 0 ELSE i - 1 - 0 + 1
    BY <2>1, FS_Interval, Zenon
  <2> QED
    BY <2>1, <2>2
<1>4. h \in Surjection(T, U) /\ h \in Injection(T, U)
  <2>1. \A j \in T : j \in 0 .. i
    OBVIOUS
  <2>2. \A j, k \in T : sig[j] = sig[k] => j = k
    BY <2>1
  <2> HIDE DEF T
  <2> QED
    BY <2>2 DEF Surjection, Injection, IsInjective
<1>5. Cardinality(U) = Cardinality(T)
  <2> HIDE DEF T, U, h
  <2> QED
    BY <1>3, <1>4, FS_Surjection
<1> QED
  BY <1>2, <1>3, <1>5

-----------------------------------------------------------------------------
(***************************************************************************)
(* A partition that is refined no further is a congruence: the successors  *)
(* of states in one class are in one class.                                *)
(***************************************************************************)
\* When two numberings of the same things have equally many numbers, and the finer
\* one decides on the coarser one, the coarser one decides on the finer one.
LEMMA EquallyFine ==
  ASSUME NEW D, IsFiniteSet(D), NEW p, NEW f, DOMAIN p = D, DOMAIN f = D,
         \A x, y \in D : f[x] = f[y] => p[x] = p[y],
         Cardinality(Range(f)) = Cardinality(Range(p)),
         NEW a \in D, NEW b \in D, p[a] = p[b]
  PROVE  f[a] = f[b]
<1> DEFINE F == Range(f)
           P == Range(p)
           h == [v \in F |-> p[CHOOSE x \in D : f[x] = v]]
<1>1. F = { f[x] : x \in D } /\ P = { p[x] : x \in D }
  BY DEF Range
<1>2. \A x \in D : h[f[x]] = p[x]
  <2> TAKE x \in D
  <2> DEFINE y == CHOOSE z \in D : f[z] = f[x]
  <2>1. y \in D /\ f[y] = f[x]
    OBVIOUS
  <2> QED
    BY <1>1, <2>1
<1>3. h \in Surjection(F, P)
  <2>1. h \in [F -> P]
    <3>1. \A v \in F : h[v] \in P
      BY <1>1, <1>2
    <3> QED
      BY <3>1
  <2> HIDE DEF h
  <2> QED
    BY <1>1, <1>2, <2>1 DEF Surjection
<1>4. IsFiniteSet(F)
  BY <1>1, ImageFinite
<1>5. h \in Injection(F, P)
  <2>1. Cardinality(F) = Cardinality(P)
    OBVIOUS
  <2> HIDE DEF h, F, P
  <2> QED
    BY <1>3, <1>4, <2>1, FS_Surjection
<1>6. f[a] \in F /\ f[b] \in F /\ h[f[a]] = h[f[b]]
  BY <1>1, <1>2
<1> HIDE DEF h
<1> QED
  BY <1>5, <1>6 DEF Injection, IsInjective

\* Three steps of a proof that states in one class are alike: by actions, by
\* successors, and by what the next round tells apart.
SameClassSameSignature ==
  \A p, q \in States :
    partition[p] = partition[q] => stateSignature(tables, p) = stateSignature(tables, q)

InputsKept == \A i \in InputIds : partition[i] = i

Alike == SameClassSameSignature /\ (SignaturesTellApart(tables) => InputsKept)

Unmerged == { "states", "follow", "la", "tables", "resolve", "minimize", "refine" }

\* What holds while states are merged.
Merging ==
  /\ stage \in Unmerged => before = << >>
  /\ stage = "refine" => Alike

LEMMA StatesFromZero ==
  ASSUME Compiling, stage \in { "minimize", "refine" }
  PROVE  \E n \in Nat : /\ States = 0 .. n - 1
                        /\ \A i \in InputIds : i \in 0 .. n - 1 /\ 0 .. i \in SUBSET InputIds
<1>1. TablesWhole /\ Len(g.inputs) \in Nat
  BY GrammarTyped DEF Compiling
<1>2. PICK n \in Nat : n >= Len(g.inputs) /\ States = 0 .. n - 1
  BY <1>1 DEF TablesWhole
<1>3. ASSUME NEW i \in InputIds
      PROVE  i \in 0 .. n - 1 /\ 0 .. i \in SUBSET InputIds
  <2>1. i \in Int /\ 0 <= i /\ i <= Len(g.inputs) - 1
    BY <1>1, <1>3 DEF InputIds
  <2>2. i \in 0 .. n - 1
    BY <1>1, <1>2, <2>1
  <2>3. \A k \in 0 .. i : k \in 0 .. Len(g.inputs) - 1
    BY <1>1, <2>1
  <2> QED
    BY <2>2, <2>3 DEF InputIds
<1> QED
  BY <1>2, <1>3

\* The signatures change with the tables and the grammar only.
LEMMA SignaturesStay ==
  ASSUME g' = g, tables' = tables
  PROVE  /\ SameClassSameSignature' <=> \A p, q \in States :
              partition'[p] = partition'[q] => stateSignature(tables, p) = stateSignature(tables, q)
         /\ SignaturesTellApart(tables)' <=> SignaturesTellApart(tables)
<1>1. RuleIds' = RuleIds /\ InputIds' = InputIds /\ States' = States /\ ruleClass' = ruleClass
  BY DEF RuleIds, InputIds, States, ruleClass, Lhs, Rhs
<1>2. \A q : Extra(tables, q)' = Extra(tables, q)
  BY <1>1 DEF Extra
<1>3. \A q : actionSignature(tables, q)' = actionSignature(tables, q)
  BY <1>1 DEF actionSignature, Class
<1>4. \A q : stateSignature(tables, q)' = stateSignature(tables, q)
  BY <1>2, <1>3 DEF stateSignature
<1> QED
  <2>1. SameClassSameSignature' <=> \A p, q \in States :
              partition'[p] = partition'[q] => stateSignature(tables, p) = stateSignature(tables, q)
    BY <1>1, <1>4 DEF SameClassSameSignature
  <2>2. SignaturesTellApart(tables)' <=> SignaturesTellApart(tables)
    <3>1. [q \in DOMAIN tables.action |-> stateSignature(tables, q)]' =
          [q \in DOMAIN tables.action |-> stateSignature(tables, q)]
      BY <1>4
    <3> QED
      BY <1>2, <1>3, <3>1 DEF SignaturesTellApart
  <2> QED
    BY <2>1, <2>2

LEMMA RefinedTells ==
  ASSUME Compiling, stage = "refine", NEW p \in States, NEW q \in States
  PROVE  Refined[p] = Refined[q] <=> partition[p] = partition[q] /\ Successors(p) = Successors(q)
<1> DEFINE sig == [x \in States |-> << sigPartition, partition[x], Successors(x) >>]
<1>1. PICK n \in Nat : States = 0 .. n - 1
  BY StatesFromZero
<1>2. Refined = Numbered(sig)
  BY DEF Refined
<1>3. Numbered(sig)[p] = Numbered(sig)[q] <=> sig[p] = sig[q]
  <2>1. DOMAIN sig = 0 .. n - 1
    BY <1>1
  <2> HIDE DEF sig
  <2> QED
    BY <1>1, <2>1, NumberedTells
<1>4. sig[p] = << sigPartition, partition[p], Successors(p) >>
      /\ sig[q] = << sigPartition, partition[q], Successors(q) >>
  OBVIOUS
<1> HIDE DEF sig
<1> QED
  BY <1>2, <1>3, <1>4

LEMMA ConvergedIsCongruence ==
  ASSUME Compiling, stage = "refine", Converged,
         NEW p \in States, NEW q \in States, partition[p] = partition[q]
  PROVE  Successors(p) = Successors(q)
<1>1. IsFiniteSet(States) /\ DOMAIN partition = States
  BY DEF Compiling, HasTables, TablesTyped
<1>2. DOMAIN Refined = States
  BY DEF Refined, Numbered
<1>3. \A x, y \in States : Refined[x] = Refined[y] => partition[x] = partition[y]
  BY RefinedTells
<1>4. Cardinality(Range(Refined)) = Cardinality(Range(partition))
  BY DEF Converged, Classes
<1>5. Refined[p] = Refined[q]
  BY <1>1, <1>2, <1>3, <1>4, EquallyFine
<1> QED
  BY <1>5, RefinedTells

LEMMA TellApart ==
  ASSUME SignaturesTellApart(tables), NEW p \in States, NEW q \in States,
         stateSignature(tables, p) = stateSignature(tables, q)
  PROVE  actionSignature(tables, p) = actionSignature(tables, q) /\ Extra(tables, p) = Extra(tables, q)
BY DEF SignaturesTellApart, States

LEMMA PartitionMerges == Compiling /\ Partition => Alike'
<1> SUFFICES ASSUME Compiling, Partition
             PROVE  Alike'
  OBVIOUS
<1> DEFINE sig == [q \in States |-> stateSignature(tables, q)]
<1>1. /\ stage = "minimize" /\ g' = g /\ tables' = tables
      /\ partition' = Numbered(sig)
  BY DEF Partition
<1>2. PICK n \in Nat : /\ States = 0 .. n - 1
                       /\ \A i \in InputIds : i \in 0 .. n - 1 /\ 0 .. i \in SUBSET InputIds
  BY <1>1, StatesFromZero
<1>3. \A p, q \in States : partition'[p] = partition'[q] =>
                             stateSignature(tables, p) = stateSignature(tables, q)
  <2>1. DOMAIN sig = 0 .. n - 1 /\ \A q \in States : sig[q] = stateSignature(tables, q)
    BY <1>2
  <2> HIDE DEF sig
  <2> QED
    BY <1>1, <1>2, <2>1, NumberedTells
<1>4. ASSUME SignaturesTellApart(tables), NEW i \in InputIds
      PROVE  partition'[i] = i
  <2>1. \A j, k \in InputIds : j \in States /\ k \in States
                               /\ (Extra(tables, j) = Extra(tables, k) => j = k)
    <3> TAKE j \in InputIds, k \in InputIds
    <3>1. << sigStart, j >> \in Extra(tables, j)
      BY DEF Extra
    <3>2. << sigStart, j >> \in Extra(tables, k) => j = k
      BY DEF Extra, sigStart, sigFinal, sigMarker
    <3> QED
      BY <1>2, <3>1, <3>2
  <2>2. \A j, k \in InputIds : sig[j] = sig[k] => j = k
    BY <1>4, <2>1, TellApart
  <2>3. DOMAIN sig = 0 .. n - 1
    BY <1>2
  <2>4. \A j, k \in 0 .. i : sig[j] = sig[k] => j = k
    <3> HIDE DEF sig
    <3> QED
      BY <1>2, <2>2
  <2> HIDE DEF sig
  <2> QED
    BY <1>1, <1>2, <2>3, <2>4, NumberedInOrder
<1>5. SameClassSameSignature'
  BY <1>1, <1>3, SignaturesStay
<1>6. SignaturesTellApart(tables)' => InputsKept'
  BY <1>1, <1>4, SignaturesStay DEF InputsKept, InputIds
<1> QED
  BY <1>5, <1>6 DEF Alike

LEMMA RefineMerges == Compiling /\ Merging /\ Refine => Alike'
<1> SUFFICES ASSUME Compiling, Merging, Refine
             PROVE  Alike'
  OBVIOUS
<1>1. /\ stage = "refine" /\ g' = g /\ tables' = tables
      /\ partition' = Refined
  BY DEF Refine
<1>2. PICK n \in Nat : /\ States = 0 .. n - 1
                       /\ \A i \in InputIds : i \in 0 .. n - 1 /\ 0 .. i \in SUBSET InputIds
  BY <1>1, StatesFromZero
<1>3. SameClassSameSignature'
  BY <1>1, RefinedTells, SignaturesStay DEF Merging, Alike, SameClassSameSignature
<1>4. ASSUME SignaturesTellApart(tables), NEW i \in InputIds
      PROVE  Refined[i] = i
  <2> DEFINE sig == [q \in States |-> << sigPartition, partition[q], Successors(q) >>]
  <2>1. Refined = Numbered(sig)
    BY DEF Refined
  <2>2. \A j \in InputIds : partition[j] = j /\ j \in States
    BY <1>1, <1>2, <1>4 DEF Merging, Alike, InputsKept
  <2>3. \A j, k \in InputIds : sig[j] = sig[k] => j = k
    BY <2>2
  <2>4. DOMAIN sig = 0 .. n - 1
    BY <1>2
  <2>5. \A j, k \in 0 .. i : sig[j] = sig[k] => j = k
    <3> HIDE DEF sig
    <3> QED
      BY <1>2, <2>3
  <2> HIDE DEF sig
  <2> QED
    BY <1>2, <2>1, <2>4, <2>5, NumberedInOrder
<1>5. SignaturesTellApart(tables)' => InputsKept'
  BY <1>1, <1>4, SignaturesStay DEF InputsKept, InputIds
<1> QED
  BY <1>3, <1>5 DEF Alike

\* States that do the same by their signatures do the same.
LEMMA SignatureGivesAction ==
  ASSUME TablesWhole, NEW p \in States, NEW q \in States,
         actionSignature(tables, p) = actionSignature(tables, q)
  PROVE  /\ Class(tables.action[p]) = Class(tables.action[q])
         /\ tables.action[p] = -3 => tables.action[q] = -3
         /\ tables.action[p] = -3 =>
              [k \in DOMAIN tables.lalr[p] |-> << tables.lalr[p][k][1], Class(tables.lalr[p][k][2]) >>]
              = [k \in DOMAIN tables.lalr[q] |-> << tables.lalr[q][k][1], Class(tables.lalr[q][k][2]) >>]
<1> DEFINE row(x) == [k \in DOMAIN tables.lalr[x] |-> << tables.lalr[x][k][1], Class(tables.lalr[x][k][2]) >>]
           sig(x) == actionSignature(tables, x)
<1>1. /\ tables.action[p] \in RuleIds \union { -1, -2, -3 }
      /\ tables.action[q] \in RuleIds \union { -1, -2, -3 }
      /\ \A r \in RuleIds : r \in Nat
  BY DEF TablesWhole, RuleIds
<1>2. ASSUME NEW x, tables.action[x] \in RuleIds
      PROVE  /\ sig(x) = << << sigReduce, ruleClass[tables.action[x]] >>, << >> >>
             /\ Class(tables.action[x]) = ruleClass[tables.action[x]]
  <2>1. tables.action[x] \in Nat
    BY <1>1, <1>2
  <2>2. Class(tables.action[x]) = ruleClass[tables.action[x]]
    BY <1>2 DEF Class
  <2>3. tables.action[x] >= 0 /\ tables.action[x] # -1 /\ tables.action[x] # -2 /\ tables.action[x] # -3
    BY <2>1
  <2> QED
    BY <2>2, <2>3 DEF actionSignature
<1>3. ASSUME NEW x, tables.action[x] = -1
      PROVE  sig(x) = << << sigShift >>, << >> >>
  BY <1>3 DEF actionSignature
<1>4. ASSUME NEW x, tables.action[x] = -2
      PROVE  sig(x) = << << sigError >>, << >> >>
  BY <1>4 DEF actionSignature
<1>5. ASSUME NEW x, tables.action[x] = -3
      PROVE  sig(x) = << << sigLookahead >>, row(x) >>
  <2>1. actionSignature(tables, x) =
          CASE tables.action[x] >= 0 -> << << sigReduce, ruleClass[tables.action[x]] >>, << >> >>
            [] tables.action[x] = -1 -> << << sigShift >>, << >> >>
            [] tables.action[x] = -2 -> << << sigError >>, << >> >>
            [] tables.action[x] = -3 -> << << sigLookahead >>, row(x) >>
    BY Zenon DEF actionSignature
  <2> HIDE DEF row
  <2> QED
    BY <1>5, <2>1
<1>6. \A x : /\ tables.action[x] \in RuleIds => sig(x)[1][1] = 1 /\ sig(x)[1][2] = ruleClass[tables.action[x]]
             /\ tables.action[x] = -1 => sig(x)[1][1] = 2
             /\ tables.action[x] = -2 => sig(x)[1][1] = 3
             /\ tables.action[x] = -3 => sig(x)[1][1] = 4 /\ sig(x)[2] = row(x)
  <2> HIDE DEF sig, row
  <2> QED
    BY <1>2, <1>3, <1>4, <1>5 DEF sigReduce, sigShift, sigError, sigLookahead
<1>7. sig(p) = sig(q)
  OBVIOUS
<1>8. /\ Class(tables.action[p]) = Class(tables.action[q])
      /\ tables.action[p] = -3 => tables.action[q] = -3
  <2> HIDE DEF sig, row
  <2>1. tables.action[p] = -3 <=> tables.action[q] = -3
    BY <1>1, <1>6, <1>7
  <2>2. tables.action[p] \in RuleIds <=> tables.action[q] \in RuleIds
    BY <1>1, <1>6, <1>7
  <2>3. tables.action[p] \in RuleIds => Class(tables.action[p]) = Class(tables.action[q])
    BY <1>2, <1>6, <1>7, <2>2
  <2>4. tables.action[p] \notin RuleIds => tables.action[p] = tables.action[q]
    BY <1>1, <1>6, <1>7, <2>1, <2>2
  <2> QED
    BY <2>1, <2>3, <2>4
<1>9. tables.action[p] = -3 => row(p) = row(q)
  <2> HIDE DEF sig, row
  <2> QED
    BY <1>6, <1>7, <1>8
<1> QED
  BY <1>8, <1>9

LEMMA RebuildAgrees == Compiling /\ Merging /\ Rebuild => MergedStatesAgreeApart'
<1> SUFFICES ASSUME Compiling, Merging, Rebuild, SignaturesTellApart(before)'
             PROVE  MergedStatesAgree'
  BY DEF MergedStatesAgreeApart
<1>1. /\ stage = "refine" /\ Converged
      /\ g' = g /\ before' = tables /\ partition' = partition
      /\ TablesTyped /\ TablesWhole /\ partition \in [States -> Nat]
  BY DEF Rebuild, Compiling, HasTables
<1> DEFINE action  == [c \in Classes(partition) |-> tables.action[Max(Members(c))]]
           lalr    == [c \in Classes(partition) |-> tables.lalr[Max(Members(c))]]
           goto    == [c \in Classes(partition) |->
                         LET row == tables.goto[Min(Members(c))]
                         IN  [s \in DOMAIN row |-> partition[row[s]]]]
           final0  == [i \in DOMAIN tables.final |-> partition[tables.final[i]]]
           markers == [m \in DOMAIN tables.markers |-> { partition[q] : q \in tables.markers[m] }]
<1>2. tables'.action = action /\ tables'.lalr = lalr /\ tables'.goto = goto
  <2>1. tables' = [tables EXCEPT !.action = action, !.lalr = lalr, !.goto = goto,
                                 !.final = final0, !.markers = markers]
    BY DEF Rebuild
  <2> HIDE DEF action, lalr, goto, final0, markers
  <2> QED
    BY <1>1, <2>1 DEF TablesTyped
<1>3. RuleIds' = RuleIds /\ InputIds' = InputIds /\ ruleClass' = ruleClass
  BY <1>1 DEF RuleIds, InputIds, ruleClass, Lhs, Rhs
<1>4. SignaturesTellApart(tables)
  <2>1. \A q : /\ Extra(before, q)' = Extra(tables, q)
               /\ actionSignature(before, q)' = actionSignature(tables, q)
    BY <1>1, <1>3 DEF Extra, actionSignature, Class
  <2>2. \A q : stateSignature(before, q)' = stateSignature(tables, q)
    BY <2>1 DEF stateSignature
  <2> QED
    BY <1>1, <2>1, <2>2 DEF SignaturesTellApart
<1>5. InputsKept /\ SameClassSameSignature
  BY <1>1, <1>4 DEF Merging, Alike
<1>6. ASSUME NEW q \in States
      PROVE  LET c == partition[q]
             IN  /\ c \in Classes(partition)
                 /\ Max(Members(c)) \in Members(c) /\ Min(Members(c)) \in Members(c)
  <2> DEFINE S == Members(partition[q])
  <2>1. q \in S /\ S \in SUBSET States
    BY DEF Members
  <2>2. S \in SUBSET Nat /\ IsFiniteSet(S)
    <3> HIDE DEF S
    <3> QED
      BY <1>1, <2>1, SubsetFinite DEF TablesTyped
  <2>3. Max(S) \in S /\ Min(S) \in S
    <3> HIDE DEF S
    <3> QED
      BY <2>1, <2>2, MaxOfFinite, MinOfSet
  <2>4. partition[q] \in Classes(partition)
    BY <1>1 DEF Classes, Range
  <2> QED
    BY <2>3, <2>4
<1>7. ASSUME NEW q \in States, NEW p \in States, partition[p] = partition[q]
      PROVE  /\ actionSignature(tables, p) = actionSignature(tables, q)
             /\ Extra(tables, p) = Extra(tables, q)
             /\ Successors(p) = Successors(q)
  <2>1. stateSignature(tables, p) = stateSignature(tables, q)
    BY <1>5, <1>7 DEF SameClassSameSignature
  <2> QED
    BY <1>1, <1>4, <1>7, <2>1, ConvergedIsCongruence, TellApart
<1>8. ASSUME NEW q \in States
      PROVE  SameAction(before, q, tables, partition[q])'
  <2> DEFINE p == Max(Members(partition[q]))
             row(x) == [k \in DOMAIN tables.lalr[x] |->
                          << tables.lalr[x][k][1], Class(tables.lalr[x][k][2]) >>]
             Entries(x) == { << y[1], Class(y[2]) >> : y \in Range(tables.lalr[x]) }
  <2>1. p \in States /\ partition[p] = partition[q]
    BY <1>6 DEF Members
  <2>2. actionSignature(tables, q) = actionSignature(tables, p)
    <3> HIDE DEF p
    <3> QED
      BY <1>7, <2>1
  <2>3. /\ Class(tables.action[q]) = Class(tables.action[p])
        /\ tables.action[q] = -3 => row(q) = row(p)
    <3> HIDE DEF p
    <3> QED
      BY <1>1, <2>1, <2>2, SignatureGivesAction
  <2>4. \A x : Entries(x) = Range(row(x))
    BY DEF Range
  <2>5. tables'.action[partition[q]] = tables.action[p] /\ tables'.lalr[partition[q]] = tables.lalr[p]
    BY <1>2, <1>6
  <2>6. tables.action[q] = -3 => Entries(q) = Entries(p)
    <3> HIDE DEF Entries, row, p
    <3> QED
      BY <2>3, <2>4
  <2> HIDE DEF p
  <2> QED
    BY <1>1, <1>3, <2>3, <2>5, <2>6 DEF SameAction, Class
<1>9. ASSUME NEW q \in States
      PROVE  /\ DOMAIN tables'.goto[partition[q]] = DOMAIN tables.goto[q]
             /\ \A s \in DOMAIN tables.goto[q] :
                  tables'.goto[partition[q]][s] = partition[tables.goto[q][s]]
  <2> DEFINE p == Min(Members(partition[q]))
  <2>1. p \in States /\ partition[p] = partition[q]
    BY <1>6 DEF Members
  <2>2. tables'.goto[partition[q]] = Successors(p)
    BY <1>2, <1>6 DEF Successors
  <2>3. Successors(p) = Successors(q)
    <3> HIDE DEF p
    <3> QED
      BY <1>7, <2>1
  <2> HIDE DEF p
  <2> QED
    BY <2>2, <2>3 DEF Successors
<1>10. \A q \in States : \A p \in States :
         partition[p] = partition[q] => Extra(before, p)' = Extra(before, q)'
  <2>1. \A q : Extra(before, q)' = Extra(tables, q)
    BY <1>1, <1>3 DEF Extra
  <2> QED
    BY <1>7, <2>1
<1> QED
  BY <1>1, <1>3, <1>5, <1>8, <1>9, <1>10 DEF MergedStatesAgree, States, InputsKept

LEMMA MergingStep ==
  Compiling /\ (Merging /\ MergedStatesAgreeApart) /\ [Next]_vars
    => (Merging /\ MergedStatesAgreeApart)'
<1> SUFFICES ASSUME Compiling, Merging, MergedStatesAgreeApart, [Next]_vars
             PROVE  Merging' /\ MergedStatesAgreeApart'
  OBVIOUS
<1>1. CASE Partition
  <2>1. stage' # "optimize"
    BY <1>1 DEF Partition
  <2>2. stage = "minimize" /\ before' = before /\ stage' = "refine"
    BY <1>1 DEF Partition
  <2> QED
    BY <1>1, <2>1, <2>2, PartitionMerges DEF MergedStatesAgreeApart, Merging, Unmerged
<1>2. CASE Refine
  <2>1. stage = "refine" /\ stage' = stage /\ before' = before
    BY <1>2 DEF Refine
  <2> QED
    BY <1>2, <2>1, RefineMerges DEF MergedStatesAgreeApart, Merging, Unmerged
<1>3. CASE Rebuild
  <2>1. stage' = "optimize"
    BY <1>3 DEF Rebuild
  <2> QED
    BY <1>3, <2>1, RebuildAgrees DEF Merging, Unmerged
<1>4. CASE KeepStates
  <2>1. stage = "minimize" /\ stage' = "optimize" /\ before' = before
    BY <1>4 DEF KeepStates, minimizeVars
  <2>2. before' = << >>
    BY <2>1 DEF Merging, Unmerged
  <2> QED
    BY <2>1, <2>2 DEF Merging, Unmerged, MergedStatesAgreeApart, MergedStatesAgree
<1>5. CASE (Compile \/ ResolveWithLookahead) /\ UNCHANGED minimizeVars
  <2>1. stage' \notin { "refine", "optimize" } /\ before' = before /\ stage \in Unmerged
    BY <1>5 DEF minimizeVars, Unmerged, Compile, ComputeState, AddFinalStates, BuildFollow, BuildLA, PopulateTables,
                ResolveWithLookahead, minimizeVars
  <2> QED
    BY <2>1 DEF Merging, Unmerged, MergedStatesAgreeApart
<1>6. CASE Optimize
  <2>1. stage' \notin Unmerged /\ stage' # "optimize"
    BY <1>6 DEF Optimize, EncodeRows, RefuseTries, Place, Finish, Unmerged
  <2> QED
    BY <2>1 DEF Merging, Unmerged, MergedStatesAgreeApart
<1>7. CASE UNCHANGED vars
  <2>1. /\ g' = g /\ tables' = tables /\ stage' = stage
        /\ partition' = partition /\ before' = before
    BY <1>7 DEF vars, lalrVars, minimizeVars
  <2>2. Merging'
    <3>1. InputIds' = InputIds /\ States' = States
      BY <2>1 DEF InputIds, States
    <3>2. InputsKept' <=> InputsKept
      BY <2>1, <3>1 DEF InputsKept
    <3>3. SameClassSameSignature' <=> SameClassSameSignature
      BY <2>1, SignaturesStay DEF SameClassSameSignature
    <3>4. SignaturesTellApart(tables)' <=> SignaturesTellApart(tables)
      BY <2>1, SignaturesStay
    <3> QED
      BY <2>1, <3>2, <3>3, <3>4 DEF Merging, Unmerged, Alike
  <2>3. MergedStatesAgreeApart'
    <3>1. /\ RuleIds' = RuleIds /\ InputIds' = InputIds /\ ruleClass' = ruleClass
      BY <2>1 DEF RuleIds, InputIds, ruleClass, Lhs, Rhs
    <3>2. \A q : Extra(before, q)' = Extra(before, q)
      BY <2>1, <3>1 DEF Extra
    <3>3. \A q : stateSignature(before, q)' = stateSignature(before, q)
                 /\ actionSignature(before, q)' = actionSignature(before, q)
      <4>1. \A q : actionSignature(before, q)' = actionSignature(before, q)
        BY <2>1, <3>1 DEF actionSignature, Class
      <4> QED
        BY <3>2, <4>1 DEF stateSignature
    <3>4. SignaturesTellApart(before)' <=> SignaturesTellApart(before)
      <4>1. [q \in DOMAIN before.action |-> stateSignature(before, q)]' =
            [q \in DOMAIN before.action |-> stateSignature(before, q)]
        BY <2>1, <3>3
      <4> QED
        BY <3>2, <3>3, <4>1 DEF SignaturesTellApart
    <3>5. MergedStatesAgree' <=> MergedStatesAgree
      <4>1. \A q, c : SameAction(before, q, tables, c)' <=> SameAction(before, q, tables, c)
        BY <2>1, <3>1 DEF SameAction, Class
      <4> QED
        BY <2>1, <3>1, <3>2, <4>1 DEF MergedStatesAgree
    <3> QED
      BY <2>1, <3>1, <3>4, <3>5 DEF MergedStatesAgreeApart
  <2> QED
    BY <2>2, <2>3
<1> QED
  BY <1>1, <1>2, <1>3, <1>4, <1>5, <1>6, <1>7 DEF Next, Finished, minimize

\* Merging states changes nothing: as long as signatures tell rows and markers
\* apart, a state and the class that it was merged into do the same on every token,
\* their transitions lead to the same classes, the inputs start in the states
\* they started in, and the states that the generated code knows by number are
\* merged with each other at most; for every grammar.
THEOREM MergingIsSound == Spec => []MergedStatesAgreeApart
<1>1. CompileInit => Compiling /\ (Merging /\ MergedStatesAgreeApart)
  BY CompilingInit DEF CompileInit, Init, MinimizeInit, Merging, Unmerged, MergedStatesAgreeApart
<1>2. (Compiling /\ (Merging /\ MergedStatesAgreeApart)) /\ [Next]_vars
        => (Compiling /\ (Merging /\ MergedStatesAgreeApart))'
  BY CompilingStep, MergingStep
<1> QED
  BY <1>1, <1>2, PTL DEF Spec
=============================================================================
