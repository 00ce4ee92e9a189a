------------------------- MODULE LalrCompile_proofs -------------------------
(***************************************************************************)
(* Theorems about LalrCompile, for all grammars and all values of the      *)
(* options, with proofs checked by TLAPS.                                  *)
(***************************************************************************)
EXTENDS LalrCompile, CommonLemmas, FiniteSetTheorems, SequenceTheorems

LEMMA ImageFinite ==
  ASSUME NEW S, IsFiniteSet(S), NEW f
  PROVE  LET T == { f[x] : x \in S }
         IN  IsFiniteSet(T) /\ Cardinality(T) \in Nat /\ Cardinality(T) <= Cardinality(S)
<1> DEFINE T == { f[x] : x \in S }
           h == [x \in S |-> f[x]]
<1>1. h \in Surjection(S, T)
  BY DEF Surjection
<1> HIDE DEF h
<1>2. IsFiniteSet(T) /\ Cardinality(T) <= Cardinality(S)
  BY <1>1, FS_Surjection
<1> QED
  BY <1>2, FS_CardinalityType

LEMMA SubsetFinite ==
  ASSUME NEW S, IsFiniteSet(S), NEW T \in SUBSET S
  PROVE  IsFiniteSet(T) /\ Cardinality(T) \in Nat /\ Cardinality(T) <= Cardinality(S)
<1>1. IsFiniteSet(T) /\ Cardinality(T) <= Cardinality(S)
  BY FS_Subset
<1> QED
  BY <1>1, FS_CardinalityType

-----------------------------------------------------------------------------
(***************************************************************************)
(* The operators that number things.                                       *)
(***************************************************************************)
Rank(S, x) == Cardinality({ y \in S : y < x })

\* The elements of a finite set of integers have different ranks, so every rank
\* is that of an element.
LEMMA EveryRankTaken ==
  ASSUME NEW S \in SUBSET Int, IsFiniteSet(S), NEW k \in 1 .. Cardinality(S)
  PROVE  \E x \in S : Rank(S, x) = k - 1
<1> DEFINE T == 0 .. Cardinality(S) - 1
           rank == [x \in S |-> Rank(S, x)]
<1>1. Cardinality(S) \in Nat
  BY FS_CardinalityType
<1>2. ASSUME NEW x \in S
      PROVE  Rank(S, x) \in T
  <2>1. { y \in S : y < x } \in SUBSET S /\ x \notin { y \in S : y < x }
    OBVIOUS
  <2>2. /\ Cardinality({ y \in S : y < x }) \in Nat
        /\ Cardinality({ y \in S : y < x }) <= Cardinality(S)
        /\ Cardinality({ y \in S : y < x }) # Cardinality(S)
    BY <2>1, FS_Subset, FS_CardinalityType
  <2> QED
    BY <1>1, <2>2 DEF Rank
<1>3. ASSUME NEW x \in S, NEW z \in S, x < z
      PROVE  Rank(S, x) # Rank(S, z)
  <2> DEFINE X == { y \in S : y < x }
             Z == { y \in S : y < z }
  <2>1. X \in SUBSET Z /\ x \in Z /\ x \notin X
    <3>1. \A y \in S : y < x => y < z
      BY <1>3
    <3>2. X \subseteq Z
      BY <3>1
    <3>3. x \in Z /\ x \notin X
      BY <1>3
    <3> QED
      BY <3>2, <3>3
  <2>2. IsFiniteSet(Z)
    BY FS_Subset
  <2>3. Cardinality(X) # Cardinality(Z)
    BY <2>1, <2>2, FS_Subset
  <2> QED
    BY <2>3 DEF Rank
<1>4. rank \in Injection(S, T)
  <2>1. \A x, z \in S : x # z => x < z \/ z < x
    OBVIOUS
  <2> QED
    BY <1>2, <1>3, <2>1 DEF Injection, IsInjective
<1>5. IsFiniteSet(T) /\ Cardinality(T) = Cardinality(S)
  <2>1. 0 \in Int /\ Cardinality(S) - 1 \in Int
    BY <1>1
  <2>2. /\ IsFiniteSet(T)
        /\ Cardinality(T) = IF 0 > Cardinality(S) - 1 THEN 0 ELSE Cardinality(S) - 1 - 0 + 1
    BY <2>1, FS_Interval, Zenon
  <2> QED
    BY <1>1, <2>2
<1>6. rank \in Surjection(S, T)
  <2> HIDE DEF rank, T
  <2> QED
    BY <1>4, <1>5, FS_Injection
<1>7. k - 1 \in T
  BY <1>1
<1>8. PICK x \in S : rank[x] = k - 1
  BY <1>6, <1>7 DEF Surjection
<1> QED
  BY <1>8

LEMMA SortedIsSequence ==
  ASSUME NEW S \in SUBSET Int, IsFiniteSet(S)
  PROVE  /\ Sorted(S) \in Seq(S)
         /\ Len(Sorted(S)) = Cardinality(S)
<1>1. Cardinality(S) \in Nat
  BY FS_CardinalityType
<1>2. ASSUME NEW k \in 1 .. Cardinality(S)
      PROVE  Sorted(S)[k] \in S
  <2>1. PICK x \in S : Cardinality({ y \in S : y < x }) = k - 1
    BY EveryRankTaken DEF Rank
  <2>2. Sorted(S)[k] = CHOOSE z \in S : Cardinality({ y \in S : y < z }) = k - 1
    BY DEF Sorted
  <2> QED
    BY <2>1, <2>2
<1>3. Sorted(S) = [k \in 1 .. Cardinality(S) |-> Sorted(S)[k]]
  <2> DEFINE e(k) == CHOOSE x \in S : Cardinality({ y \in S : y < x }) = k - 1
  <2>1. Sorted(S) = [k \in 1 .. Cardinality(S) |-> e(k)]
    BY DEF Sorted
  <2> HIDE DEF e
  <2> QED
    BY <2>1
<1> HIDE DEF Sorted
<1> QED
  BY <1>1, <1>2, <1>3

LEMMA NumberedIsTyped ==
  ASSUME NEW sig, DOMAIN sig \in SUBSET Nat
  PROVE  Numbered(sig) \in [DOMAIN sig -> Nat]
<1>1. ASSUME NEW i \in DOMAIN sig
      PROVE  Numbered(sig)[i] \in Nat
  <2> DEFINE S == { j \in DOMAIN sig : sig[j] = sig[i] }
             n == Min(S)
  <2>1. n \in Nat
    BY MinOfSet
  <2>2. IsFiniteSet(0 .. n - 1)
    BY <2>1, FS_Interval
  <2>3. Cardinality({ sig[j] : j \in 0 .. n - 1 }) \in Nat
    BY <2>2, ImageFinite
  <2> QED
    BY <2>3 DEF Numbered
<1> QED
  BY <1>1 DEF Numbered

-----------------------------------------------------------------------------
(***************************************************************************)
(* The states of the automaton are numbered without gaps, whatever stage   *)
(* the tables are in.                                                      *)
(***************************************************************************)
Items == { x \in RuleIds \X Nat : x[2] <= Len(Rhs(x[1])) }

IsState(st) ==
  /\ st = [core |-> st.core, shifts |-> st.shifts, reduce |-> st.reduce,
           marks |-> st.marks, lr0 |-> st.lr0]
  /\ st.core \in SUBSET Items
  /\ st.reduce \in SUBSET RuleIds

LEMMA RecordIsState ==
  ASSUME NEW core \in SUBSET Items, NEW reduce \in SUBSET RuleIds, NEW shifts, NEW marks, NEW lr0
  PROVE  IsState([core |-> core, shifts |-> shifts, reduce |-> reduce, marks |-> marks, lr0 |-> lr0])
BY DEF IsState

StatesTyped ==
  /\ Len(states) \in Nat /\ Len(g.inputs) <= Len(states)
  /\ states = [k \in 1 .. Len(states) |-> states[k]]
  /\ \A k \in 1 .. Len(states) : IsState(states[k])

TablesTyped ==
  /\ tables = [action |-> tables.action, lalr |-> tables.lalr, goto |-> tables.goto,
               final |-> tables.final, markers |-> tables.markers, runtime |-> tables.runtime,
               tries |-> tables.tries, conflicts |-> tables.conflicts,
               sr |-> tables.sr, rr |-> tables.rr]
  /\ States \in SUBSET Nat /\ IsFiniteSet(States)

\* Before states are merged, their numbers have no gaps, and the inputs start in
\* the first ones.
TablesWhole ==
  /\ \E n \in Nat : n >= Len(g.inputs) /\ States = 0 .. n - 1
  /\ \A q \in States : tables.action[q] \in RuleIds \union { -1, -2, -3 }

HasTables == stage \in { "resolve", "minimize", "refine", "optimize", "pack", "done" }

Compiling ==
  /\ g \in Grammars
  /\ at \in Nat
  /\ stage \in { "states", "follow", "la", "tables" } => StatesTyped
  /\ HasTables => TablesTyped
  /\ stage \in { "resolve", "minimize", "refine" } => TablesWhole
  /\ stage = "refine" => partition \in [States -> Nat]

LEMMA GrammarTyped ==
  ASSUME g \in Grammars
  PROVE  /\ g.terms \in Nat /\ g.syms \in Nat /\ g.terms <= g.syms
         /\ Len(g.rules) \in Nat /\ Len(g.inputs) \in Nat
         /\ DOMAIN g.inputs = 1 .. Len(g.inputs)
         /\ \A r \in RuleIds : Lhs(r) \in Nonterms /\ Rhs(r) \in Seq(1 .. g.syms - 1)
         /\ IsFiniteSet(RuleIds) /\ IsFiniteSet(InputIds)
<1> DEFINE Rules == [lhs : g.terms .. g.syms - 1, rhs : Seq(1 .. g.syms - 1),
                     prec : 0 .. g.terms - 1, act : Nat]
           Starts == [nt : g.terms .. g.syms - 1, eoi : BOOLEAN]
<1>1. /\ g.terms \in Nat /\ g.syms \in Nat /\ g.terms <= g.syms
      /\ g.rules \in Seq(Rules) /\ g.inputs \in Seq(Starts)
  BY GrammarAssumption
<1>2. /\ Len(g.rules) \in Nat /\ Len(g.inputs) \in Nat
      /\ DOMAIN g.inputs = 1 .. Len(g.inputs)
  <2> HIDE DEF Rules, Starts
  <2> QED
    BY <1>1, LenProperties
<1>3. ASSUME NEW r \in RuleIds
      PROVE  Lhs(r) \in Nonterms /\ Rhs(r) \in Seq(1 .. g.syms - 1)
  <2>1. r + 1 \in 1 .. Len(g.rules)
    BY <1>2 DEF RuleIds
  <2>2. g.rules[r + 1] \in Rules
    <3> HIDE DEF Rules
    <3> QED
      BY <1>1, <2>1, ElementOfSeq
  <2> QED
    BY <2>2 DEF Lhs, Rhs, Nonterms
<1>4. IsFiniteSet(RuleIds) /\ IsFiniteSet(InputIds)
  <2>1. 0 \in Int /\ Len(g.rules) - 1 \in Int /\ Len(g.inputs) - 1 \in Int
    BY <1>2
  <2> QED
    BY <2>1, FS_Interval, Zenon DEF RuleIds, InputIds
<1> QED
  BY <1>1, <1>2, <1>3, <1>4

LEMMA CompilingInit == Init => Compiling
<1> SUFFICES ASSUME Init
             PROVE  Compiling
  OBVIOUS
<1>1. g \in Grammars /\ at = 0 /\ stage = "states"
      /\ states = [i \in DOMAIN g.inputs |-> NewState({}, FALSE)]
  BY DEF Init
<1>2. Len(g.inputs) \in Nat /\ DOMAIN g.inputs = 1 .. Len(g.inputs)
  BY <1>1, GrammarTyped
<1>3. Len(states) = Len(g.inputs)
  BY <1>1, <1>2
<1>4. IsState(NewState({}, FALSE))
  BY DEF IsState, NewState
<1>5. states = [k \in 1 .. Len(states) |-> states[k]]
      /\ \A k \in 1 .. Len(states) : states[k] = NewState({}, FALSE)
  BY <1>1, <1>2, <1>3
<1>6. StatesTyped
  <2>1. \A k \in 1 .. Len(states) : IsState(states[k])
    BY <1>4, <1>5
  <2> QED
    BY <1>2, <1>3, <1>5, <2>1 DEF StatesTyped
<1> QED
  BY <1>1, <1>6 DEF Compiling, HasTables

LEMMA ItemParts ==
  ASSUME g \in Grammars, NEW i \in Items
  PROVE  /\ i[1] \in RuleIds /\ i[2] \in Nat /\ i[2] <= Len(Rhs(i[1]))
         /\ Rhs(i[1]) \in Seq(1 .. g.syms - 1)
         /\ Len(Rhs(i[1])) \in Nat
BY GrammarTyped, LenProperties DEF Items

LEMMA TargetOfItems ==
  ASSUME g \in Grammars, NEW C \in SUBSET Items, NEW s
  PROVE  Target(C, s) \in SUBSET Items
<1>1. ASSUME NEW i \in C, ~AtEnd(i)
      PROVE  << i[1], i[2] + 1 >> \in Items
  <2>1. i[1] \in RuleIds /\ i[2] \in Nat /\ i[2] <= Len(Rhs(i[1])) /\ Len(Rhs(i[1])) \in Nat
    BY ItemParts
  <2>2. i[2] + 1 \in Nat /\ i[2] + 1 <= Len(Rhs(i[1]))
    BY <1>1, <2>1 DEF AtEnd
  <2> QED
    BY <2>1, <2>2 DEF Items
<1> QED
  BY <1>1 DEF Target

LEMMA RuleItemsAreItems ==
  ASSUME g \in Grammars, NEW nt
  PROVE  RuleItems(nt) \in SUBSET Items
<1>1. ASSUME NEW r \in RuleIds
      PROVE  << r, 0 >> \in Items
  BY GrammarTyped, LenProperties DEF Items
<1> QED
  BY <1>1 DEF RuleItems

LEMMA ClosureOfItems ==
  ASSUME Compiling, stage = "states", at < Len(states)
  PROVE  stateClosure(at) \in SUBSET Items
<1>1. g \in Grammars /\ at + 1 \in 1 .. Len(states) /\ IsState(states[at + 1])
  BY DEF Compiling, StatesTyped
<1>2. St(at).core \in SUBSET Items
  BY <1>1 DEF St, IsState
<1> QED
  BY <1>1, <1>2, RuleItemsAreItems DEF stateClosure

LEMMA SymbolsOfItems ==
  ASSUME g \in Grammars, NEW C \in SUBSET Items
  PROVE  { NextSym(i) : i \in { i \in C : ~AtEnd(i) } } \in SUBSET (0 .. g.syms - 1)
<1>1. ASSUME NEW i \in C, ~AtEnd(i)
      PROVE  NextSym(i) \in 0 .. g.syms - 1
  <2>1. /\ i[2] \in Nat /\ i[2] <= Len(Rhs(i[1])) /\ Len(Rhs(i[1])) \in Nat
        /\ Rhs(i[1]) \in Seq(1 .. g.syms - 1)
    BY ItemParts
  <2>2. i[2] + 1 \in 1 .. Len(Rhs(i[1]))
    BY <1>1, <2>1 DEF AtEnd
  <2>3. Rhs(i[1])[i[2] + 1] \in 1 .. g.syms - 1
    BY <2>1, <2>2, ElementOfSeq
  <2> QED
    BY <2>3, GrammarTyped DEF NextSym
<1> QED
  BY <1>1

\* What ComputeState does to the sequence of states: it appends some, and fills
\* in one.
LEMMA ComputeStateTyped == Compiling /\ ComputeState => Compiling'
<1> SUFFICES ASSUME Compiling, ComputeState
             PROVE  Compiling'
  OBVIOUS
<1> DEFINE closure == stateClosure(at)
           syms    == { NextSym(i) : i \in { i \in closure : ~AtEnd(i) } }
           reduce  == { i[1] : i \in { i \in closure : AtEnd(i) } }
           core    == [s \in syms |-> Target(closure, s)]
           known   == { states[k].core : k \in DOMAIN states }
           fresh   == Sorted({ s \in syms : core[s] \notin known })
           new     == [k \in DOMAIN fresh |-> NewState(core[fresh[k]], FALSE)]
           all     == states \o new
           E       == { states[k] : k \in 1 .. Len(states) }
                      \union { NewState(Target(closure, s), FALSE) : s \in syms }
<1>1. /\ g \in Grammars /\ at \in Nat /\ stage = "states" /\ at < Len(states)
      /\ g' = g /\ at' = at + 1 /\ stage' = "states"
      /\ StatesTyped
  BY DEF Compiling, ComputeState
<1>2. PICK shifts, marks, lr0 :
        states' = [all EXCEPT ![at + 1] = [@ EXCEPT !.shifts = shifts, !.reduce = reduce,
                                                   !.marks = marks, !.lr0 = lr0]]
  BY DEF ComputeState
<1>3. closure \in SUBSET Items
  BY <1>1, ClosureOfItems
<1>4. new \in Seq(E) /\ Len(new) \in Nat
  <2>1. syms \in SUBSET (0 .. g.syms - 1)
    <3> HIDE DEF closure
    <3> QED
      BY <1>1, <1>3, SymbolsOfItems
  <2>2. IsFiniteSet(0 .. g.syms - 1)
    <3>1. 0 \in Int /\ g.syms - 1 \in Int
      BY <1>1, GrammarTyped
    <3> QED
      BY <3>1, FS_Interval, Zenon
  <2>3. { s \in syms : core[s] \notin known } \in SUBSET (0 .. g.syms - 1)
    <3> HIDE DEF syms
    <3> QED
      BY <2>1
  <2>4. { s \in syms : core[s] \notin known } \in SUBSET Int
        /\ IsFiniteSet({ s \in syms : core[s] \notin known })
    <3>1. 0 .. g.syms - 1 \in SUBSET Int
      OBVIOUS
    <3> HIDE DEF syms, core, known
    <3> QED
      BY <2>2, <2>3, <3>1, SubsetFinite
  <2>5. fresh \in Seq({ s \in syms : core[s] \notin known })
    <3> HIDE DEF syms, core, known
    <3> QED
      BY <2>4, SortedIsSequence
  <2>6. Len(fresh) \in Nat /\ DOMAIN fresh = 1 .. Len(fresh)
        /\ \A k \in 1 .. Len(fresh) : fresh[k] \in syms
    <3> HIDE DEF syms, core, known, fresh
    <3> QED
      BY <2>5, LenProperties, ElementOfSeq
  <2>7. \A k \in 1 .. Len(fresh) : NewState(core[fresh[k]], FALSE) \in E
    <3> HIDE DEF syms, known, fresh, closure
    <3> QED
      BY <2>6
  <2>8. new = [k \in 1 .. Len(fresh) |-> NewState(core[fresh[k]], FALSE)]
    <3> HIDE DEF fresh, core
    <3> QED
      BY <2>6
  <2> DEFINE e(k) == NewState(core[fresh[k]], FALSE)
  <2>9. new = [k \in 1 .. Len(fresh) |-> e(k)] /\ \A k \in 1 .. Len(fresh) : e(k) \in E
    BY <2>7, <2>8
  <2> HIDE DEF fresh, E, core, e, new
  <2> QED
    BY <2>6, <2>9
<1>5. states \in Seq(E)
  <2>1. \A k \in 1 .. Len(states) : states[k] \in E
    OBVIOUS
  <2> HIDE DEF E
  <2> QED
    BY <1>1, <2>1 DEF StatesTyped
<1>6. \A e \in E : IsState(e)
  <2>1. \A s \in syms : Target(closure, s) \in SUBSET Items
    BY <1>1, <1>3, TargetOfItems
  <2>2. \A k \in 1 .. Len(states) : IsState(states[k])
    BY <1>1 DEF StatesTyped
  <2>3. \A c \in SUBSET Items : IsState(NewState(c, FALSE))
    BY DEF IsState, NewState
  <2> HIDE DEF syms, closure
  <2> QED
    BY <2>1, <2>2, <2>3
<1>7. all \in Seq(E) /\ Len(all) = Len(states) + Len(new)
  <2> HIDE DEF E, new
  <2> QED
    BY <1>4, <1>5, ConcatProperties
<1>8. Len(all) \in Nat /\ all = [k \in 1 .. Len(all) |-> all[k]]
      /\ \A k \in 1 .. Len(all) : IsState(all[k])
  <2> HIDE DEF E, all
  <2> QED
    BY <1>6, <1>7, LenProperties, ElementOfSeq
<1>9. at + 1 \in 1 .. Len(all)
  <2> HIDE DEF all, new
  <2> QED
    BY <1>1, <1>4, <1>7
<1>10. reduce \in SUBSET RuleIds
  <2>1. \A i \in closure : i[1] \in RuleIds
    <3> HIDE DEF closure
    <3> QED
      BY <1>1, <1>3, ItemParts
  <2> HIDE DEF closure
  <2> QED
    BY <2>1
<1>11. StatesTyped'
  <2> HIDE DEF all, reduce
  <2>1. Len(states') = Len(all) /\ states' = [k \in 1 .. Len(states') |-> states'[k]]
    <3> DEFINE st == [all[at + 1] EXCEPT !.shifts = shifts, !.reduce = reduce,
                                         !.marks = marks, !.lr0 = lr0]
    <3>1. states' = [all EXCEPT ![at + 1] = st]
      BY <1>2
    <3> HIDE DEF st
    <3>2. states' = [k \in 1 .. Len(all) |-> states'[k]]
      BY <1>8, <3>1
    <3> QED
      BY <1>8, <3>2
  <2>2. ASSUME NEW k \in 1 .. Len(all)
        PROVE  IsState(states[k])'
    <3>1. k # at + 1 => states'[k] = all[k]
      BY <1>2, <1>8
    <3>2. states'[at + 1] = [all[at + 1] EXCEPT !.shifts = shifts, !.reduce = reduce,
                                                !.marks = marks, !.lr0 = lr0]
      BY <1>2, <1>8, <1>9
    <3>3. IsState(states'[at + 1])
      <4> DEFINE old == all[at + 1]
                 st  == states'[at + 1]
      <4>1. IsState(old)
        BY <1>8, <1>9
      <4>2. st = [old EXCEPT !.shifts = shifts, !.reduce = reduce, !.marks = marks, !.lr0 = lr0]
        BY <3>2
      <4> HIDE DEF old, st
      <4>3. /\ st = [core |-> old.core, shifts |-> shifts, reduce |-> reduce,
                     marks |-> marks, lr0 |-> lr0]
            /\ old.core \in SUBSET Items
        BY <4>1, <4>2 DEF IsState
      <4>4. st.core = old.core /\ st.reduce = reduce /\ st.shifts = shifts
            /\ st.marks = marks /\ st.lr0 = lr0
        BY <4>3
      <4>5. IsState(st)
        BY <1>10, <4>3, <4>4 DEF IsState
      <4> QED
        BY <4>5 DEF st
    <3>4. IsState(states'[k])
      BY <1>8, <3>1, <3>3
    <3>5. Items' = Items /\ RuleIds' = RuleIds
      BY <1>1 DEF Items, RuleIds, Rhs
    <3> QED
      BY <3>4, <3>5 DEF IsState
  <2>3. Len(g'.inputs) <= Len(states')
    <3>1. Len(g.inputs) \in Nat /\ Len(states) \in Nat /\ Len(g.inputs) <= Len(states)
      BY <1>1, GrammarTyped DEF StatesTyped
    <3> HIDE DEF new
    <3> QED
      BY <1>1, <1>4, <1>7, <2>1, <3>1
  <2> QED
    BY <1>1, <1>8, <2>1, <2>2, <2>3 DEF StatesTyped
<1> QED
  BY <1>1, <1>11 DEF Compiling, HasTables

LEMMA AddFinalStatesTyped == Compiling /\ AddFinalStates => Compiling'
<1> SUFFICES ASSUME Compiling, AddFinalStates
             PROVE  Compiling'
  OBVIOUS
<1> DEFINE Nt(i)   == g.inputs[i + 1].nt
           lack    == { i \in InputIds : Nt(i) \notin DOMAIN St(i).shifts }
           eois    == { i \in InputIds : g.inputs[i + 1].eoi }
           lacking == Sorted(lack)
           whole   == Sorted(eois)
<1>1. /\ g \in Grammars /\ g' = g /\ at' = at /\ at \in Nat
      /\ stage = "states" /\ stage' = "follow" /\ StatesTyped
  BY DEF Compiling, AddFinalStates
<1> DEFINE NewFor(x, seq) == CHOOSE k \in DOMAIN seq : seq[k] = x
           last == [i \in InputIds |-> IF i \in Range(lacking) THEN Len(states) - 1 + NewFor(i, lacking)
                                      ELSE St(i).shifts[Nt(i)]]
<1>2. states' = addShifts([k \in DOMAIN lacking |-> << lacking[k], Nt(lacking[k]) >>]
                          \o [k \in DOMAIN whole |-> << last[whole[k]], EOI >>])
  BY DEF AddFinalStates
<1> HIDE DEF last
<1> DEFINE one   == [k \in DOMAIN lacking |-> << lacking[k], Nt(lacking[k]) >>]
           two   == [k \in DOMAIN whole |-> << last[whole[k]], EOI >>]
           added == one \o two
<1>3. \A S \in SUBSET InputIds : /\ Len(Sorted(S)) \in Nat
                                /\ DOMAIN Sorted(S) = 1 .. Len(Sorted(S))
  <2> TAKE S \in SUBSET InputIds
  <2>1. IsFiniteSet(S)
    BY <1>1, GrammarTyped, SubsetFinite
  <2>2. S \in SUBSET Int
    BY DEF InputIds
  <2> QED
    BY <2>1, <2>2, SortedIsSequence, LenProperties
<1>4. one \in Seq({ one[k] : k \in DOMAIN one } \union { two[k] : k \in DOMAIN two })
      /\ two \in Seq({ one[k] : k \in DOMAIN one } \union { two[k] : k \in DOMAIN two })
  <2>1. DOMAIN one = 1 .. Len(lacking) /\ Len(lacking) \in Nat
    BY <1>3
  <2>2. DOMAIN two = 1 .. Len(whole) /\ Len(whole) \in Nat
    BY <1>3
  <2>3. one = [k \in DOMAIN one |-> one[k]] /\ two = [k \in DOMAIN two |-> two[k]]
    OBVIOUS
  <2> HIDE DEF one, two, lacking, whole
  <2> QED
    BY <2>1, <2>2, <2>3
<1>5. Len(added) \in Nat
  <2> HIDE DEF one, two
  <2> QED
    BY <1>4, ConcatProperties, LenProperties
<1>6. Len(states) + Len(added) \in Nat
  <2> HIDE DEF added
  <2> QED
    BY <1>1, <1>5 DEF StatesTyped
<1>7. Len(states') = Len(states) + Len(added)
      /\ states' = [k \in 1 .. Len(states) + Len(added) |-> states'[k]]
  <2>1. states' = addShifts(added)
    BY <1>2
  <2> HIDE DEF added
  <2>2. DOMAIN states' = 1 .. Len(states) + Len(added)
        /\ states' = [k \in DOMAIN states' |-> states'[k]]
    BY <2>1 DEF addShifts
  <2> QED
    BY <1>6, <2>2
<1>8. ASSUME NEW k \in 1 .. Len(states) + Len(added)
      PROVE  IsState(states'[k])
  <2> DEFINE old == IF k <= Len(states) THEN states[k] ELSE NewState({}, TRUE)
  <2>1. IsState(NewState({}, TRUE))
    BY DEF IsState, NewState
  <2>2. IsState(old)
    <3> HIDE DEF added
    <3>1. k <= Len(states) => k \in 1 .. Len(states)
      BY <1>1, <1>5 DEF StatesTyped
    <3> QED
      BY <1>1, <2>1, <3>1 DEF StatesTyped
  <2>3. PICK shifts, lr0 : states'[k] = [old EXCEPT !.shifts = shifts, !.lr0 = lr0]
    <3>1. states' = addShifts(added)
      BY <1>2
    <3> HIDE DEF added
    <3> QED
      BY <1>1, <3>1 DEF addShifts
  <2> HIDE DEF old
  <2>4. states'[k] = [core |-> old.core, shifts |-> shifts, reduce |-> old.reduce,
                      marks |-> old.marks, lr0 |-> lr0]
    BY <2>2, <2>3 DEF IsState
  <2>5. old.core \in SUBSET Items /\ old.reduce \in SUBSET RuleIds
    BY <2>2 DEF IsState
  <2> QED
    BY <2>4, <2>5, RecordIsState
<1>9. StatesTyped'
  <2>1. Len(g'.inputs) <= Len(states')
    <3>1. Len(g.inputs) \in Nat /\ Len(states) \in Nat /\ Len(g.inputs) <= Len(states)
      BY <1>1, GrammarTyped DEF StatesTyped
    <3> HIDE DEF added
    <3> QED
      BY <1>1, <1>5, <1>7, <3>1
  <2>2. \A k \in 1 .. Len(states') : IsState(states'[k])
    BY <1>7, <1>8
  <2>3. Items' = Items /\ RuleIds' = RuleIds
    BY <1>1 DEF Items, RuleIds, Rhs
  <2>4. \A k \in 1 .. Len(states') : IsState(states[k])'
    BY <2>2, <2>3 DEF IsState
  <2> HIDE DEF added
  <2> QED
    BY <1>6, <1>7, <2>1, <2>4 DEF StatesTyped
<1> QED
  BY <1>1, <1>9 DEF Compiling, HasTables

LEMMA BuildTyped == Compiling /\ (BuildFollow \/ BuildLA) => Compiling'
<1> SUFFICES ASSUME Compiling, BuildFollow \/ BuildLA
             PROVE  Compiling'
  OBVIOUS
<1>1. /\ g' = g /\ at' = at /\ states' = states
      /\ stage \in { "follow", "la" } /\ stage' \in { "la", "tables", "internal error" }
  BY DEF BuildFollow, BuildLA
<1>2. StatesTyped
  BY <1>1 DEF Compiling
<1>3. StatesTyped'
  BY <1>1, <1>2 DEF StatesTyped, IsState, Items, RuleIds, Rhs
<1> QED
  BY <1>1, <1>3 DEF Compiling, HasTables

LEMMA ActionOfState ==
  ASSUME g \in Grammars, StatesTyped, NEW q \in StateIds
  PROVE  ActionOf(q) \in RuleIds \union { -1, -2, -3 }
<1>1. IsState(states[q + 1])
  BY DEF StatesTyped, StateIds
<1>2. St(q).reduce \in SUBSET RuleIds
  BY <1>1 DEF IsState, St
<1>3. St(q).reduce # {} => Min(St(q).reduce) \in RuleIds
  <2>1. RuleIds \in SUBSET Nat
    BY DEF RuleIds
  <2> HIDE DEF RuleIds
  <2> QED
    BY <1>2, <2>1, MinOfSet
<1> QED
  BY <1>3 DEF ActionOf

LEMMA PopulateTablesTyped == Compiling /\ PopulateTables => Compiling'
<1> SUFFICES ASSUME Compiling, PopulateTables
             PROVE  Compiling'
  OBVIOUS
<1>1. /\ g' = g /\ at' = at /\ stage = "tables" /\ stage' = "resolve"
      /\ Len(states) \in Nat /\ Len(g.inputs) <= Len(states)
      /\ g \in Grammars /\ StatesTyped
  BY DEF PopulateTables, Compiling, StatesTyped
<1>2. PICK rows : tables' = TablesOf(rows)
  BY DEF PopulateTables
<1>3. /\ tables' = [action |-> tables'.action, lalr |-> tables'.lalr, goto |-> tables'.goto,
                    final |-> tables'.final, markers |-> tables'.markers, runtime |-> tables'.runtime,
                    tries |-> tables'.tries, conflicts |-> tables'.conflicts,
                    sr |-> tables'.sr, rr |-> tables'.rr]
      /\ tables'.action = [q \in StateIds |-> ActionOf(q)]
  <2> DEFINE found == UNION { Conflicts(q, rows[q].amb) : q \in DOMAIN rows }
             rr    == { c \in found : ~c.canShift }
  <2>1. PICK lalr, markers, runtime :
          tables' = [action |-> [q \in StateIds |-> ActionOf(q)],
                     lalr |-> lalr, goto |-> [q \in StateIds |-> St(q).shifts],
                     final |-> final, markers |-> markers, runtime |-> runtime,
                     tries |-> << >>, conflicts |-> rr,
                     sr |-> SumOfNext(found \ rr), rr |-> SumOfNext(rr)]
    BY <1>2 DEF TablesOf
  <2> DEFINE act == [q \in StateIds |-> ActionOf(q)]
             goto == [q \in StateIds |-> St(q).shifts]
             sr == SumOfNext(found \ rr)
             nrr == SumOfNext(rr)
  <2>2. act = [q \in StateIds |-> ActionOf(q)]
    OBVIOUS
  <2>3. tables' = [action |-> act, lalr |-> lalr, goto |-> goto, final |-> final,
                   markers |-> markers, runtime |-> runtime, tries |-> << >>, conflicts |-> rr,
                   sr |-> sr, rr |-> nrr]
    BY <2>1
  <2> HIDE DEF act, goto, sr, nrr, rr
  <2> QED
    BY <2>2, <2>3
<1>4. IsFiniteSet(StateIds) /\ StateIds \in SUBSET Nat
  <2>1. 0 \in Int /\ Len(states) - 1 \in Int
    BY <1>1
  <2>2. IsFiniteSet(0 .. Len(states) - 1)
    BY ONLY <2>1, FS_Interval
  <2>3. 0 .. Len(states) - 1 \in SUBSET Nat
    BY <2>1
  <2> QED
    BY <2>2, <2>3 DEF StateIds
<1>5. TablesTyped'
  BY <1>3, <1>4 DEF TablesTyped, States
<1>6. TablesWhole'
  <2>1. States' = StateIds /\ RuleIds' = RuleIds
    BY <1>1, <1>3 DEF States, RuleIds
  <2>2. \A q \in StateIds : tables'.action[q] \in RuleIds \union { -1, -2, -3 }
    BY <1>1, <1>3, ActionOfState
  <2>3. StateIds = 0 .. Len(states) - 1 /\ Len(states) \in Nat /\ Len(states) >= Len(g'.inputs)
    <3>1. Len(g.inputs) \in Nat
      BY <1>1, GrammarTyped
    <3> QED
      BY <1>1, <3>1 DEF StateIds
  <2> QED
    BY <2>1, <2>2, <2>3 DEF TablesWhole
<1> QED
  BY <1>1, <1>5, <1>6 DEF Compiling, HasTables

\* A record of tables of which some fields are replaced is one.
LEMMA ResolveTyped == Compiling /\ ResolveWithLookahead => Compiling'
<1> SUFFICES ASSUME Compiling, ResolveWithLookahead
             PROVE  Compiling'
  OBVIOUS
<1>1. /\ g' = g /\ at' = at /\ stage = "resolve" /\ stage' = "minimize" /\ TablesTyped /\ TablesWhole
  BY DEF ResolveWithLookahead, Compiling, HasTables
<1>2. PICK depth \in Depths : tables' = WithTries(TriesOf(depth))
  BY DEF ResolveWithLookahead
<1> DEFINE trie      == TriesOf(depth)
           found     == { x \in DOMAIN trie : trie[x] # nil }
           tries     == SetToSeq({ trie[x] : x \in found })
           In(q)     == { x \in found : x[1].state = q }
           Number(x) == -3 - (CHOOSE i \in DOMAIN tries : tries[i] = trie[x])
           conflicts == { x[1] : x \in DOMAIN trie \ found }
           rr        == SumOfNext(conflicts)
           lalr      == [q \in DOMAIN tables.lalr |->
                           Patched(q, [t \in { x[2] : x \in In(q) } |->
                                         Number(CHOOSE x \in In(q) : x[2] = t)])]
<1>3. tables' = [tables EXCEPT !.lalr = lalr, !.tries = tries, !.conflicts = conflicts, !.rr = rr]
  BY <1>2 DEF WithTries
<1> HIDE DEF trie, found, tries, conflicts, rr, lalr
<1>4. TablesTyped'
  <2>1. tables' = [action |-> tables'.action, lalr |-> tables'.lalr, goto |-> tables'.goto,
                   final |-> tables'.final, markers |-> tables'.markers, runtime |-> tables'.runtime,
                   tries |-> tables'.tries, conflicts |-> tables'.conflicts,
                   sr |-> tables'.sr, rr |-> tables'.rr]
        /\ tables'.action = tables.action
    BY <1>1, <1>3 DEF TablesTyped
  <2> QED
    BY <1>1, <2>1 DEF TablesTyped, States
<1>5. TablesWhole'
  <2>1. tables'.action = tables.action
    BY <1>1, <1>3 DEF TablesTyped
  <2> QED
    BY <1>1, <2>1 DEF TablesWhole, States, RuleIds
<1> QED
  BY <1>1, <1>4, <1>5 DEF Compiling, HasTables

LEMMA MinimizeTyped == Compiling /\ minimize => Compiling'
<1> SUFFICES ASSUME Compiling, minimize
             PROVE  Compiling'
  OBVIOUS
<1>1. g \in Grammars /\ g' = g /\ at \in Nat /\ at' = at
  BY DEF Compiling, minimize, Partition, Refine, Rebuild, KeepStates
<1>2. TablesTyped /\ TablesWhole
  BY DEF Compiling, minimize, Partition, Refine, Rebuild, KeepStates, HasTables
<1>3. \A sig : DOMAIN sig = States => Numbered(sig) \in [States -> Nat]
  BY <1>2, NumberedIsTyped DEF TablesTyped
<1>4. CASE Partition
  <2>1. stage' = "refine" /\ tables' = tables
    BY <1>4 DEF Partition
  <2>2. partition' \in [States -> Nat]
    <3> DEFINE sig == [q \in States |-> stateSignature(tables, q)]
    <3>1. partition' = Numbered(sig) /\ DOMAIN sig = States
      BY <1>4 DEF Partition
    <3> HIDE DEF sig
    <3> QED
      BY <1>3, <3>1
  <2> QED
    BY <1>1, <1>2, <2>1, <2>2 DEF Compiling, HasTables, TablesTyped, TablesWhole, States, RuleIds
<1>5. CASE Refine
  <2>1. stage' = stage /\ stage = "refine" /\ tables' = tables
    BY <1>5 DEF Refine
  <2>2. partition' \in [States -> Nat]
    <3> DEFINE sig == [q \in States |-> << sigPartition, partition[q], Successors(q) >>]
    <3>1. partition' = Numbered(sig) /\ DOMAIN sig = States
      BY <1>5 DEF Refine, Refined
    <3> HIDE DEF sig
    <3> QED
      BY <1>3, <3>1
  <2> QED
    BY <1>1, <1>2, <2>1, <2>2 DEF Compiling, HasTables, TablesTyped, TablesWhole, States, RuleIds
<1>6. CASE Rebuild
  <2>1. stage = "refine" /\ stage' = "optimize" /\ partition' = partition
    BY <1>6 DEF Rebuild
  <2>2. partition \in [States -> Nat]
    BY <2>1 DEF Compiling
  <2>3. Classes(partition) \in SUBSET Nat /\ IsFiniteSet(Classes(partition))
    <3>1. Classes(partition) = { partition[q] : q \in States }
      BY <2>2 DEF Classes, Range
    <3> QED
      BY <1>2, <2>2, <3>1, ImageFinite DEF TablesTyped
  <2> DEFINE action  == [c \in Classes(partition) |-> tables.action[Max(Members(c))]]
             lalr    == [c \in Classes(partition) |-> tables.lalr[Max(Members(c))]]
             goto    == [c \in Classes(partition) |->
                           LET row == tables.goto[Min(Members(c))]
                           IN  [s \in DOMAIN row |-> partition[row[s]]]]
             final0  == [i \in DOMAIN tables.final |-> partition[tables.final[i]]]
             markers == [m \in DOMAIN tables.markers |-> { partition[q] : q \in tables.markers[m] }]
  <2>4. tables' = [tables EXCEPT !.action = action, !.lalr = lalr, !.goto = goto,
                                 !.final = final0, !.markers = markers]
    BY <1>6 DEF Rebuild
  <2>5. DOMAIN action = Classes(partition)
    OBVIOUS
  <2> HIDE DEF action, lalr, goto, final0, markers
  <2>6. TablesTyped'
    <3>1. tables' = [action |-> tables'.action, lalr |-> tables'.lalr, goto |-> tables'.goto,
                     final |-> tables'.final, markers |-> tables'.markers,
                     runtime |-> tables'.runtime, tries |-> tables'.tries,
                     conflicts |-> tables'.conflicts, sr |-> tables'.sr, rr |-> tables'.rr]
          /\ tables'.action = action
      BY <1>2, <2>4 DEF TablesTyped
    <3> QED
      BY <2>3, <2>5, <3>1 DEF TablesTyped, States
  <2> QED
    BY <1>1, <2>1, <2>6 DEF Compiling, HasTables
<1>7. CASE KeepStates
  <2>1. stage' = "optimize" /\ tables' = tables
    BY <1>7 DEF KeepStates
  <2> QED
    BY <1>1, <1>2, <2>1 DEF Compiling, HasTables, TablesTyped, States
<1> QED
  BY <1>4, <1>5, <1>6, <1>7 DEF minimize

LEMMA CompilingStep == Compiling /\ [Next]_vars => Compiling'
<1> SUFFICES ASSUME Compiling, [Next]_vars
             PROVE  Compiling'
  OBVIOUS
<1>1. CASE Compile
  BY <1>1, ComputeStateTyped, AddFinalStatesTyped, BuildTyped, PopulateTablesTyped DEF Compile
<1>2. CASE ResolveWithLookahead
  BY <1>2, ResolveTyped
<1>3. CASE minimize
  BY <1>3, MinimizeTyped
<1>4. CASE Optimize
  <2>1. /\ g' = g /\ at' = at /\ tables' = tables
        /\ stage \in { "optimize", "pack" }
        /\ stage' \in { "pack", "done", "internal error" }
    BY <1>4 DEF Optimize, EncodeRows, RefuseTries, Place, Finish
  <2> QED
    BY <2>1 DEF Compiling, HasTables, TablesTyped, States
<1>5. CASE Finished \/ UNCHANGED vars
  <2>1. UNCHANGED vars
    BY <1>5 DEF Finished
  <2>2. g' = g /\ at' = at /\ states' = states /\ tables' = tables /\ stage' = stage
        /\ partition' = partition
    BY <2>1 DEF vars, lalrVars, minimizeVars
  <2> QED
    BY <2>2 DEF Compiling, HasTables, TablesTyped, StatesTyped, TablesWhole, States,
                IsState, Items, RuleIds, Rhs
<1> QED
  BY <1>1, <1>2, <1>3, <1>4, <1>5 DEF Next

-----------------------------------------------------------------------------
(***************************************************************************)
(* Packing: what is stored where, while lines are still to be placed.      *)
(***************************************************************************)
\* The line of a target, and the base it was given.
LineOf(x) == IF x >= 0 THEN Except(wanted[x], enc.defAct[x])
             ELSE Except(GotosOn(NontermOf(x)), enc.defGoto[NontermOf(x)])

BaseOf(x) == IF x >= 0 THEN enc.action[x] ELSE enc.goto[NontermOf(x)]

EncTyped ==
  /\ enc = [defAct |-> enc.defAct, action |-> enc.action, defGoto |-> enc.defGoto, goto |-> enc.goto]
  /\ DOMAIN enc.action = States /\ DOMAIN enc.goto = Nonterms
  /\ \A q \in States : DOMAIN wanted[q] = Terms

LinesPending ==
  /\ DOMAIN lines \in SUBSET Targets
  /\ \A x \in DOMAIN lines : lines[x] = LineOf(x) /\ DOMAIN lines[x] # {}

\* A line waits, or has a base, or has no pairs and the base that says so.
EveryLineHasBase ==
  \A x \in Targets :
    \/ x \in DOMAIN lines
    \/ LineOf(x) \in DOMAIN prev /\ BaseOf(x) = prev[LineOf(x)]
    \/ DOMAIN LineOf(x) = {} /\ BaseOf(x) = IF x >= 0 THEN Base ELSE -g.syms

IsLine(p) == DOMAIN p \in SUBSET Nat /\ IsFiniteSet(DOMAIN p) /\ DOMAIN p # {}

\* Every pair of a placed line is in the table, and the table has nothing else.
LinesStored ==
  \A p \in DOMAIN prev :
    /\ prev[p] \in Int /\ IsLine(p)
    /\ \A z \in DOMAIN p : /\ prev[p] + z \in DOMAIN table
                           /\ table[prev[p] + z] = [check |-> z, value |-> p[z]]

TableOwned ==
  \A y \in DOMAIN table :
    \E p \in DOMAIN prev : table[y].check \in DOMAIN p /\ y = prev[p] + table[y].check

TableTyped == DOMAIN table \in SUBSET Nat /\ IsFiniteSet(DOMAIN table)

Packing ==
  IF stage \in { "pack", "done" }
  THEN /\ EncTyped /\ LinesPending /\ EveryLineHasBase
       /\ LinesStored /\ TableOwned /\ TableTyped
       /\ stage = "done" => DOMAIN lines = {}
  ELSE table = <<>> /\ prev = <<>>

LEMMA MaxOfFinite ==
  ASSUME NEW S \in SUBSET Nat, IsFiniteSet(S), S # {}
  PROVE  Max(S) \in S /\ \A y \in S : y <= Max(S)
<1>1. Cardinality(S) \in Nat /\ Cardinality(S) # 0
  BY FS_CardinalityType, FS_EmptySet
<1>2. S \in SUBSET Int /\ Cardinality(S) \in 1 .. Cardinality(S)
  BY <1>1
<1>3. PICK x \in S : Rank(S, x) = Cardinality(S) - 1
  BY <1>2, EveryRankTaken
<1>4. IsFiniteSet(S \ {x}) /\ Cardinality(S \ {x}) = Cardinality(S) - 1
  BY FS_RemoveElement
<1>5. { y \in S : y < x } \in SUBSET (S \ {x})
  OBVIOUS
<1>6. { y \in S : y < x } = S \ {x}
  BY <1>3, <1>4, <1>5, FS_Subset DEF Rank
<1>7. \A y \in S : x >= y
  BY <1>6
<1> QED
  BY <1>7 DEF Max

LEMMA SearchFindsRoom ==
  ASSUME TableTyped, NEW pairs, IsLine(pairs)
  PROVE  /\ search(pairs) \in Int
         /\ \A z \in DOMAIN pairs : /\ search(pairs) + z \in Nat
                                    /\ search(pairs) + z \notin DOMAIN table
<1> DEFINE min == Min(DOMAIN pairs)
           free == { c \in 0 .. size - 1 :
                       /\ c - min \notin Range(prev)
                       /\ \A x \in DOMAIN pairs : c - min + x \notin DOMAIN table }
<1>1. min \in Nat /\ \A z \in DOMAIN pairs : z \in Nat /\ min <= z
  BY MinOfSet DEF IsLine
<1>2. size \in Nat /\ \A y \in DOMAIN table : y < size
  <2>1. CASE DOMAIN table = {}
    BY <2>1 DEF size
  <2>2. CASE DOMAIN table # {}
    <3>1. Max(DOMAIN table) \in Nat /\ \A y \in DOMAIN table : y \in Nat /\ y <= Max(DOMAIN table)
      BY <2>2, MaxOfFinite DEF TableTyped
    <3> QED
      BY <2>2, <3>1 DEF size
  <2> QED
    BY <2>1, <2>2
<1>3. search(pairs) = (IF free = {} THEN size ELSE Min(free)) - min
  BY DEF search
<1>4. CASE free = {}
  <2>1. search(pairs) = size - min
    BY <1>3, <1>4
  <2> QED
    BY <1>1, <1>2, <2>1 DEF TableTyped
<1>5. CASE free # {}
  <2>1. free \in SUBSET Nat
    BY <1>2
  <2>2. Min(free) \in free
    <3> HIDE DEF free
    <3> QED
      BY <1>5, <2>1, MinOfSet
  <2> DEFINE c == Min(free)
  <2>3. c \in Nat /\ \A x \in DOMAIN pairs : c - min + x \notin DOMAIN table
    BY <1>2, <2>2
  <2>4. search(pairs) = c - min
    BY <1>3, <1>5
  <2> HIDE DEF c, min
  <2> QED
    BY <1>1, <2>3, <2>4
<1> QED
  BY <1>4, <1>5

LEMMA LineDomain ==
  ASSUME Compiling, HasTables, EncTyped, NEW x \in Targets
  PROVE  DOMAIN LineOf(x) \in SUBSET Nat /\ IsFiniteSet(DOMAIN LineOf(x))
<1>1. g.terms \in Nat /\ States \in SUBSET Nat /\ IsFiniteSet(States)
  BY GrammarTyped DEF Compiling, TablesTyped
<1>2. CASE x >= 0
  <2>1. x \in States
    <3>1. \A k \in 0 .. g.syms - g.terms - 1 : ~ (-1 - k >= 0)
      OBVIOUS
    <3> QED
      BY <1>2, <3>1 DEF Targets
  <2>2. DOMAIN LineOf(x) \in SUBSET Terms
    BY <1>2, <2>1 DEF LineOf, Except, EncTyped
  <2>3. IsFiniteSet(Terms) /\ Terms \in SUBSET Nat
    <3>1. 0 \in Int /\ g.terms - 1 \in Int
      BY <1>1
    <3> QED
      BY <3>1, FS_Interval DEF Terms
  <2> QED
    BY <2>2, <2>3, FS_Subset
<1>3. CASE ~ (x >= 0)
  <2>1. DOMAIN LineOf(x) \in SUBSET States
    BY <1>3 DEF LineOf, Except, GotosOn
  <2> QED
    BY <1>1, <2>1, FS_Subset
<1> QED
  BY <1>2, <1>3

LEMMA EncodeRowsPacks == Compiling /\ Packing /\ EncodeRows => Packing'
<1> SUFFICES ASSUME Compiling, Packing, EncodeRows
             PROVE  Packing'
  OBVIOUS
<1>1. /\ stage = "optimize" /\ stage' = "pack" /\ g' = g /\ tables' = tables
      /\ table' = <<>> /\ prev' = <<>>
  BY DEF EncodeRows, Packing
<1>2. PICK defaultReduce \in BOOLEAN :
       LET next    == [q \in States |-> NextOf(q, defaultReduce)]
           defAct  == [q \in States |-> pickDefault(next[q])]
           defGoto == [s \in Nonterms |-> IF DOMAIN GotosOn(s) = {} THEN -1
                                          ELSE pickDefault(GotosOn(s))]
           Line(x) == IF x >= 0 THEN Except(next[x], defAct[x])
                      ELSE Except(GotosOn(NontermOf(x)), defGoto[NontermOf(x)])
       IN  /\ lines' = [x \in { x \in Targets : DOMAIN Line(x) # {} } |-> Line(x)]
           /\ enc' = [defAct |-> defAct, action |-> [q \in States |-> Base],
                      defGoto |-> defGoto, goto |-> [s \in Nonterms |-> -g.syms]]
           /\ wanted' = next
  BY DEF EncodeRows
<1> DEFINE next    == [q \in States |-> NextOf(q, defaultReduce)]
           defAct  == [q \in States |-> pickDefault(next[q])]
           defGoto == [s \in Nonterms |-> IF DOMAIN GotosOn(s) = {} THEN -1
                                          ELSE pickDefault(GotosOn(s))]
           Line(x) == IF x >= 0 THEN Except(next[x], defAct[x])
                      ELSE Except(GotosOn(NontermOf(x)), defGoto[NontermOf(x)])
           action  == [q \in States |-> Base]
           goto    == [s \in Nonterms |-> -g.syms]
<1>3. /\ lines' = [x \in { x \in Targets : DOMAIN Line(x) # {} } |-> Line(x)]
      /\ enc' = [defAct |-> defAct, action |-> action, defGoto |-> defGoto, goto |-> goto]
      /\ wanted' = next
  BY <1>2
<1>4. \A q \in States : DOMAIN next[q] = Terms
  BY DEF NextOf
<1>5. /\ DOMAIN action = States /\ DOMAIN goto = Nonterms
      /\ \A q \in States : action[q] = Base
      /\ \A s \in Nonterms : goto[s] = -g.syms
  OBVIOUS
<1>6. /\ States' = States /\ Terms' = Terms /\ Nonterms' = Nonterms /\ Targets' = Targets
      /\ Base' = Base /\ \A s : GotosOn(s)' = GotosOn(s)
      /\ \A x : NontermOf(x)' = NontermOf(x)
  BY <1>1 DEF States, Terms, Nonterms, Targets, Base, GotosOn, NontermOf
<1> HIDE DEF next, defAct, defGoto, action, goto
<1>7. enc'.defAct = defAct /\ enc'.action = action /\ enc'.defGoto = defGoto /\ enc'.goto = goto
  BY <1>3
<1>8. EncTyped'
  BY <1>3, <1>4, <1>5, <1>6, <1>7 DEF EncTyped
<1>9. \A x : LineOf(x)' = Line(x)
  BY <1>3, <1>6, <1>7 DEF LineOf
<1> HIDE DEF Line
<1>10. LinesPending'
  BY <1>3, <1>6, <1>9 DEF LinesPending
<1>11. \A x \in Targets : BaseOf(x)' = IF x >= 0 THEN Base ELSE -g.syms
  <2> TAKE x \in Targets
  <2>1. CASE x >= 0
    <3>1. x \in States
      <4>1. \A k \in 0 .. g.syms - g.terms - 1 : ~ (-1 - k >= 0)
        OBVIOUS
      <4> QED
        BY <2>1, <4>1 DEF Targets
    <3> QED
      BY <1>5, <1>7, <2>1, <3>1 DEF BaseOf
  <2>2. CASE ~ (x >= 0)
    <3>1. g.terms \in Nat /\ g.syms \in Nat /\ States \in SUBSET Nat
      BY <1>1, GrammarTyped DEF Compiling, TablesTyped, HasTables
    <3>2. PICK k \in 0 .. g.syms - g.terms - 1 : x = -1 - k
      BY <2>2, <3>1 DEF Targets
    <3>3. NontermOf(x) \in Nonterms
      BY <3>1, <3>2 DEF NontermOf, Nonterms
    <3> QED
      BY <1>5, <1>6, <1>7, <2>2, <3>3 DEF BaseOf
  <2> QED
    BY <2>1, <2>2
<1>12. EveryLineHasBase'
  BY <1>1, <1>3, <1>6, <1>9, <1>11 DEF EveryLineHasBase
<1>13. DOMAIN prev' = {} /\ DOMAIN table' = {}
  BY <1>1
<1>14. LinesStored' /\ TableOwned'
  BY <1>13 DEF LinesStored, TableOwned
<1>15. TableTyped'
  BY <1>13, FS_EmptySet DEF TableTyped
<1> QED
  BY <1>1, <1>8, <1>10, <1>12, <1>14, <1>15 DEF Packing

\* What a line is laid over is free, or was put there for the same pairs.
LEMMA PlaceAgrees ==
  ASSUME Packing, stage = "pack", NEW pairs, IsLine(pairs), NEW base,
         base = IF pairs \in DOMAIN prev THEN prev[pairs] ELSE search(pairs)
  PROVE  /\ base \in Int
         /\ \A z \in DOMAIN pairs :
              /\ base + z \in Nat
              /\ base + z \in DOMAIN table =>
                   pairs \in DOMAIN prev /\ table[base + z] = [check |-> z, value |-> pairs[z]]
<1>1. LinesStored /\ TableTyped
  BY DEF Packing
<1>2. CASE pairs \in DOMAIN prev
  <2>1. base = prev[pairs]
    BY <1>2
  <2> QED
    BY <1>1, <1>2, <2>1 DEF LinesStored, TableTyped
<1>3. CASE pairs \notin DOMAIN prev
  <2>1. base = search(pairs)
    BY <1>3
  <2> QED
    BY <1>1, <2>1, SearchFindsRoom
<1> QED
  BY <1>2, <1>3

LEMMA PlacePacks == Compiling /\ Packing /\ Place => Packing'
<1> SUFFICES ASSUME Compiling, Packing, Place
             PROVE  Packing'
  OBVIOUS
<1>1. /\ stage = "pack" /\ stage' = "pack" /\ g' = g /\ tables' = tables /\ wanted' = wanted
      /\ EncTyped /\ LinesPending /\ EveryLineHasBase
      /\ LinesStored /\ TableOwned /\ TableTyped
  BY DEF Place, Packing
<1>2. PICK target \in DOMAIN lines :
        LET pairs == lines[target]
            base  == IF pairs \in DOMAIN prev THEN prev[pairs] ELSE search(pairs)
            taken == { base + i : i \in DOMAIN pairs }
        IN  /\ table' = [x \in taken \union DOMAIN table |->
                           IF x \in taken THEN [check |-> x - base, value |-> pairs[x - base]]
                           ELSE table[x]]
            /\ prev' = [p \in DOMAIN prev \union { pairs } |-> IF p = pairs THEN base ELSE prev[p]]
            /\ enc' = IF target >= 0 THEN [enc EXCEPT !.action[target] = base]
                      ELSE [enc EXCEPT !.goto[NontermOf(target)] = base]
            /\ lines' = [x \in DOMAIN lines \ { target } |-> lines[x]]
  BY DEF Place
<1> DEFINE pairs == lines[target]
           base  == IF pairs \in DOMAIN prev THEN prev[pairs] ELSE search(pairs)
           taken == { base + i : i \in DOMAIN pairs }
<1>3. /\ table' = [x \in taken \union DOMAIN table |->
                     IF x \in taken THEN [check |-> x - base, value |-> pairs[x - base]]
                     ELSE table[x]]
      /\ prev' = [p \in DOMAIN prev \union { pairs } |-> IF p = pairs THEN base ELSE prev[p]]
      /\ enc' = IF target >= 0 THEN [enc EXCEPT !.action[target] = base]
                ELSE [enc EXCEPT !.goto[NontermOf(target)] = base]
      /\ lines' = [x \in DOMAIN lines \ { target } |-> lines[x]]
  BY <1>2
<1>4. target \in Targets /\ pairs = LineOf(target) /\ DOMAIN pairs # {}
  BY <1>1 DEF LinesPending
<1>5. IsLine(pairs)
  BY <1>1, <1>4, LineDomain DEF IsLine, HasTables
<1>6. /\ base \in Int
      /\ \A z \in DOMAIN pairs :
           /\ base + z \in Nat
           /\ base + z \in DOMAIN table =>
                pairs \in DOMAIN prev /\ table[base + z] = [check |-> z, value |-> pairs[z]]
  BY <1>1, <1>5, PlaceAgrees
<1>7. pairs \in DOMAIN prev => prev[pairs] = base
  OBVIOUS
<1> HIDE DEF pairs, base
<1>8. \A z \in DOMAIN pairs : z \in Nat /\ (base + z) - base = z
  BY <1>5, <1>6 DEF IsLine
\* The new table and the new lines, one place at a time.
<1>9. /\ DOMAIN table' = taken \union DOMAIN table
      /\ \A z \in DOMAIN pairs : base + z \in taken
                               /\ table'[base + z] = [check |-> z, value |-> pairs[z]]
      /\ \A y \in DOMAIN table : table'[y] = table[y]
  <2>1. ASSUME NEW z \in DOMAIN pairs
        PROVE  base + z \in taken /\ table'[base + z] = [check |-> z, value |-> pairs[z]]
    <3>1. base + z \in taken
      OBVIOUS
    <3> HIDE DEF taken
    <3> QED
      BY <1>3, <1>8, <3>1
  <2>2. ASSUME NEW y \in DOMAIN table
        PROVE  table'[y] = table[y]
    <3>1. CASE y \in taken
      <4>1. PICK z \in DOMAIN pairs : y = base + z
        BY <3>1
      <4>2. table[y] = [check |-> z, value |-> pairs[z]]
        BY <1>6, <4>1
      <4> QED
        BY <2>1, <4>1, <4>2
    <3>2. CASE y \notin taken
      <4> HIDE DEF taken
      <4> QED
        BY <1>3, <3>2
    <3> QED
      BY <3>1, <3>2
  <2>3. DOMAIN table' = taken \union DOMAIN table
    <3> HIDE DEF taken
    <3> QED
      BY <1>3
  <2> QED
    BY <2>1, <2>2, <2>3
<1>10. /\ DOMAIN prev' = DOMAIN prev \union { pairs }
       /\ prev'[pairs] = base
       /\ \A p \in DOMAIN prev : prev'[p] = prev[p]
  BY <1>3, <1>7
<1>11. States' = States /\ Nonterms' = Nonterms /\ Targets' = Targets /\ Terms' = Terms
       /\ Base' = Base /\ (\A s : GotosOn(s)' = GotosOn(s)) /\ (\A x : NontermOf(x)' = NontermOf(x))
  BY <1>1 DEF States, Terms, Nonterms, Targets, Base, GotosOn, NontermOf
<1>12. \A x : LineOf(x)' = LineOf(x)
  <2>1. enc'.defAct = enc.defAct /\ enc'.defGoto = enc.defGoto
    BY <1>1, <1>3 DEF EncTyped
  <2> QED
    BY <1>1, <1>11, <2>1 DEF LineOf
<1>13. /\ EncTyped'
       /\ BaseOf(target)' = base
       /\ \A x \in Targets \ { target } : BaseOf(x)' = BaseOf(x)
  <2>1. /\ g.terms \in Nat /\ g.syms \in Nat /\ States \in SUBSET Nat
    BY <1>1, GrammarTyped DEF Compiling, TablesTyped, HasTables
  <2>2. \A x \in Targets : x \in Int
                        /\ IF x >= 0 THEN x \in States ELSE NontermOf(x) \in Nonterms
    <3> TAKE x \in Targets
    <3>1. CASE x \in States
      BY <2>1, <3>1
    <3>2. CASE x \notin States
      <4>1. PICK k \in 0 .. g.syms - g.terms - 1 : x = -1 - k
        BY <3>2 DEF Targets
      <4> QED
        BY <2>1, <4>1 DEF NontermOf, Nonterms
    <3> QED
      BY <3>1, <3>2
  <2>3. \A x, y \in Int : NontermOf(x) = NontermOf(y) => x = y
    BY <2>1 DEF NontermOf
  <2>4. CASE target >= 0
    <3>1. enc' = [enc EXCEPT !.action = [@ EXCEPT ![target] = base]]
      BY <1>3, <2>4
    <3>2. /\ EncTyped' /\ enc'.action = [enc.action EXCEPT ![target] = base]
          /\ enc'.goto = enc.goto
      BY <1>1, <1>11, <3>1 DEF EncTyped
    <3> QED
      BY <1>1, <1>4, <1>11, <2>2, <2>4, <3>2 DEF BaseOf, EncTyped
  <2>5. CASE ~ (target >= 0)
    <3>1. enc' = [enc EXCEPT !.goto = [@ EXCEPT ![NontermOf(target)] = base]]
      BY <1>3, <2>5
    <3>2. /\ EncTyped' /\ enc'.goto = [enc.goto EXCEPT ![NontermOf(target)] = base]
          /\ enc'.action = enc.action
      BY <1>1, <1>11, <3>1 DEF EncTyped
    <3> QED
      BY <1>1, <1>4, <1>11, <2>2, <2>3, <2>5, <3>2 DEF BaseOf, EncTyped
  <2> QED
    BY <2>4, <2>5
<1>14. LinesPending'
  BY <1>1, <1>3, <1>11, <1>12 DEF LinesPending
<1>15. EveryLineHasBase'
  <2> SUFFICES ASSUME NEW x \in Targets
               PROVE  \/ x \in DOMAIN lines'
                      \/ LineOf(x) \in DOMAIN prev' /\ BaseOf(x)' = prev'[LineOf(x)]
                      \/ DOMAIN LineOf(x) = {} /\ BaseOf(x)' = IF x >= 0 THEN Base ELSE -g.syms
    BY <1>1, <1>11, <1>12 DEF EveryLineHasBase
  <2>1. CASE x = target
    BY <1>4, <1>10, <1>13, <2>1
  <2>2. CASE x # target
    BY <1>1, <1>3, <1>10, <1>13, <2>2 DEF EveryLineHasBase
  <2> QED
    BY <2>1, <2>2
<1>16. LinesStored'
  <2> SUFFICES ASSUME NEW p \in DOMAIN prev'
               PROVE  /\ prev'[p] \in Int /\ IsLine(p)
                      /\ \A z \in DOMAIN p :
                           /\ prev'[p] + z \in DOMAIN table'
                           /\ table'[prev'[p] + z] = [check |-> z, value |-> p[z]]
    BY DEF LinesStored, IsLine
  <2>1. CASE p = pairs
    BY <1>5, <1>6, <1>9, <1>10, <2>1
  <2>2. CASE p \in DOMAIN prev
    BY <1>1, <1>9, <1>10, <2>2 DEF LinesStored
  <2> QED
    BY <1>10, <2>1, <2>2
<1>17. TableOwned'
  <2> SUFFICES ASSUME NEW y \in DOMAIN table'
               PROVE  \E p \in DOMAIN prev' : /\ table'[y].check \in DOMAIN p
                                              /\ y = prev'[p] + table'[y].check
    BY DEF TableOwned
  <2>1. CASE y \in DOMAIN table
    BY <1>1, <1>9, <1>10, <2>1 DEF TableOwned
  <2>2. CASE y \in taken
    <3>1. PICK z \in DOMAIN pairs : y = base + z
      BY <2>2
    <3>2. table'[y] = [check |-> z, value |-> pairs[z]]
      BY <1>9, <3>1
    <3>3. table'[y].check = z
      BY <3>2
    <3> QED
      BY <1>10, <3>1, <3>3
  <2> QED
    BY <1>9, <2>1, <2>2
<1>18. TableTyped'
  <2>1. IsFiniteSet(taken)
    <3> DEFINE f == [z \in DOMAIN pairs |-> base + z]
    <3>1. taken = { f[z] : z \in DOMAIN pairs }
      OBVIOUS
    <3> HIDE DEF f, taken
    <3> QED
      BY <1>5, <3>1, ImageFinite DEF IsLine
  <2>2. taken \in SUBSET Nat
    BY <1>6
  <2> HIDE DEF taken
  <2>3. IsFiniteSet(DOMAIN table) /\ DOMAIN table \in SUBSET Nat
    BY <1>1 DEF TableTyped
  <2>4. IsFiniteSet(taken \union DOMAIN table)
    BY <2>1, <2>3, FS_Union
  <2>5. taken \union DOMAIN table \in SUBSET Nat
    BY <2>2, <2>3
  <2> QED
    BY <1>1, <1>9, <2>4, <2>5 DEF TableTyped
<1> QED
  BY <1>1, <1>13, <1>14, <1>15, <1>16, <1>17, <1>18 DEF Packing

LEMMA PackingStep == Compiling /\ Packing /\ [Next]_vars => Packing'
<1> SUFFICES ASSUME Compiling, Packing, [Next]_vars
             PROVE  Packing'
  OBVIOUS
<1>1. CASE EncodeRows
  BY <1>1, EncodeRowsPacks
<1>2. CASE Place
  BY <1>2, PlacePacks
<1>3. CASE \/ Compile /\ UNCHANGED << minimizeVars, packVars >>
           \/ ResolveWithLookahead /\ UNCHANGED << minimizeVars, packVars >>
           \/ minimize /\ UNCHANGED packVars
           \/ RefuseTries
  <2>1. table' = table /\ prev' = prev
    BY <1>3 DEF packVars, RefuseTries
  <2>2. stage \notin { "pack", "done" } /\ stage' \notin { "pack", "done" }
    BY <1>3 DEF Compile, ComputeState, AddFinalStates, BuildFollow, BuildLA, PopulateTables,
                ResolveWithLookahead, minimize, Partition, Refine, Rebuild, KeepStates, RefuseTries
  <2> QED
    BY <2>1, <2>2 DEF Packing
<1>4. CASE Finish \/ UNCHANGED vars
  <2>1. /\ g' = g /\ tables' = tables /\ table' = table /\ prev' = prev
        /\ enc' = enc /\ lines' = lines /\ wanted' = wanted
    BY <1>4 DEF Finish, vars, lalrVars, packVars
  <2>2. \/ stage' = stage
        \/ stage = "pack" /\ stage' = "done" /\ DOMAIN lines = {}
    BY <1>4 DEF Finish, vars, lalrVars
  <2>3. /\ EncTyped' = EncTyped /\ LinesPending' = LinesPending
        /\ EveryLineHasBase' = EveryLineHasBase
    BY <2>1 DEF EncTyped, LinesPending, EveryLineHasBase, LineOf, BaseOf, GotosOn, NontermOf,
                Targets, States, Terms, Nonterms, Base
  <2>4. LinesStored' = LinesStored /\ TableOwned' = TableOwned /\ TableTyped' = TableTyped
    BY <2>1 DEF LinesStored, TableOwned, TableTyped
  <2> QED
    BY <2>1, <2>2, <2>3, <2>4 DEF Packing
<1> QED
  BY <1>1, <1>2, <1>3, <1>4 DEF Next, Optimize, Finished

\* What the lookups of the generated parser find at the base of a placed line:
\* where bases are unique, its own pairs and no others.
LEMMA StoredIsOwn ==
  ASSUME LinesStored, TableOwned, BasesAreUnique, NEW p \in DOMAIN prev, NEW z \in Int
  PROVE  /\ z \in DOMAIN p => Stored(prev[p] + z, z) /\ table[prev[p] + z].value = p[z]
         /\ z \notin DOMAIN p => ~Stored(prev[p] + z, z)
<1>1. ASSUME z \in DOMAIN p
      PROVE  Stored(prev[p] + z, z) /\ table[prev[p] + z].value = p[z]
  <2>1. /\ prev[p] + z \in DOMAIN table
        /\ table[prev[p] + z] = [check |-> z, value |-> p[z]]
    BY <1>1 DEF LinesStored
  <2> QED
    BY <2>1 DEF Stored
<1>2. ASSUME z \notin DOMAIN p, Stored(prev[p] + z, z)
      PROVE  FALSE
  <2>1. PICK o \in DOMAIN prev : z \in DOMAIN o /\ prev[p] + z = prev[o] + z
    BY <1>2 DEF TableOwned, Stored
  <2>2. prev[p] \in Int /\ prev[o] \in Int
    BY <2>1 DEF LinesStored
  <2>3. \A a, b \in Int : a + z = b + z => a = b
    OBVIOUS
  <2>4. prev[p] = prev[o]
    BY <2>1, <2>2, <2>3
  <2> QED
    BY <1>2, <2>1, <2>4 DEF BasesAreUnique
<1> QED
  BY <1>1, <1>2

LEMMA LookupsAgree ==
  ASSUME Compiling, Packing, stage = "done", BasesAreUnique, NEW q \in States
  PROVE  /\ \A t \in Terms : packedAction(q, t) = wanted[q][t]
         /\ \A s \in Nonterms \intersect DOMAIN tables.goto[q] : gotoNT(q, s) = tables.goto[q][s]
<1>1. /\ EncTyped /\ EveryLineHasBase /\ LinesStored /\ TableOwned /\ TableTyped
      /\ DOMAIN lines = {}
  BY DEF Packing
<1>2. g.terms \in Nat /\ g.syms \in Nat /\ States \in SUBSET Nat
  BY GrammarTyped DEF Compiling, TablesTyped, HasTables
<1>3. q \in Nat /\ q \in Targets
  BY <1>2 DEF Targets
<1>4. ASSUME NEW t \in Terms
      PROVE  packedAction(q, t) = wanted[q][t]
  <2> DEFINE p == Except(wanted[q], enc.defAct[q])
             b == enc.action[q]
  <2>1. t \in Int /\ t < g.terms /\ DOMAIN wanted[q] = Terms
    BY <1>1, <1>2 DEF Terms, EncTyped
  <2>2. t \in DOMAIN p <=> wanted[q][t] # enc.defAct[q]
    BY <2>1 DEF Except
  <2>3. t \in DOMAIN p => p[t] = wanted[q][t]
    BY DEF Except
  <2>4. \/ p \in DOMAIN prev /\ b = prev[p]
        \/ DOMAIN p = {} /\ b = Base
    <3>1. q >= 0 /\ LineOf(q) = p /\ BaseOf(q) = b
      BY <1>3 DEF LineOf, BaseOf
    <3> HIDE DEF p, b
    <3> QED
      BY <1>1, <1>3, <3>1 DEF EveryLineHasBase
  <2> HIDE DEF p
  <2>5. CASE p \in DOMAIN prev /\ b = prev[p]
    <3>1. b \in Int /\ b > Base
      <4>1. b \in Int /\ IsLine(p)
        BY <1>1, <2>5 DEF LinesStored
      <4>2. DOMAIN p \subseteq Terms
        BY <2>1 DEF p, Except
      <4>3. PICK z \in DOMAIN p : z \in Nat /\ z < g.terms
        BY <1>2, <4>1, <4>2 DEF IsLine, Terms
      <4>4. b + z \in Nat
        BY <1>1, <2>5 DEF LinesStored, TableTyped
      <4> QED
        BY <1>2, <4>1, <4>3, <4>4 DEF Base
    <3>2. packedAction(q, t) = IF Stored(b + t, t) THEN table[b + t].value ELSE enc.defAct[q]
      BY <3>1 DEF packedAction
    <3> QED
      BY <1>1, <2>1, <2>2, <2>3, <2>5, <3>2, StoredIsOwn
  <2>6. CASE DOMAIN p = {} /\ b = Base
    <3>1. ~ (b > Base)
      BY <1>2, <2>6 DEF Base
    <3> QED
      BY <2>2, <2>6, <3>1 DEF packedAction
  <2> QED
    BY <2>4, <2>5, <2>6
<1>5. ASSUME NEW s \in Nonterms, s \in DOMAIN tables.goto[q]
      PROVE  gotoNT(q, s) = tables.goto[q][s]
  <2> DEFINE p == Except(GotosOn(s), enc.defGoto[s])
             b == enc.goto[s]
             x == g.terms - 1 - s
  <2>1. s \in Int /\ g.terms <= s /\ s < g.syms
    BY <1>2 DEF Nonterms
  <2>2. x \in Targets /\ ~ (x >= 0) /\ NontermOf(x) = s
    <3>1. s - g.terms \in 0 .. g.syms - g.terms - 1 /\ x = -1 - (s - g.terms)
      BY <1>2, <2>1
    <3>2. NontermOf(x) = s
      BY <1>2, <2>1 DEF NontermOf
    <3> QED
      BY <1>2, <2>1, <3>1, <3>2 DEF Targets
  <2>3. q \in DOMAIN p <=> tables.goto[q][s] # enc.defGoto[s]
    BY <1>5 DEF Except, GotosOn
  <2>4. q \in DOMAIN p => p[q] = tables.goto[q][s]
    BY <1>5 DEF Except, GotosOn
  <2>5. \/ p \in DOMAIN prev /\ b = prev[p]
        \/ DOMAIN p = {} /\ b = -g.syms
    <3>1. LineOf(x) = p /\ BaseOf(x) = b
      BY <2>2 DEF LineOf, BaseOf
    <3> HIDE DEF p, b, x
    <3> QED
      BY <1>1, <2>2, <3>1 DEF EveryLineHasBase
  <2>6. gotoNT(q, s) = IF Stored(b + q, q) THEN table[b + q].value ELSE enc.defGoto[s]
    BY DEF gotoNT
  <2> HIDE DEF p, b, x
  <2>7. CASE p \in DOMAIN prev /\ b = prev[p]
    BY <1>1, <1>3, <2>3, <2>4, <2>6, <2>7, StoredIsOwn
  <2>8. CASE DOMAIN p = {} /\ b = -g.syms
    <3>1. ~Stored(b + q, q)
      <4> SUFFICES ASSUME Stored(b + q, q)
                   PROVE  FALSE
        OBVIOUS
      <4>1. PICK o \in DOMAIN prev : b + q = prev[o] + q
        BY <1>1 DEF TableOwned, Stored
      <4>2. prev[o] = -g.syms
        BY <1>1, <1>2, <1>3, <2>8, <4>1 DEF LinesStored
      <4> QED
        BY <1>2, <4>2 DEF BasesAreUnique
    <3> QED
      BY <2>3, <2>6, <2>8, <3>1
  <2> QED
    BY <2>5, <2>7, <2>8
<1> QED
  BY <1>4, <1>5

\* The compressed tables: where no two lines have the same base, and none has
\* that of the lines without pairs, packedAction and gotoNT of the generated parser
\* give the action of the state's row on every terminal and the target of every
\* transition on a nonterminal, for every grammar, with and without defaultReduce
\* and merged states.
THEOREM PackedTablesCorrect == Spec => []PackedTablesAgreeApart
<1>1. CompileInit => Compiling /\ Packing
  BY CompilingInit DEF CompileInit, Init, PackInit, Packing
<1>2. (Compiling /\ Packing) /\ [Next]_vars => (Compiling /\ Packing)'
  BY CompilingStep, PackingStep
<1>3. Compiling /\ Packing => PackedTablesAgreeApart
  BY LookupsAgree DEF PackedTablesAgreeApart, PackedTablesAgree
<1> QED
  BY <1>1, <1>2, <1>3, PTL DEF Spec
=============================================================================
