----------------------------- MODULE MCLookahead -----------------------------
(***************************************************************************)
(* Lookahead with the tables of LookaheadGrammar, against that grammar.    *)
(***************************************************************************)
EXTENDS Lookahead, LookaheadGrammar

MCTokens == {"(", ")", "=>", "a"}

\* BOUND: all short texts, with comments, and the longer ones that nest.
MCTexts ==
  UNION { [1 .. n -> MCTokens \union {"comment"}] : n \in 0 .. 4 } \union
  { << "(" >> \o t : t \in [1 .. 5 -> MCTokens] } \union
  { << "(", "(", ")", "=>" >> \o t : t \in [1 .. 4 -> MCTokens] }

(***************************************************************************)
(* The grammar, read as recursive descent from position i of the text with *)
(* unlimited lookahead: ParseE[i] and ParseP[i] say where the only E and   *)
(* the only P at i end, or are 0.                                          *)
(***************************************************************************)
Types == SelectSeq(text, LAMBDA t : t \notin Ignored)
Is(i, t) == i \in DOMAIN Types /\ Types[i] = t

\* Where the E that starts at i ends, given the ends of those that start later.
EndAt[i \in 1 .. Len(text) + 2] ==
  LET Inner  == IF Is(i, "(") THEN EndAt[i + 1] ELSE [e |-> 0, p |-> 0]
      Closed == IF Inner.e # 0 /\ Is(Inner.e, ")") THEN Inner.e + 1 ELSE 0
      p      == IF Is(i, "(") /\ Is(i + 1, ")") THEN i + 2 ELSE Closed
  IN  IF i > Len(Types) THEN [e |-> 0, p |-> 0]
      ELSE [p |-> p,
            e |-> CASE Is(i, "a") -> i + 1
                    [] p # 0 /\ Is(p, "=>") -> EndAt[p + 1].e
                    [] OTHER -> Closed]

ArrowAt(i) == LET p == EndAt[i].p IN p # 0 /\ Is(p, "=>")
CastAt(i)  == /\ Is(i, "(") /\ EndAt[i + 1].e # 0
              /\ Is(EndAt[i + 1].e, ")") /\ Is(EndAt[i + 1].e + 1, "(")

IsSentence ==
  \/ CastAt(1) /\ EndAt[EndAt[2].e + 1].e = Len(Types) + 1
  \/ ~CastAt(1) /\ EndAt[1].e = Len(Types) + 1
  \/ Types \in { << "=>", "a", "a", "a" >>, << "=>", "a", "a", "(" >> }

\* The position among the grammar's tokens of the one at a given offset.
Position(off) == Cardinality({ j \in 1 .. off : text[j] \notin Ignored }) + 1

-----------------------------------------------------------------------------
\* The memo never lies: an answer in the cache is the grammar's answer for the
\* text at that offset, whatever context first asked, whichever nested runs
\* came between, and whatever the hash function evicted.
MemoTruthful ==
  \A s \in DOMAIN cache :
    LET k == cache[s].key
    IN  cache[s].value = (IF k.end = 38 THEN ArrowAt(Position(k.off))
                                        ELSE CastAt(Position(k.off)))

\* "A miss only costs time, never correctness" (parser.go): with a cache of any
\* size parse accepts exactly the sentences of the grammar.
MemoIsTransparent ==
  pc \in {"accepted", "failed"} => ((pc = "accepted") <=> IsSentence)

\* With a cache that forgets nothing, no lookahead runs twice at one offset,
\* however deeply the contexts that ask for it are nested.
EachRunsOnce ==
  size > 100 * (Len(text) + 1) => runs = Cardinality(DOMAIN cache) + Len(frames) - 1
=============================================================================
