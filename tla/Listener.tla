------------------------------ MODULE Listener ------------------------------
(***************************************************************************)
(* What a parser promises to the Listener it reports to.                   *)
(*                                                                         *)
(* A listener is called with node types and ranges of the text, for nodes  *)
(* and for ignored tokens alike (parsers/tm/listener.go).  It can build a  *)
(* tree from the calls because they come in post-order: a range that is    *)
(* reported later lies beside an earlier one or encloses it.               *)
(***************************************************************************)
EXTENDS Integers, Sequences

VARIABLE events

IsRange(e) == 0 <= e.off /\ e.off <= e.end

Beside(e, f)   == e.end <= f.off \/ f.end <= e.off
Encloses(f, e) == f.off <= e.off /\ e.end <= f.end

PostOrder(calls) ==
  /\ \A i \in DOMAIN calls : IsRange(calls[i])
  /\ \A i, j \in DOMAIN calls :
       i < j => Beside(calls[i], calls[j]) \/ Encloses(calls[j], calls[i])

Init == events = <<>>

\* One or more calls that keep the order.
Report ==
  /\ Len(events') > Len(events)
  /\ SubSeq(events', 1, Len(events)) = events
  /\ PostOrder(events')

Spec == Init /\ [][Report]_events
=============================================================================
