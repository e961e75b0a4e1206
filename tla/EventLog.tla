------------------------------ MODULE EventLog ------------------------------
(***************************************************************************)
(* What the agent feed promises its readers: of all events recorded, it    *)
(* holds the newest Cap, and an id it holds is not recorded again.  Later  *)
(* is the order in which the feed is read.                                 *)
(***************************************************************************)
EXTENDS Integers, FiniteSets

CONSTANTS Cap, Later(_, _), SameId(_, _)

VARIABLE kept

Newest(S) == {e \in S : Cardinality({x \in S : Later(x, e)}) < Cap}

LogInit == kept = {}

Record(e) ==
  /\ \A k \in kept : ~SameId(k, e)
  /\ kept' = Newest(kept \cup {e})

\* An event older than all of a full log leaves no trace.
LogNext == \E e \in kept' : Record(e)

LogSpec == LogInit /\ [][LogNext]_kept
=============================================================================
