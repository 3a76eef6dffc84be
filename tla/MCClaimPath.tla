---------------------------- MODULE MCClaimPath ----------------------------
(***************************************************************************)
(* ClaimPath on a machine with one or two slots, for rows of one agent     *)
(* that may run two at a time, and with two claim calls so that one given  *)
(* up on can run beside its successor.                                     *)
(***************************************************************************)
EXTENDS ClaimPath, TLC

CONSTANTS t1, t2, a1, c1, c2

TwoRows == {t1, t2}
OneRow  == {t1}
OneAgent   == {a1}
TwoRowsOf  == [t \in TwoRows |-> a1]
OneRowOf   == [t \in OneRow |-> a1]
RoomForTwo == [a \in OneAgent |-> 2]
TwoCalls   == {c1, c2}

\* Rows and calls are interchangeable (used without temporal properties).
Symmetry == Permutations(TwoRows) \cup Permutations(TwoCalls)
=============================================================================
