------------------------------- MODULE Places -------------------------------
(***************************************************************************)
(* The members of a sequence that a loop over it picks: those at some of   *)
(* its places, in their order.                                             *)
(***************************************************************************)
EXTENDS Naturals, FiniteSets

\* How many of the places are at most i is the place of i among them.
UpTo(places, i) == {j \in places : j <= i}

Picked(s, places) ==
    LET place(k) == CHOOSE i \in places : Cardinality(UpTo(places, i)) = k
    IN  [k \in 1 .. Cardinality(places) |-> s[place(k)]]
=============================================================================
