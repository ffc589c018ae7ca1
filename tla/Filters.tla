------------------------------- MODULE Filters -------------------------------
(***************************************************************************)
(* Array.prototype.filter(), as the stores use it to make room.            *)
(***************************************************************************)
EXTENDS Naturals, FiniteSets

\* The entries of s at these places, in their order.
Kept(s, places) ==
    LET nth(n) == CHOOSE i \in places : Cardinality({j \in places : j < i}) = n - 1
    IN  [n \in 1 .. Cardinality(places) |-> s[nth(n)]]

==============================================================================
