--------------------------- MODULE SequenceNumber ---------------------------
(***************************************************************************)
(* The 16-bit sequence numbers that order the updates of a table entry     *)
(* (Vision/src/SequenceNumber.cpp).  They wrap around, so "newer" is a     *)
(* comparison of distances: it is right as long as the two numbers are     *)
(* less than half of the number circle apart.                              *)
(***************************************************************************)
EXTENDS Integers

CONSTANT Half    \* half of the circle; 2^15 in the code

ASSUME HalfAssumption == Half \in Nat /\ Half >= 2

SeqNums == 0 .. (2 * Half - 1)

Inc(s) == IF s + 1 > 2 * Half - 1 THEN 0 ELSE s + 1

Lt(l, r) == \/ l < r /\ r - l < Half
            \/ l > r /\ l - r > Half

Gt(l, r) == \/ l < r /\ r - l > Half
            \/ l > r /\ l - r < Half

Leq(l, r) == l = r \/ Lt(l, r)
=============================================================================
