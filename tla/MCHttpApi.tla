------------------------------ MODULE MCHttpApi -----------------------------
(* Instances of HttpApi for TLC.                                           *)
EXTENDS HttpApi, TLC

Symmetry == Permutations(Users)

\* Two tabs of one browser, or one tab each of two.
SameOrNot == {[t \in Tabs |-> "A"], [t \in Tabs |-> IF t = "a" THEN "A" ELSE "B"]}
=============================================================================
