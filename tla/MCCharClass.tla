------------------------------ MODULE MCCharClass ------------------------------
(***************************************************************************)
(* Sets over a few points on both sides of 0xffff, every pair of operands  *)
(* of up to two intervals that may touch or be empty, and characters at,   *)
(* below and above the points.                                             *)
(***************************************************************************)
EXTENDS CharClass, FiniteSets

MCMax == 2147483647
Points == {0, 3, 65535, 65536, MCMax}

Few == {0, 3, 65536}

MCOperands ==
  {<<>>, Interval(65535, 65535)}
    \cup {s \in Points \X Points : Nondecreasing(s)}
    \cup {s \in Few \X Few \X Few \X Few : Nondecreasing(s)}
MCCharacters == (0..4) \cup {6, 8, 9, 10, 65534, 65535, 65536, 65537, 69999, 70000, 1114111}

\* All classes of up to three intervals over some more points, and a few longer
\* ones.
Sorted(S) ==
  [n \in 1..Cardinality(S) |-> CHOOSE x \in S : Cardinality({y \in S : y < x}) = n - 1]
MCClasses ==
  {Sorted(S) : S \in {T \in SUBSET (Points \cup {1, 65534, 70000}) : Cardinality(T) \in {2, 4, 6}}}
    \cup {<<0, 1, 3, 4, 6, 7, 9, 10>>, <<0, 1, 3, 4, 6, 7, 9, MCMax>>, <<1, 2, 3, 4, 5, 6, 7, 8, 9, 10>>}
================================================================================
