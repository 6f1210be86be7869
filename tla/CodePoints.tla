------------------------------- MODULE CodePoints -------------------------------
(***************************************************************************)
(* Sets of characters as libunicode writes them: the points of a CharRange *)
(* are <<from1, to1, from2, to2, ...>>, half-open intervals in increasing  *)
(* order.  The last end may be UINT32_MAX, for a set without end.          *)
(***************************************************************************)
EXTENDS Integers, Sequences

CONSTANTS UINT32_MAX,  \* the largest uint32_t
          Characters   \* the characters that are asked for

ASSUME CodePointsAssumption ==
  /\ UINT32_MAX \in Nat
  /\ Characters \subseteq 0..(UINT32_MAX - 2)

Increasing(s) == \A i, k \in DOMAIN s : i < k => s[i] < s[k]

Nondecreasing(s) == \A i, k \in DOMAIN s : i < k => s[i] <= s[k]

Odd(n) == n % 2 = 1

\* x is in the set that the first n points of s make, the last of which has no
\* end if n is odd.
In(s, n, x) == \E k \in 1..n : Odd(k) /\ s[k] <= x /\ (k < n => x < s[k + 1])

Contains(s, x) == In(s, Len(s), x)

\* A CharRange whose intervals may touch or be empty.
Ranges == {s \in Seq(0..UINT32_MAX) : ~Odd(Len(s)) /\ Nondecreasing(s)}
================================================================================
