---------------------------- MODULE CharClass_proofs ----------------------------
(***************************************************************************)
(* A character class from the operation that makes it to the lookup, for   *)
(* all operands and every character.                                       *)
(*                                                                         *)
(* The merge: what is put out agrees with the operation on the points that *)
(* are taken from a and b, for every character (Merged).  A point is at or *)
(* above all that were taken, so below it nothing changes, and from it on  *)
(* only the parities of the three lengths count.                           *)
(*                                                                         *)
(* The compression: the points below k make the set of the ones that were  *)
(* read, strictly increasing, and the ones from i on are as they were.     *)
(*                                                                         *)
(* The lookup of a character is right for every class whose points         *)
(* increase, also at 0xffff and without end, and reads only intervals that *)
(* exist; and the points of a set that an operation has made do increase.  *)
(***************************************************************************)
EXTENDS CharClass, SequenceTheorems, WellFoundedInduction, TLAPS

Codes == 0..(UINT32_MAX - 1)

\* The points s that were put out after na points of a and nb of b.
Merged(s, na, nb) ==
  /\ Odd(Len(s)) <=> Holds(op, Odd(na), Odd(nb))
  /\ \A x \in Codes : In(s, Len(s), x) <=> Holds(op, In(a, na, x), In(b, nb, x))
  /\ \A m, n \in 1..Len(s) : m < n => s[m] <= s[n]
  /\ na < Len(a) => \A m \in 1..Len(s) : s[m] <= a[na + 1]
  /\ nb < Len(b) => \A m \in 1..Len(s) : s[m] <= b[nb + 1]
  /\ na < Len(a) => \A m \in 1..nb : b[m] <= a[na + 1]
  /\ nb < Len(b) => \A m \in 1..na : a[m] <= b[nb + 1]

\* Half-way through cr_compress.
Halfway ==
  /\ merged \in Ranges /\ Len(cr) = Len(merged)
  /\ \A x \in Codes : Contains(merged, x) <=> Denotes(x)
  /\ op \in SetOps \cup {"invert"}
  /\ i % 2 = 0 /\ i <= Len(cr)
  /\ k % 2 = 0 /\ k <= i
  /\ \A m \in 1..Len(cr) : i < m => cr[m] = merged[m]
  /\ \A x \in Codes : In(cr, k, x) <=> In(merged, i, x)
  /\ \A m, n \in 1..k : m < n => cr[m] < cr[n]
  /\ 0 < k /\ i < Len(cr) => cr[k] < merged[i + 1]

\* The interval that starts at i reaches to the end of the one at j.
Joined ==
  /\ j % 2 = 0 /\ i <= j /\ j + 2 <= Len(cr)
  /\ merged[i + 1] < merged[j + 2]
  /\ \A x \in Codes :
       In(merged, j + 2, x) <=> \/ In(merged, i, x)
                                \/ merged[i + 1] <= x /\ x < merged[j + 2]

Exact == \A x \in Codes : Contains(cr, x) <=> Denotes(x)

IInv ==
  /\ CR_TypeOK
  /\ ReadyForLookup
  /\ pc = "merge" => op \in SetOps /\ Merged(cr, a_idx, b_idx)
  /\ pc \in {"compress", "join"} => Halfway
  /\ pc = "join" => Joined
  /\ pc = "done" => Exact
  /\ pc = "idle" => a_idx = 0 /\ b_idx = 0

--------------------------------------------------------------------------------
(***************************************************************************)
(* Membership.                                                             *)
(***************************************************************************)
LEMMA RangeFacts ==
  ASSUME NEW s \in Ranges
  PROVE  /\ s \in Seq(0..UINT32_MAX)
         /\ Len(s) \in Nat
         /\ Len(s) % 2 = 0
         /\ \A m \in 1..Len(s) : s[m] \in 0..UINT32_MAX
         /\ \A m, n \in 1..Len(s) : m < n => s[m] <= s[n]
  <1>1. s \in Seq(0..UINT32_MAX) /\ ~Odd(Len(s)) /\ Nondecreasing(s)
    BY DEF Ranges
  <1>2. Len(s) \in Nat /\ DOMAIN s = 1..Len(s)
    BY <1>1
  <1>3. \A m \in 1..Len(s) : s[m] \in 0..UINT32_MAX
    BY <1>1, ElementOfSeq
  <1>4. Len(s) % 2 = 0
    BY <1>1, <1>2 DEF Odd
  <1> QED
    BY <1>1, <1>2, <1>3, <1>4 DEF Nondecreasing

LEMMA IsRange ==
  ASSUME NEW s \in Seq(0..UINT32_MAX), Len(s) % 2 = 0,
         \A m, n \in 1..Len(s) : m < n => s[m] <= s[n]
  PROVE  s \in Ranges
  <1>1. Len(s) \in Nat /\ DOMAIN s = 1..Len(s)
    OBVIOUS
  <1> QED
    BY <1>1 DEF Ranges, Odd, Nondecreasing

\* At or above all the points only their number counts.
LEMMA AllBelow ==
  ASSUME NEW s, NEW n \in Nat, NEW x \in Int,
         \A m \in 1..n : s[m] \in Int /\ s[m] <= x
  PROVE  In(s, n, x) <=> Odd(n)
  <1>1. ASSUME In(s, n, x) PROVE Odd(n)
    <2>1. PICK m \in 1..n : Odd(m) /\ s[m] <= x /\ (m < n => x < s[m + 1])
      BY <1>1 DEF In
    <2>2. ~(m < n)
      <3> SUFFICES ASSUME m < n PROVE FALSE
        OBVIOUS
      <3>1. m + 1 \in 1..n
        OBVIOUS
      <3> QED
        BY <3>1, <2>1
    <2> QED
      BY <2>1, <2>2
  <1>2. ASSUME Odd(n) PROVE In(s, n, x)
    <2>1. n \in 1..n
      BY <1>2 DEF Odd
    <2> QED
      BY <2>1, <1>2 DEF In
  <1> QED
    BY <1>1, <1>2

\* Below a point it makes no difference.
LEMMA BelowNext ==
  ASSUME NEW s, NEW n \in Nat, NEW x \in Int, s[n + 1] \in Int, x < s[n + 1]
  PROVE  In(s, n + 1, x) <=> In(s, n, x)
  <1>1. ASSUME In(s, n + 1, x) PROVE In(s, n, x)
    <2>1. PICK m \in 1..(n + 1) : Odd(m) /\ s[m] <= x /\ (m < n + 1 => x < s[m + 1])
      BY <1>1 DEF In
    <2>2. m # n + 1
      BY <2>1
    <2>3. m \in 1..n /\ (m < n => x < s[m + 1])
      BY <2>1, <2>2
    <2> QED
      BY <2>1, <2>3 DEF In
  <1>2. ASSUME In(s, n, x) PROVE In(s, n + 1, x)
    <2>1. PICK m \in 1..n : Odd(m) /\ s[m] <= x /\ (m < n => x < s[m + 1])
      BY <1>2 DEF In
    <2>2. m \in 1..(n + 1) /\ (m < n + 1 => x < s[m + 1])
      <3>1. CASE m = n
        BY <3>1
      <3>2. CASE m < n
        BY <3>2, <2>1
      <3> QED
        BY <3>1, <3>2
    <2> QED
      BY <2>1, <2>2 DEF In
  <1> QED
    BY <1>1, <1>2

\* One more interval.
LEMMA InPair ==
  ASSUME NEW s, NEW n \in Nat, n % 2 = 0, NEW x \in Int,
         s[n + 1] \in Int, s[n + 2] \in Int
  PROVE  In(s, n + 2, x) <=> In(s, n, x) \/ (s[n + 1] <= x /\ x < s[n + 2])
  <1>1. ASSUME In(s, n + 2, x) PROVE In(s, n, x) \/ (s[n + 1] <= x /\ x < s[n + 2])
    <2>1. PICK m \in 1..(n + 2) : Odd(m) /\ s[m] <= x /\ (m < n + 2 => x < s[m + 1])
      BY <1>1 DEF In
    <2>2. m # n + 2
      BY <2>1 DEF Odd
    <2>3. CASE m = n + 1
      BY <2>1, <2>3
    <2>4. CASE m \in 1..n
      BY <2>1, <2>4 DEF In
    <2> QED
      BY <2>2, <2>3, <2>4
  <1>2. ASSUME In(s, n, x) PROVE In(s, n + 2, x)
    <2>1. PICK m \in 1..n : Odd(m) /\ s[m] <= x /\ (m < n => x < s[m + 1])
      BY <1>2 DEF In
    <2>2. m # n
      BY <2>1 DEF Odd
    <2>3. m \in 1..(n + 2) /\ x < s[m + 1]
      BY <2>1, <2>2
    <2> QED
      BY <2>1, <2>3 DEF In
  <1>3. ASSUME s[n + 1] <= x, x < s[n + 2] PROVE In(s, n + 2, x)
    <2>1. n + 1 \in 1..(n + 2) /\ Odd(n + 1) /\ (n + 1) + 1 = n + 2
      BY DEF Odd
    <2> QED
      BY <2>1, <1>3 DEF In
  <1> QED
    BY <1>1, <1>2, <1>3

LEMMA SameIn ==
  ASSUME NEW s, NEW t, NEW n \in Nat, NEW x, \A m \in 1..n : s[m] = t[m]
  PROVE  In(s, n, x) <=> In(t, n, x)
  <1>1. \A m \in 1..n : m < n => s[m + 1] = t[m + 1]
    OBVIOUS
  <1> QED
    BY <1>1 DEF In

\* A set of natural numbers has a least element.
LEMMA Least ==
  ASSUME NEW S \in SUBSET Nat, S # {}
  PROVE  \E p \in S : \A n \in S : p <= n
  <1> DEFINE R == {ss \in Nat \X Nat : ss[1] < ss[2]}
  <1>1. IsWellFoundedOn(R, Nat)
    BY NatLessThanWellFounded DEF OpToRel
  <1>2. PICK p \in S : \A n \in S : ~(<<n, p>> \in R)
    <2> HIDE DEF R
    <2> QED
      BY <1>1, WFMin
  <1>3. \A n \in S : ~(n < p)
    BY <1>2
  <1> QED
    BY <1>3

--------------------------------------------------------------------------------
(***************************************************************************)
(* cr_invert.                                                              *)
(***************************************************************************)
\* The complement up to UINT32_MAX: the points of s split the characters into
\* those below and those above x, and 0 in front changes their parity.
LEMMA InvertedFacts ==
  ASSUME NEW s \in Ranges
  PROVE  /\ Inverted(s) \in Ranges
         /\ Len(Inverted(s)) = Len(s) + 2
         /\ \A x \in Codes : Contains(Inverted(s), x) <=> ~Contains(s, x)
  <1> DEFINE t == Inverted(s)
             L == Len(s)
  <1>1. /\ L \in Nat /\ L % 2 = 0 /\ s \in Seq(0..UINT32_MAX)
        /\ \A m \in 1..L : s[m] \in 0..UINT32_MAX
        /\ \A m, n \in 1..L : m < n => s[m] <= s[n]
    BY RangeFacts
  <1>2. UINT32_MAX \in Nat
    BY CodePointsAssumption
  <1>3. /\ t \in Seq(0..UINT32_MAX)
        /\ Len(t) = L + 2
        /\ t[1] = 0
        /\ \A m \in 1..L : t[m + 1] = s[m]
        /\ t[L + 2] = UINT32_MAX
    BY <1>1, <1>2 DEF Inverted
  <1> HIDE DEF t
  <1>4. \A m \in 2..(L + 1) : t[m] = s[m - 1] /\ t[m] \in 0..UINT32_MAX
    <2> TAKE m \in 2..(L + 1)
    <2>1. m - 1 \in 1..L /\ (m - 1) + 1 = m
      BY <1>1
    <2> QED
      BY <2>1, <1>1, <1>3
  <1>5. \A m, n \in 1..(L + 2) : m < n => t[m] <= t[n]
    <2> SUFFICES ASSUME NEW m \in 1..(L + 2), NEW n \in 1..(L + 2), m < n
                 PROVE  t[m] <= t[n]
      OBVIOUS
    <2>1. CASE m = 1
      <3>1. t[n] \in 0..UINT32_MAX
        BY <2>1, <1>2, <1>3, <1>4, <1>1
      <3> QED
        BY <3>1, <2>1, <1>3
    <2>2. CASE m # 1 /\ n = L + 2
      BY <2>2, <1>1, <1>2, <1>3, <1>4
    <2>3. CASE m # 1 /\ n # L + 2
      <3>1. m \in 2..(L + 1) /\ n \in 2..(L + 1)
        BY <2>3, <1>1
      <3>2. m - 1 \in 1..L /\ n - 1 \in 1..L /\ m - 1 < n - 1
        BY <3>1, <1>1
      <3> QED
        BY <3>1, <3>2, <1>1, <1>4
    <2> QED
      BY <2>1, <2>2, <2>3
  <1>6. t \in Ranges
    <2>1. Len(t) % 2 = 0
      BY <1>1, <1>3
    <2> QED
      BY <2>1, <1>3, <1>5, IsRange
  <1>7. ASSUME NEW x \in Codes PROVE Contains(t, x) <=> ~Contains(s, x)
    <2> DEFINE S == {n \in Nat : n \in 1..(L + 1) /\ (n = L + 1 \/ x < s[n])}
    <2>1. L + 1 \in S
      BY <1>1
    <2>2. PICK p \in S : \A n \in S : p <= n
      <3>1. S \subseteq Nat /\ S # {}
        BY <2>1
      <3> QED
        BY <3>1, Least
    <2>3. p \in 1..(L + 1) /\ x \in Int
      BY <2>2, <1>2 DEF Codes
    <2>4. \A m \in 1..(p - 1) : s[m] \in Int /\ s[m] <= x
      <3> TAKE m \in 1..(p - 1)
      <3>1. m \in 1..L /\ m < p /\ m \notin S
        BY <2>2, <2>3, <1>1
      <3> QED
        BY <3>1, <1>1, <2>3
    <2>5. \A m \in p..L : x < s[m]
      <3> TAKE m \in p..L
      <3>1. x < s[p] /\ p \in 1..L /\ m \in 1..L
        BY <2>2, <2>3, <1>1
      <3>2. s[p] <= s[m]
        BY <3>1, <1>1, <2>3
      <3> QED
        BY <3>1, <3>2, <1>1, <2>3
    <2>6. Contains(s, x) <=> Odd(p - 1)
      <3>1. p - 1 \in Nat
        BY <2>3
      <3>2. In(s, p - 1, x) <=> Odd(p - 1)
        BY <3>1, <2>3, <2>4, AllBelow
      <3>3. CASE p = L + 1
        BY <3>2, <3>3, <1>1 DEF Contains
      <3>4. CASE p # L + 1
        \* the first point above x ends the reading of s
        <4>1. p \in 1..L
          BY <3>4, <2>3, <1>1
        <4>2. Contains(s, x) => In(s, p - 1, x)
          <5> SUFFICES ASSUME Contains(s, x) PROVE In(s, p - 1, x)
            OBVIOUS
          <5>1. PICK m \in 1..L : Odd(m) /\ s[m] <= x /\ (m < L => x < s[m + 1])
            BY DEF Contains, In
          <5>2. m < p
            <6> SUFFICES ASSUME ~(m < p) PROVE FALSE
              OBVIOUS
            <6>1. m \in p..L
              BY <2>3, <1>1
            <6>2. x < s[m] /\ s[m] \in Int
              BY <6>1, <2>5, <1>1, <1>2
            <6> QED
              BY <6>2, <5>1, <2>3
          <5>3. m \in 1..(p - 1)
            BY <5>2, <2>3
          <5>4. m < p - 1 => x < s[m + 1]
            BY <5>1, <5>3, <4>1, <1>1
          <5> QED
            BY <5>1, <5>3, <5>4 DEF In
        <4>3. In(s, p - 1, x) => Contains(s, x)
          <5> SUFFICES ASSUME In(s, p - 1, x) PROVE Contains(s, x)
            OBVIOUS
          <5>1. PICK m \in 1..(p - 1) : Odd(m) /\ s[m] <= x /\ (m < p - 1 => x < s[m + 1])
            BY DEF In
          <5>2. m \in 1..L
            BY <5>1, <4>1, <1>1
          <5>3. x < s[m + 1]
            <6>1. CASE m = p - 1
              <7>1. m + 1 = p /\ p \in p..L
                BY <6>1, <4>1, <2>3, <1>1
              <7> QED
                BY <7>1, <2>5
            <6>2. CASE m < p - 1
              BY <6>2, <5>1
            <6> QED
              BY <6>1, <6>2, <5>1, <2>3
          <5> QED
            BY <5>1, <5>2, <5>3 DEF Contains, In
        <4> QED
          BY <3>2, <4>2, <4>3
      <3> QED
        BY <3>3, <3>4
    <2>7. Contains(t, x) <=> Odd(p)
      <3>1. \A m \in 1..p : t[m] \in Int /\ t[m] <= x
        <4> TAKE m \in 1..p
        <4>1. CASE m = 1
          BY <4>1, <1>3, <1>2 DEF Codes
        <4>2. CASE m # 1
          <5>1. m \in 2..(L + 1) /\ m - 1 \in 1..(p - 1)
            BY <4>2, <2>3, <1>1
          <5> QED
            BY <5>1, <1>4, <2>4
        <4> QED
          BY <4>1, <4>2
      <3>2. In(t, p, x) <=> Odd(p)
        BY <3>1, <2>3, AllBelow
      <3>3. \A m \in (p + 1)..(L + 2) : x < t[m]
        <4> TAKE m \in (p + 1)..(L + 2)
        <4>1. CASE m = L + 2
          BY <4>1, <1>3, <1>2 DEF Codes
        <4>2. CASE m # L + 2
          <5>1. m \in 2..(L + 1) /\ m - 1 \in p..L
            BY <4>2, <2>3, <1>1
          <5> QED
            BY <5>1, <1>4, <2>5
        <4> QED
          BY <4>1, <4>2
      <3>4. Contains(t, x) => In(t, p, x)
        <4> SUFFICES ASSUME Contains(t, x) PROVE In(t, p, x)
          OBVIOUS
        <4>1. PICK m \in 1..(L + 2) : Odd(m) /\ t[m] <= x /\ (m < L + 2 => x < t[m + 1])
          BY <1>3 DEF Contains, In
        <4>2. t[m] \in Int
          BY <1>1, <1>2, <1>3, <1>4
        <4>3. m \in 1..p
          <5> SUFFICES ASSUME ~(m <= p) PROVE FALSE
            BY <2>3
          <5>1. m \in (p + 1)..(L + 2)
            BY <2>3, <1>1
          <5>2. x < t[m]
            BY <5>1, <3>3
          <5> QED
            BY <5>2, <4>1, <4>2, <2>3
        <4>4. m < p => x < t[m + 1]
          BY <4>1, <4>3, <2>3, <1>1
        <4> QED
          BY <4>1, <4>3, <4>4 DEF In
      <3>5. In(t, p, x) => Contains(t, x)
        <4> SUFFICES ASSUME In(t, p, x) PROVE Contains(t, x)
          OBVIOUS
        <4>1. PICK m \in 1..p : Odd(m) /\ t[m] <= x /\ (m < p => x < t[m + 1])
          BY DEF In
        <4>2. m \in 1..(L + 2)
          BY <2>3, <1>1
        <4>3. x < t[m + 1]
          <5>1. CASE m = p
            <6>1. m + 1 \in (p + 1)..(L + 2)
              BY <5>1, <2>3, <1>1
            <6> QED
              BY <6>1, <3>3
          <5>2. CASE m < p
            BY <5>2, <4>1
          <5> QED
            BY <5>1, <5>2, <2>3
        <4> QED
          BY <4>1, <4>2, <4>3, <1>3 DEF Contains, In
      <3> QED
        BY <3>2, <3>4, <3>5
    <2>8. Odd(p) <=> ~Odd(p - 1)
      BY <2>3 DEF Odd
    <2> QED
      BY <2>6, <2>7, <2>8
  <1> QED
    BY <1>3, <1>6, <1>7 DEF t

--------------------------------------------------------------------------------
(***************************************************************************)
(* cr_op.                                                                  *)
(***************************************************************************)
\* One more point v of a, of b or of both, at or above all that were taken and
\* at or below all that were not.
LEMMA MergeStep ==
  ASSUME CR_TypeOK, op \in SetOps, Len(cr) <= size,
         Merged(cr, a_idx, b_idx),
         NEW v \in 0..UINT32_MAX,
         NEW na \in {a_idx, a_idx + 1}, NEW nb \in {b_idx, b_idx + 1},
         na <= Len(a), nb <= Len(b),
         na # a_idx \/ nb # b_idx,
         na # a_idx => a[na] = v,
         nb # b_idx => b[nb] = v,
         na = a_idx /\ a_idx < Len(a) => v <= a[a_idx + 1],
         nb = b_idx /\ b_idx < Len(b) => v <= b[b_idx + 1],
         AddPoint(v, na, nb)
  PROVE  /\ cr' \in Seq(0..UINT32_MAX)
         /\ size' \in Nat /\ Len(cr') <= size'
         /\ Merged(cr', na, nb)
  <1>1. /\ a \in Ranges /\ b \in Ranges
        /\ a_idx \in 0..Len(a) /\ b_idx \in 0..Len(b)
        /\ cr \in Seq(0..UINT32_MAX) /\ size \in Nat
    BY DEF CR_TypeOK
  <1>2. /\ Len(a) \in Nat /\ Len(b) \in Nat
        /\ \A m \in 1..Len(a) : a[m] \in 0..UINT32_MAX
        /\ \A m, n \in 1..Len(a) : m < n => a[m] <= a[n]
        /\ \A m \in 1..Len(b) : b[m] \in 0..UINT32_MAX
        /\ \A m, n \in 1..Len(b) : m < n => b[m] <= b[n]
    BY <1>1, RangeFacts
  <1>3. Len(cr) \in Nat /\ \A m \in 1..Len(cr) : cr[m] \in 0..UINT32_MAX
    <2>1. cr \in Seq(0..UINT32_MAX)
      BY <1>1
    <2>2. \A m \in 1..Len(cr) : cr[m] \in 0..UINT32_MAX
      BY <2>1, ElementOfSeq
    <2> QED
      BY <2>1, <2>2
  <1>4. UINT32_MAX \in Nat /\ v \in Nat
    BY CodePointsAssumption
  <1>5. na \in Nat /\ nb \in Nat /\ a_idx \in Nat /\ b_idx \in Nat
    BY <1>1, <1>2
  \* v is at or above all that was taken or put out
  <1>6. \A m \in 1..na : a[m] \in Nat /\ a[m] <= v
    <2> TAKE m \in 1..na
    <2>1. a[m] \in Nat
      BY <1>2, <1>5
    <2>2. CASE na # a_idx
      <3>1. CASE m = na
        BY <3>1, <2>1, <2>2
      <3>2. CASE m < na
        BY <3>2, <2>2, <1>2, <1>5, <2>1
      <3> QED
        BY <3>1, <3>2, <1>5
    <2>3. CASE na = a_idx
      <3>1. nb = b_idx + 1 /\ b_idx < Len(b) /\ b[b_idx + 1] = v
        BY <2>3, <1>2, <1>5
      <3> QED
        BY <3>1, <2>1, <2>3 DEF Merged
    <2> QED
      BY <2>2, <2>3
  <1>7. \A m \in 1..nb : b[m] \in Nat /\ b[m] <= v
    <2> TAKE m \in 1..nb
    <2>1. b[m] \in Nat
      BY <1>2, <1>5
    <2>2. CASE nb # b_idx
      <3>1. CASE m = nb
        BY <3>1, <2>1, <2>2
      <3>2. CASE m < nb
        BY <3>2, <2>2, <1>2, <1>5, <2>1
      <3> QED
        BY <3>1, <3>2, <1>5
    <2>3. CASE nb = b_idx
      <3>1. na = a_idx + 1 /\ a_idx < Len(a) /\ a[a_idx + 1] = v
        BY <2>3, <1>2, <1>5
      <3> QED
        BY <3>1, <2>1, <2>3 DEF Merged
    <2> QED
      BY <2>2, <2>3
  <1>8. \A m \in 1..Len(cr) : cr[m] <= v
    <2>1. CASE na # a_idx
      BY <2>1, <1>2, <1>5 DEF Merged
    <2>2. CASE nb # b_idx
      BY <2>2, <1>2, <1>5 DEF Merged
    <2> QED
      BY <2>1, <2>2
  \* and at or below all that was not taken
  <1>9. na < Len(a) => a[na + 1] \in Nat /\ v <= a[na + 1]
    <2> SUFFICES ASSUME na < Len(a) PROVE a[na + 1] \in Nat /\ v <= a[na + 1]
      OBVIOUS
    <2>1. na + 1 \in 1..Len(a)
      BY <1>2, <1>5
    <2>2. CASE na = a_idx
      BY <2>1, <2>2, <1>2
    <2>3. CASE na # a_idx
      <3>1. na \in 1..Len(a) /\ na < na + 1
        BY <2>3, <1>2, <1>5
      <3> QED
        BY <3>1, <2>1, <2>3, <1>2
    <2> QED
      BY <2>2, <2>3
  <1>10. nb < Len(b) => b[nb + 1] \in Nat /\ v <= b[nb + 1]
    <2> SUFFICES ASSUME nb < Len(b) PROVE b[nb + 1] \in Nat /\ v <= b[nb + 1]
      OBVIOUS
    <2>1. nb + 1 \in 1..Len(b)
      BY <1>2, <1>5
    <2>2. CASE nb = b_idx
      BY <2>1, <2>2, <1>2
    <2>3. CASE nb # b_idx
      <3>1. nb \in 1..Len(b) /\ nb < nb + 1
        BY <2>3, <1>2, <1>5
      <3> QED
        BY <3>1, <2>1, <2>3, <1>2
    <2> QED
      BY <2>2, <2>3
  <1>11. /\ cr' \in Seq(0..UINT32_MAX)
         /\ Len(cr') \in Nat
         /\ Len(cr') <= Len(cr) + 1
         /\ \A m \in 1..Len(cr) : cr'[m] = cr[m] /\ m \in 1..Len(cr')
         /\ \A m \in 1..Len(cr') : cr'[m] \in Nat /\ cr'[m] <= v
         /\ Odd(Len(cr')) <=> Holds(op, Odd(na), Odd(nb))
         /\ size' \in Nat /\ Len(cr') <= size'
         /\ \/ cr' = cr
            \/ Len(cr') = Len(cr) + 1 /\ cr'[Len(cr) + 1] = v
    <2>1. CASE Holds(op, Odd(na), Odd(nb)) <=> Odd(Len(cr))
      <3>1. cr' = cr /\ size' = size
        BY <2>1 DEF AddPoint
      <3> QED
        BY <3>1, <2>1, <1>1, <1>3, <1>8
    <2>2. CASE ~(Holds(op, Odd(na), Odd(nb)) <=> Odd(Len(cr)))
      <3>1. cr' = Append(cr, v) /\ size' = Room(Len(cr) + 1)
        BY <2>2 DEF AddPoint
      <3>2. /\ cr' \in Seq(0..UINT32_MAX) /\ Len(cr') = Len(cr) + 1
            /\ \A m \in 1..Len(cr) : cr'[m] = cr[m]
            /\ cr'[Len(cr) + 1] = v
        BY <3>1, <1>1, <1>4
      <3>3. Odd(Len(cr) + 1) <=> ~Odd(Len(cr))
        BY <1>3 DEF Odd
      <3>4. size' \in Nat /\ Len(cr) + 1 <= size'
        <4>1. (size * 3) \div 2 \in Nat
          BY <1>1
        <4> QED
          BY <4>1, <3>1, <1>1, <1>3 DEF Room, Larger
      <3>5. \A m \in 1..Len(cr') : cr'[m] \in Nat /\ cr'[m] <= v
        <4> SUFFICES ASSUME NEW m \in 1..Len(cr') PROVE cr'[m] \in Nat /\ cr'[m] <= v
          OBVIOUS
        <4>1. CASE m = Len(cr) + 1
          BY <4>1, <3>2, <1>4
        <4>2. CASE m # Len(cr) + 1
          <5>1. m \in 1..Len(cr)
            BY <4>2, <3>2, <1>3
          <5>2. cr'[m] = cr[m] /\ cr[m] \in 0..UINT32_MAX /\ cr[m] <= v
            BY <5>1, <3>2, <1>3, <1>8
          <5> QED
            BY <5>2, <1>4
        <4> QED
          BY <4>1, <4>2
      <3>6. Odd(Len(cr')) <=> Holds(op, Odd(na), Odd(nb))
        <4>1. Odd(Len(cr')) <=> ~Odd(Len(cr))
          BY <3>2, <3>3
        <4> QED
          BY <4>1, <2>2
      <3> QED
        BY <3>2, <3>4, <3>5, <3>6, <1>3
    <2> QED
      BY <2>1, <2>2
  <1>12. \A x \in Codes : In(cr', Len(cr'), x) <=> Holds(op, In(a, na, x), In(b, nb, x))
    <2> TAKE x \in Codes
    <2>1. x \in Nat
      BY <1>4 DEF Codes
    <2>2. CASE v <= x
      <3>1. In(cr', Len(cr'), x) <=> Odd(Len(cr'))
        <4>1. \A m \in 1..Len(cr') : cr'[m] \in Int /\ cr'[m] <= x
          BY <1>11, <2>1, <2>2, <1>4
        <4> QED
          BY <4>1, <1>11, <2>1, AllBelow
      <3>2. In(a, na, x) <=> Odd(na)
        <4>1. \A m \in 1..na : a[m] \in Int /\ a[m] <= x
          BY <1>6, <2>1, <2>2, <1>4
        <4> QED
          BY <4>1, <1>5, <2>1, AllBelow
      <3>3. In(b, nb, x) <=> Odd(nb)
        <4>1. \A m \in 1..nb : b[m] \in Int /\ b[m] <= x
          BY <1>7, <2>1, <2>2, <1>4
        <4>2. nb \in Nat /\ x \in Int
          BY <1>5, <2>1
        <4> HIDE DEF Codes
        <4> QED
          BY ONLY <4>1, <4>2, AllBelow
      <3>4. Holds(op, In(a, na, x), In(b, nb, x)) <=> Holds(op, Odd(na), Odd(nb))
        BY <3>2, <3>3 DEF Holds
      <3> QED
        BY <3>1, <3>4, <1>11
    <2>3. CASE x < v
      <3>1. In(cr', Len(cr'), x) <=> In(cr, Len(cr), x)
        <4>1. CASE cr' = cr
          BY <4>1
        <4>2. CASE Len(cr') = Len(cr) + 1 /\ cr'[Len(cr) + 1] = v
          <5>1. In(cr', Len(cr) + 1, x) <=> In(cr', Len(cr), x)
            <6>1. /\ Len(cr) \in Nat /\ x \in Int
                  /\ cr'[Len(cr) + 1] \in Int /\ x < cr'[Len(cr) + 1]
              BY <4>2, <1>3, <1>4, <2>1, <2>3
            <6> QED
              BY ONLY <6>1, BelowNext
          <5>2. In(cr', Len(cr), x) <=> In(cr, Len(cr), x)
            BY <1>3, <1>11, SameIn
          <5> QED
            BY <5>1, <5>2, <4>2
        <4> QED
          BY <4>1, <4>2, <1>11
      <3>2. In(a, na, x) <=> In(a, a_idx, x)
        <4>1. CASE na = a_idx
          BY <4>1
        <4>2. CASE na = a_idx + 1
          <5>1. a[a_idx + 1] = v
            BY <4>2, <1>5
          <5>2. /\ a_idx \in Nat /\ x \in Int
                /\ a[a_idx + 1] \in Int /\ x < a[a_idx + 1]
            BY <5>1, <1>4, <1>5, <2>1, <2>3
          <5>3. In(a, a_idx + 1, x) <=> In(a, a_idx, x)
            BY ONLY <5>2, BelowNext
          <5> QED
            BY <5>3, <4>2
        <4> QED
          BY <4>1, <4>2
      <3>3. In(b, nb, x) <=> In(b, b_idx, x)
        <4>1. CASE nb = b_idx
          BY <4>1
        <4>2. CASE nb = b_idx + 1
          <5>1. b[b_idx + 1] = v
            BY <4>2, <1>5
          <5>2. /\ b_idx \in Nat /\ x \in Int
                /\ b[b_idx + 1] \in Int /\ x < b[b_idx + 1]
            BY <5>1, <1>4, <1>5, <2>1, <2>3
          <5>3. In(b, b_idx + 1, x) <=> In(b, b_idx, x)
            BY ONLY <5>2, BelowNext
          <5> QED
            BY <5>3, <4>2
        <4> QED
          BY <4>1, <4>2
      <3>4. Holds(op, In(a, na, x), In(b, nb, x)) <=> Holds(op, In(a, a_idx, x), In(b, b_idx, x))
        BY <3>2, <3>3 DEF Holds
      <3>5. In(cr, Len(cr), x) <=> Holds(op, In(a, a_idx, x), In(b, b_idx, x))
        BY DEF Merged
      <3> QED
        BY <3>1, <3>4, <3>5
    <2> QED
      BY <2>1, <2>2, <2>3, <1>4
  <1>13. \A m, n \in 1..Len(cr') : m < n => cr'[m] <= cr'[n]
    <2>1. CASE cr' = cr
      BY <2>1 DEF Merged
    <2>2. CASE Len(cr') = Len(cr) + 1 /\ cr'[Len(cr) + 1] = v
      <3> SUFFICES ASSUME NEW m \in 1..Len(cr'), NEW n \in 1..Len(cr'), m < n
                   PROVE  cr'[m] <= cr'[n]
        OBVIOUS
      <3>1. CASE n = Len(cr) + 1
        BY <3>1, <2>2, <1>11
      <3>2. CASE n # Len(cr) + 1
        <4>1. m \in 1..Len(cr) /\ n \in 1..Len(cr)
          BY <3>2, <2>2, <1>3
        <4> QED
          BY <4>1, <1>11 DEF Merged
      <3> QED
        BY <3>1, <3>2
    <2> QED
      BY <2>1, <2>2, <1>11
  <1>14. /\ na < Len(a) => \A m \in 1..Len(cr') : cr'[m] <= a[na + 1]
         /\ nb < Len(b) => \A m \in 1..Len(cr') : cr'[m] <= b[nb + 1]
    <2>1. \A m \in 1..Len(cr') : cr'[m] \in Nat /\ cr'[m] <= v
      BY <1>11
    <2> QED
      BY <2>1, <1>4, <1>9, <1>10
  <1>15. /\ na < Len(a) => \A m \in 1..nb : b[m] <= a[na + 1]
         /\ nb < Len(b) => \A m \in 1..na : a[m] <= b[nb + 1]
    BY <1>4, <1>6, <1>7, <1>9, <1>10
  <1>16. Odd(Len(cr')) <=> Holds(op, Odd(na), Odd(nb))
    BY <1>11
  <1>17. Merged(cr', na, nb)
    BY <1>12, <1>13, <1>14, <1>15, <1>16 DEF Merged
  <1> QED
    BY <1>11, <1>17

--------------------------------------------------------------------------------
(***************************************************************************)
(* cr_compress.                                                            *)
(***************************************************************************)
LEMMA HalfwayFacts ==
  ASSUME CR_TypeOK, Halfway
  PROVE  /\ cr \in Seq(0..UINT32_MAX) /\ Len(cr) \in Nat /\ Len(cr) % 2 = 0
         /\ Len(merged) = Len(cr)
         /\ i \in Nat /\ j \in Nat /\ k \in Nat
         /\ \A m \in 1..Len(cr) : merged[m] \in Nat /\ cr[m] \in 0..UINT32_MAX
         /\ \A m, n \in 1..Len(cr) : m < n => merged[m] <= merged[n]
         /\ \A x \in Codes : x \in Int
  <1>1. merged \in Ranges /\ cr \in Seq(0..UINT32_MAX) /\ Len(cr) = Len(merged)
    BY DEF CR_TypeOK, Halfway
  <1>2. \A m \in 1..Len(cr) : cr[m] \in 0..UINT32_MAX
    BY <1>1, ElementOfSeq
  <1>3. /\ Len(merged) % 2 = 0
        /\ \A m \in 1..Len(merged) : merged[m] \in 0..UINT32_MAX
        /\ \A m, n \in 1..Len(merged) : m < n => merged[m] <= merged[n]
    BY <1>1, RangeFacts
  <1>4. Len(cr) \in Nat /\ UINT32_MAX \in Nat
    BY <1>1, CodePointsAssumption
  <1> QED
    BY <1>1, <1>2, <1>3, <1>4 DEF CR_TypeOK, Codes

LEMMA SkipEmptyStep ==
  ASSUME CR_TypeOK, Halfway, SkipEmpty
  PROVE  Halfway'
  <1>1. /\ i + 1 < Len(cr) /\ cr[i + 1] = cr[i + 2]
        /\ i' = i + 2 /\ cr' = cr /\ k' = k /\ merged' = merged
        /\ op' = op /\ a' = a /\ b' = b
    BY DEF SkipEmpty, Compressing
  <1>2. /\ i % 2 = 0 /\ k % 2 = 0 /\ k <= i /\ i <= Len(cr)
        /\ \A m \in 1..Len(cr) : i < m => cr[m] = merged[m]
        /\ 0 < k /\ i < Len(cr) => cr[k] < merged[i + 1]
    BY DEF Halfway
  <1>3. /\ Len(cr) \in Nat /\ Len(cr) % 2 = 0 /\ i \in Nat /\ k \in Nat
        /\ \A m \in 1..Len(cr) : merged[m] \in Nat
        /\ \A m, n \in 1..Len(cr) : m < n => merged[m] <= merged[n]
        /\ \A x \in Codes : x \in Int
    BY HalfwayFacts
  <1>4. i + 1 \in 1..Len(cr) /\ i + 2 \in 1..Len(cr)
    BY <1>1, <1>3
  <1>5. merged[i + 1] = merged[i + 2] /\ merged[i + 1] \in Int
    BY <1>1, <1>2, <1>3, <1>4
  <1>6. \A x \in Codes : In(merged, i + 2, x) <=> In(merged, i, x)
    <2> TAKE x \in Codes
    <2>1. In(merged, i + 2, x) <=> In(merged, i, x) \/ (merged[i + 1] <= x /\ x < merged[i + 2])
      BY <1>2, <1>3, <1>5, InPair
    <2> QED
      BY <2>1, <1>3, <1>5
  <1>7. ASSUME 0 < k, i + 2 < Len(cr) PROVE cr[k] < merged[(i + 2) + 1]
    <2>1. cr[k] < merged[i + 1] /\ k \in 1..Len(cr)
      <3>1. i < Len(cr) /\ k \in 1..Len(cr)
        <4>1. i \in Nat /\ k \in Nat /\ Len(cr) \in Nat /\ k <= i /\ i + 1 < Len(cr)
          BY <1>1, <1>2, <1>3
        <4> QED
          BY ONLY <4>1, <1>7
      <3> QED
        BY <3>1, <1>2, <1>7
    <2>2. i + 3 \in 1..Len(cr) /\ (i + 2) + 1 = i + 3
      BY <1>7, <1>3
    <2>3. merged[i + 1] <= merged[i + 3]
      BY <2>2, <1>3, <1>4
    <2>4. cr[k] \in Int
      BY <2>1, HalfwayFacts
    <2> QED
      BY <2>1, <2>2, <2>3, <2>4, <1>3, <1>4
  <1>8. \A x \in Codes : Contains(merged, x)' <=> Denotes(x)'
    BY <1>1 DEF Halfway, Contains, Denotes
  <1> QED
    BY <1>1, <1>2, <1>3, <1>4, <1>6, <1>7, <1>8 DEF Halfway

LEMMA StartIntervalStep ==
  ASSUME CR_TypeOK, Halfway, StartInterval
  PROVE  Halfway' /\ Joined'
  <1>1. /\ i + 1 < Len(cr) /\ cr[i + 1] # cr[i + 2]
        /\ i' = i /\ j' = i /\ cr' = cr /\ k' = k /\ merged' = merged
        /\ op' = op /\ a' = a /\ b' = b
    BY DEF StartInterval, Compressing
  <1>2. Halfway'
    BY <1>1 DEF Halfway, Contains, Denotes
  <1>3. /\ Len(cr) \in Nat /\ Len(cr) % 2 = 0 /\ i \in Nat
        /\ \A m \in 1..Len(cr) : merged[m] \in Nat
        /\ \A m, n \in 1..Len(cr) : m < n => merged[m] <= merged[n]
        /\ \A x \in Codes : x \in Int
    BY HalfwayFacts
  <1>4. i % 2 = 0 /\ \A m \in 1..Len(cr) : i < m => cr[m] = merged[m]
    BY DEF Halfway
  <1>5. i + 1 \in 1..Len(cr) /\ i + 2 \in 1..Len(cr)
    BY <1>1, <1>3
  <1>6. merged[i + 1] < merged[i + 2] /\ merged[i + 1] \in Int /\ merged[i + 2] \in Int
    BY <1>1, <1>3, <1>4, <1>5
  <1>7. \A x \in Codes :
          In(merged, i + 2, x) <=> \/ In(merged, i, x)
                                   \/ merged[i + 1] <= x /\ x < merged[i + 2]
    BY <1>3, <1>4, <1>6, InPair
  <1> QED
    BY <1>1, <1>2, <1>3, <1>4, <1>6, <1>7 DEF Joined

LEMMA JoinNextStep ==
  ASSUME CR_TypeOK, Halfway, Joined, JoinNext
  PROVE  Halfway' /\ Joined'
  <1>1. /\ j + 3 < Len(cr) /\ cr[j + 2] = cr[j + 3]
        /\ i' = i /\ j' = j + 2 /\ cr' = cr /\ k' = k /\ merged' = merged
        /\ op' = op /\ a' = a /\ b' = b
    BY DEF JoinNext, Touches, Compressing
  <1>2. Halfway'
    BY <1>1 DEF Halfway, Contains, Denotes
  <1>3. /\ Len(cr) \in Nat /\ Len(cr) % 2 = 0 /\ i \in Nat /\ j \in Nat
        /\ \A m \in 1..Len(cr) : merged[m] \in Nat
        /\ \A m, n \in 1..Len(cr) : m < n => merged[m] <= merged[n]
        /\ \A x \in Codes : x \in Int
    BY HalfwayFacts
  <1>4. \A m \in 1..Len(cr) : i < m => cr[m] = merged[m]
    BY DEF Halfway
  <1>5. /\ j % 2 = 0 /\ i <= j
        /\ merged[i + 1] < merged[j + 2]
    BY DEF Joined
  <1>6. /\ i + 1 \in 1..Len(cr) /\ j + 2 \in 1..Len(cr)
        /\ j + 3 \in 1..Len(cr) /\ j + 4 \in 1..Len(cr)
    BY <1>1, <1>3, <1>5
  <1>7. merged[j + 2] = merged[j + 3] /\ merged[j + 3] <= merged[j + 4]
    BY <1>1, <1>3, <1>4, <1>5, <1>6
  <1>8. ASSUME NEW x \in Codes
        PROVE  In(merged, j + 4, x) <=> \/ In(merged, i, x)
                                        \/ merged[i + 1] <= x /\ x < merged[j + 4]
    <2>1. In(merged, j + 2, x) <=> \/ In(merged, i, x)
                                   \/ merged[i + 1] <= x /\ x < merged[j + 2]
      BY DEF Joined
    <2>2. /\ j + 2 \in Nat /\ (j + 2) % 2 = 0 /\ x \in Int
          /\ merged[(j + 2) + 1] = merged[j + 3] /\ merged[(j + 2) + 2] = merged[j + 4]
          /\ merged[j + 3] \in Int /\ merged[j + 4] \in Int
          /\ (j + 2) + 2 = j + 4
      BY <1>3, <1>5, <1>6
    <2>3. In(merged, (j + 2) + 2, x) <=> \/ In(merged, j + 2, x)
                                         \/ /\ merged[(j + 2) + 1] <= x
                                            /\ x < merged[(j + 2) + 2]
      BY <2>2, InPair
    <2>4. In(merged, j + 4, x) <=> \/ In(merged, j + 2, x)
                                   \/ merged[j + 3] <= x /\ x < merged[j + 4]
      BY <2>2, <2>3
    <2>5. merged[i + 1] \in Int /\ merged[j + 2] \in Int
      BY <1>3, <1>6
    <2> QED
      BY <2>1, <2>2, <2>4, <2>5, <1>5, <1>7
  <1>9. merged[i + 1] < merged[j + 4]
    BY <1>3, <1>5, <1>6, <1>7
  <1>10. (j + 2) % 2 = 0 /\ i <= j + 2 /\ (j + 2) + 2 <= Len(cr) /\ (j + 2) + 2 = j + 4
    BY <1>1, <1>3, <1>5
  <1> QED
    BY <1>1, <1>2, <1>8, <1>9, <1>10 DEF Joined

LEMMA CopyIntervalStep ==
  ASSUME CR_TypeOK, Halfway, Joined, CopyInterval
  PROVE  Halfway' /\ cr' \in Seq(0..UINT32_MAX) /\ Len(cr') = Len(cr)
  <1>1. /\ ~Touches
        /\ cr' = [cr EXCEPT ![k + 1] = cr[i + 1], ![k + 2] = cr[j + 2]]
        /\ k' = k + 2 /\ i' = j + 2 /\ merged' = merged
        /\ op' = op /\ a' = a /\ b' = b
    BY DEF CopyInterval, Compressing
  <1>2. /\ cr \in Seq(0..UINT32_MAX)
        /\ Len(cr) \in Nat /\ Len(cr) % 2 = 0 /\ i \in Nat /\ j \in Nat /\ k \in Nat
        /\ Len(merged) = Len(cr)
        /\ \A m \in 1..Len(cr) : merged[m] \in Nat /\ cr[m] \in 0..UINT32_MAX
        /\ \A m, n \in 1..Len(cr) : m < n => merged[m] <= merged[n]
        /\ \A x \in Codes : x \in Int
    BY HalfwayFacts
  <1>3. /\ i % 2 = 0 /\ k % 2 = 0 /\ k <= i
        /\ \A m \in 1..Len(cr) : i < m => cr[m] = merged[m]
        /\ \A x \in Codes : In(cr, k, x) <=> In(merged, i, x)
        /\ \A m, n \in 1..k : m < n => cr[m] < cr[n]
        /\ 0 < k /\ i < Len(cr) => cr[k] < merged[i + 1]
    BY DEF Halfway
  <1>4. /\ j % 2 = 0 /\ i <= j /\ j + 2 <= Len(cr)
        /\ merged[i + 1] < merged[j + 2]
    BY DEF Joined
  <1>5. /\ i + 1 \in 1..Len(cr) /\ j + 2 \in 1..Len(cr)
        /\ k + 1 \in 1..Len(cr) /\ k + 2 \in 1..Len(cr)
    BY <1>2, <1>3, <1>4
  <1>6. cr[i + 1] = merged[i + 1] /\ cr[j + 2] = merged[j + 2]
    BY <1>2, <1>3, <1>4, <1>5
  <1>7. /\ cr' \in Seq(0..UINT32_MAX) /\ Len(cr') = Len(cr)
        /\ cr'[k + 1] = merged[i + 1] /\ cr'[k + 2] = merged[j + 2]
        /\ \A m \in 1..Len(cr) : m # k + 1 /\ m # k + 2 => cr'[m] = cr[m]
    <2>1. cr \in [1..Len(cr) -> 0..UINT32_MAX]
      BY <1>2
    <2>2. cr[i + 1] \in 0..UINT32_MAX /\ cr[j + 2] \in 0..UINT32_MAX
      BY <1>2, <1>5
    <2>3. /\ cr' \in [1..Len(cr) -> 0..UINT32_MAX]
          /\ cr'[k + 1] = cr[i + 1] /\ cr'[k + 2] = cr[j + 2]
          /\ \A m \in 1..Len(cr) : m # k + 1 /\ m # k + 2 => cr'[m] = cr[m]
      <3>1. k + 1 # k + 2
        BY <1>2
      <3> QED
        BY <3>1, <2>1, <2>2, <1>1, <1>5
    <2>4. cr' \in Seq(0..UINT32_MAX) /\ Len(cr') = Len(cr)
      <3>1. Len(cr) \in Nat
        BY <1>2
      <3>2. cr' \in Seq(0..UINT32_MAX)
        <4>1. [1..Len(cr) -> 0..UINT32_MAX] \subseteq Seq(0..UINT32_MAX)
          BY ONLY <3>1, SeqDef, Zenon
        <4> QED
          BY ONLY <4>1, <2>3
      <3>3. Len(cr') = Len(cr)
        BY ONLY <3>1, <2>3
      <3> QED
        BY <3>2, <3>3
    <2> QED
      BY <2>3, <2>4, <1>6
  <1>8. \A m \in 1..k : cr'[m] = cr[m] /\ m \in 1..Len(cr)
    <2> TAKE m \in 1..k
    <2>1. m \in 1..Len(cr) /\ m # k + 1 /\ m # k + 2
      BY <1>2, <1>5
    <2> QED
      BY <2>1, <1>7
  <1>9. \A m \in 1..Len(cr) : j + 2 < m => cr'[m] = merged[m]
    BY <1>2, <1>3, <1>4, <1>7
  <1>10. \A x \in Codes : In(cr', k + 2, x) <=> In(merged, j + 2, x)
    <2> TAKE x \in Codes
    <2>1. In(cr', k, x) <=> In(cr, k, x)
      <3>1. k \in Nat /\ \A m \in 1..k : cr'[m] = cr[m]
        BY <1>2, <1>8
      <3> QED
        BY ONLY <3>1, SameIn
    <2>2. k \in Nat /\ k % 2 = 0 /\ x \in Int /\ cr'[k + 1] \in Int /\ cr'[k + 2] \in Int
      <3>1. merged[i + 1] \in Int /\ merged[j + 2] \in Int
        BY <1>2, <1>5
      <3> QED
        BY <3>1, <1>2, <1>3, <1>7
    <2>3. In(cr', k + 2, x) <=> In(cr', k, x) \/ (cr'[k + 1] <= x /\ x < cr'[k + 2])
      BY ONLY <2>2, InPair
    <2>4. In(merged, j + 2, x) <=> \/ In(merged, i, x)
                                   \/ merged[i + 1] <= x /\ x < merged[j + 2]
      BY DEF Joined
    <2> QED
      BY <2>1, <2>3, <2>4, <1>3, <1>7
  <1>11. \A m, n \in 1..(k + 2) : m < n => cr'[m] < cr'[n]
    <2> SUFFICES ASSUME NEW m \in 1..(k + 2), NEW n \in 1..(k + 2), m < n
                 PROVE  cr'[m] < cr'[n]
      OBVIOUS
    <2>1. \A l \in 1..k : cr'[l] < merged[i + 1]
      <3> TAKE l \in 1..k
      <3>1. 0 < k /\ i < Len(cr) /\ k \in 1..Len(cr) /\ l \in 1..Len(cr)
        <4>1. /\ k \in Nat /\ i \in Nat /\ j \in Nat /\ Len(cr) \in Nat
              /\ k <= i /\ i <= j /\ j + 2 <= Len(cr)
          BY <1>2, <1>3, <1>4
        <4> QED
          BY ONLY <4>1, l \in 1..k
      <3>2. cr[k] < merged[i + 1] /\ cr[k] \in Int /\ cr[l] \in Int
        BY <3>1, <1>3, <1>2
      <3>3. cr[l] <= cr[k]
        <4>1. CASE l = k
          BY <4>1, <3>2
        <4>2. CASE l < k
          <5>1. k \in 1..k
            BY <3>1, <1>2
          <5> QED
            BY <5>1, <4>2, <1>3, <3>2
        <4> QED
          BY <4>1, <4>2, <1>2
      <3>4. cr'[l] = cr[l] /\ merged[i + 1] \in Int
        BY <1>8, <1>2, <1>5
      <3> QED
        BY ONLY <3>2, <3>3, <3>4
    <2>2. CASE n \in 1..k
      <3>1. m \in 1..k
        BY <2>2, <1>2
      <3> QED
        BY <3>1, <2>2, <1>3, <1>8
    <2>3. CASE n = k + 1
      <3>1. m \in 1..k
        BY <2>3, <1>2
      <3> QED
        BY <3>1, <2>1, <2>3, <1>7
    <2>4. CASE n = k + 2
      <3>1. CASE m = k + 1
        BY <3>1, <2>4, <1>4, <1>7
      <3>2. CASE m \in 1..k
        <4>1. cr'[m] < merged[i + 1] /\ cr'[m] \in Int
          BY <3>2, <2>1, <1>8, <1>2
        <4>2. merged[i + 1] \in Int /\ merged[j + 2] \in Int
          BY <1>2, <1>5
        <4>3. merged[i + 1] < merged[j + 2] /\ cr'[n] = merged[j + 2]
          BY <2>4, <1>4, <1>7
        <4> QED
          BY ONLY <4>1, <4>2, <4>3
      <3> QED
        BY <3>1, <3>2, <2>4, <1>2
    <2> QED
      BY <2>2, <2>3, <2>4, <1>2
  <1>12. ASSUME j + 2 < Len(cr) PROVE cr'[k + 2] < merged[(j + 2) + 1]
    <2>1. j + 3 < Len(cr) /\ j + 3 \in 1..Len(cr) /\ (j + 2) + 1 = j + 3
      BY <1>12, <1>2, <1>4
    <2>2. cr[j + 2] # cr[j + 3] /\ cr[j + 3] = merged[j + 3]
      <3>1. cr[j + 2] # cr[j + 3]
        BY <2>1, <1>1 DEF Touches
      <3>2. i < j + 3
        BY <1>2, <1>4
      <3> QED
        BY <3>1, <3>2, <2>1, <1>3
    <2>3. merged[j + 2] <= merged[j + 3]
      BY <2>1, <1>2, <1>5
    <2> QED
      BY <2>1, <2>2, <2>3, <1>2, <1>5, <1>6, <1>7
  <1>13. (k + 2) % 2 = 0 /\ k + 2 <= j + 2 /\ (j + 2) % 2 = 0
    BY <1>2, <1>3, <1>4
  <1>14. \A x \in Codes : Contains(merged, x)' <=> Denotes(x)'
    BY <1>1 DEF Halfway, Contains, Denotes
  <1>15. merged' \in Ranges /\ Len(cr') = Len(merged') /\ op' \in SetOps \cup {"invert"}
    BY <1>1, <1>2, <1>7 DEF Halfway
  <1>16. Halfway'
    BY <1>1, <1>4, <1>7, <1>9, <1>10, <1>11, <1>12, <1>13, <1>14, <1>15 DEF Halfway
  <1> QED
    BY <1>7, <1>16

LEMMA CompressEndsStep ==
  ASSUME CR_TypeOK, Halfway, CompressEnds
  PROVE  /\ cr' \in Ranges /\ Len(cr') <= Len(cr) /\ Increasing(cr')
         /\ Exact'
  <1>1. /\ i + 1 >= Len(cr) /\ cr' = SubSeq(cr, 1, k)
        /\ op' = op /\ a' = a /\ b' = b
    BY DEF CompressEnds, Compressing
  <1>2. /\ cr \in Seq(0..UINT32_MAX)
        /\ Len(cr) \in Nat /\ Len(cr) % 2 = 0 /\ i \in Nat /\ k \in Nat
        /\ Len(merged) = Len(cr)
        /\ \A m \in 1..Len(cr) : cr[m] \in 0..UINT32_MAX
    BY HalfwayFacts
  <1>3. /\ i % 2 = 0 /\ i <= Len(cr) /\ k % 2 = 0 /\ k <= i
        /\ \A x \in Codes : Contains(merged, x) <=> Denotes(x)
        /\ \A x \in Codes : In(cr, k, x) <=> In(merged, i, x)
        /\ \A m, n \in 1..k : m < n => cr[m] < cr[n]
    BY DEF Halfway
  <1>4. i = Len(cr)
    <2>1. /\ i \in Nat /\ Len(cr) \in Nat /\ i <= Len(cr) /\ Len(cr) <= i + 1
          /\ i % 2 = 0 /\ Len(cr) % 2 = 0
      BY <1>1, <1>2, <1>3
    <2>2. Len(cr) # i + 1
      BY ONLY <2>1
    <2> QED
      BY ONLY <2>1, <2>2
  <1>5. /\ cr' \in Seq(0..UINT32_MAX) /\ Len(cr') = k
        /\ \A m \in 1..k : cr'[m] = cr[m] /\ cr[m] \in Int
        /\ DOMAIN cr' = 1..k
    <2>1. k <= Len(cr)
      BY <1>2, <1>3
    <2> QED
      BY <2>1, <1>1, <1>2
  <1>6. Increasing(cr')
    BY <1>3, <1>5 DEF Increasing
  <1>7. cr' \in Ranges
    <2>1. \A m, n \in 1..Len(cr') : m < n => cr'[m] <= cr'[n]
      BY <1>3, <1>5
    <2> QED
      BY <2>1, <1>3, <1>5, IsRange
  <1>8. ASSUME NEW x \in Codes PROVE Contains(cr', x) <=> Denotes(x)
    <2>1. In(cr', k, x) <=> In(cr, k, x)
      BY <1>2, <1>5, SameIn
    <2>2. In(cr, k, x) <=> Contains(merged, x)
      BY <1>2, <1>3, <1>4 DEF Contains
    <2> QED
      BY <2>1, <2>2, <1>3, <1>5 DEF Contains
  <1>9. Exact'
    BY <1>1, <1>8 DEF Exact, Contains, Denotes
  <1>10. Len(cr') <= Len(cr)
    BY <1>2, <1>3, <1>5
  <1> QED
    BY <1>6, <1>7, <1>9, <1>10

--------------------------------------------------------------------------------
(***************************************************************************)
(* The invariant.                                                          *)
(***************************************************************************)
LEMMA EmptyRange == <<>> \in Ranges
  <1> DEFINE e == <<>>
  <1>1. e \in Seq(0..UINT32_MAX) /\ Len(e) = 0 /\ DOMAIN e = {}
    OBVIOUS
  <1>2. ~Odd(0)
    BY DEF Odd
  <1> HIDE DEF e
  <1>3. e \in Ranges
    BY <1>1, <1>2 DEF Ranges, Nondecreasing
  <1> QED
    BY <1>3 DEF e

LEMMA InitIInv == CR_Init => IInv
  <1> SUFFICES ASSUME CR_Init PROVE IInv
    OBVIOUS
  <1>1. /\ cr = <<>> /\ size = 0 /\ a = <<>> /\ b = <<>>
        /\ a_idx = 0 /\ b_idx = 0 /\ i = 0 /\ j = 0 /\ k = 0
        /\ merged = <<>> /\ op = "none" /\ pc = "idle"
    BY DEF CR_Init
  <1>2. CR_TypeOK
    BY <1>1, EmptyRange DEF CR_TypeOK
  <1>3. ReadyForLookup
    BY <1>1, EmptyRange DEF ReadyForLookup
  <1> QED
    BY <1>1, <1>2, <1>3 DEF IInv

\* Room gives as many points as were asked for.
LEMMA RoomFacts ==
  ASSUME NEW n \in Nat, size \in Nat
  PROVE  Room(n) \in Nat /\ n <= Room(n)
  <1>1. (size * 3) \div 2 \in Nat
    OBVIOUS
  <1> QED
    BY <1>1 DEF Room, Larger

LEMMA CallOpStep == ASSUME IInv, CallOp PROVE IInv'
  <1>1. PICK o \in SetOps, s \in Operands : Call(o, s)
    BY DEF CallOp
  <1>2. /\ pc = "idle" /\ pc' = "merge"
        /\ op' = o /\ a' = cr /\ b' = s
        /\ cr' = <<>> /\ size' = 0 /\ a_idx' = 0 /\ b_idx' = 0
        /\ i' = i /\ j' = j /\ k' = k /\ merged' = merged
    BY <1>1 DEF CallOp, Call
  <1>3. cr \in Ranges /\ s \in Ranges
    BY <1>2, OperandsAssumption DEF IInv, ReadyForLookup
  <1>4. CR_TypeOK'
    <2>1. Len(cr) \in Nat /\ Len(s) \in Nat
      BY <1>3, RangeFacts
    <2>2. i \in Nat /\ j \in Nat /\ k \in Nat /\ merged \in Seq(0..UINT32_MAX)
      BY DEF IInv, CR_TypeOK
    <2>3. cr' \in Seq(0..UINT32_MAX)
      BY <1>2
    <2> QED
      BY <1>2, <1>3, <2>1, <2>2, <2>3 DEF CR_TypeOK
  <1>5. ReadyForLookup'
    BY <1>2 DEF ReadyForLookup
  <1>6. Merged(cr, a_idx, b_idx)'
    <2>1. ~Odd(0)
      BY DEF Odd
    <2>2. \A t, x : ~In(t, 0, x)
      BY DEF In
    <2>3. /\ Odd(Len(cr')) <=> Holds(op', Odd(a_idx'), Odd(b_idx'))
          /\ \A x \in Codes :
               In(cr', Len(cr'), x) <=> Holds(op', In(a', a_idx', x), In(b', b_idx', x))
      BY <1>2, <2>1, <2>2 DEF Holds
    <2>4. /\ 1..Len(cr') = {} /\ 1..a_idx' = {} /\ 1..b_idx' = {}
      BY <1>2
    <2> QED
      BY <2>3, <2>4 DEF Merged
  <1> QED
    BY <1>2, <1>4, <1>5, <1>6 DEF IInv

LEMMA AddIntervalStep == ASSUME IInv, AddInterval PROVE IInv'
  <1>1. PICK s \in Operands : /\ Len(s) = 2
                              /\ cr # <<>> => cr[Len(cr)] <= s[1]
                              /\ Call("add", s)
                              /\ cr' = cr \o s
    BY DEF AddInterval
  <1>2. /\ pc = "idle" /\ pc' = "done"
        /\ op' = "add" /\ a' = cr /\ b' = s /\ size' = Room(Len(cr) + 2)
        /\ a_idx' = a_idx /\ b_idx' = b_idx
        /\ i' = i /\ j' = j /\ k' = k /\ merged' = merged
    BY <1>1 DEF AddInterval, Call
  <1>3. cr \in Ranges /\ s \in Ranges
    BY <1>2, OperandsAssumption DEF IInv, ReadyForLookup
  <1>4. /\ cr \in Seq(0..UINT32_MAX) /\ Len(cr) \in Nat /\ Len(cr) % 2 = 0
        /\ \A m \in 1..Len(cr) : cr[m] \in 0..UINT32_MAX
        /\ \A m, n \in 1..Len(cr) : m < n => cr[m] <= cr[n]
    BY <1>3, RangeFacts
  <1>5. /\ s \in Seq(0..UINT32_MAX)
        /\ s[1] \in 0..UINT32_MAX /\ s[2] \in 0..UINT32_MAX /\ s[1] <= s[2]
    <2>1. /\ s \in Seq(0..UINT32_MAX)
          /\ \A m \in 1..Len(s) : s[m] \in 0..UINT32_MAX
          /\ \A m, n \in 1..Len(s) : m < n => s[m] <= s[n]
      BY <1>3, RangeFacts
    <2>2. Len(s) = 2
      BY <1>1
    <2>3. 1 \in 1..Len(s) /\ 2 \in 1..Len(s) /\ 1 < 2
      BY ONLY <2>2
    <2>4. s[1] \in 0..UINT32_MAX /\ s[2] \in 0..UINT32_MAX
      BY ONLY <2>1, <2>3
    <2>5. s[1] <= s[2]
      BY ONLY <2>1, <2>3
    <2> QED
      BY ONLY <2>1, <2>4, <2>5
  <1>6. /\ cr' \in Seq(0..UINT32_MAX) /\ Len(cr') = Len(cr) + 2
        /\ \A m \in 1..Len(cr) : cr'[m] = cr[m]
        /\ cr'[Len(cr) + 1] = s[1] /\ cr'[Len(cr) + 2] = s[2]
    <2>1. Len(s) = 2 /\ cr' = cr \o s
      BY <1>1
    <2> DEFINE S == 0..UINT32_MAX
    <2>2. cr \in Seq(S) /\ s \in Seq(S)
      BY <1>4, <1>5
    <2> HIDE DEF S
    <2>3. /\ cr \o s \in Seq(S)
          /\ Len(cr \o s) = Len(cr) + Len(s)
          /\ \A m \in 1..(Len(cr) + Len(s)) :
               (cr \o s)[m] = IF m <= Len(cr) THEN cr[m] ELSE s[m - Len(cr)]
      BY ONLY <2>2, ConcatProperties
    <2>4. Len(cr) \in Nat
      BY <1>4
    <2>5. \A m \in 1..Len(cr) : cr'[m] = cr[m]
      BY ONLY <2>1, <2>3, <2>4
    <2>6. cr'[Len(cr) + 1] = s[1] /\ cr'[Len(cr) + 2] = s[2]
      <3>1. /\ Len(cr) + 1 \in 1..(Len(cr) + Len(s)) /\ ~(Len(cr) + 1 <= Len(cr))
            /\ Len(cr) + 2 \in 1..(Len(cr) + Len(s)) /\ ~(Len(cr) + 2 <= Len(cr))
            /\ (Len(cr) + 1) - Len(cr) = 1 /\ (Len(cr) + 2) - Len(cr) = 2
        BY ONLY <2>1, <2>4
      <3> QED
        BY ONLY <2>1, <2>3, <3>1
    <2> QED
      BY <2>1, <2>3, <2>5, <2>6 DEF S
  <1>7. \A m \in 1..Len(cr) : cr[m] <= s[1]
    <2> TAKE m \in 1..Len(cr)
    <2>1. cr # <<>> /\ Len(cr) \in 1..Len(cr)
      BY <1>4
    <2>2. cr[m] <= cr[Len(cr)]
      BY <2>1, <1>4
    <2> QED
      BY <2>1, <2>2, <1>1, <1>4, <1>5
  <1>8. cr' \in Ranges
    <2>1. \A m, n \in 1..Len(cr') : m < n => cr'[m] <= cr'[n]
      <3> SUFFICES ASSUME NEW m \in 1..Len(cr'), NEW n \in 1..Len(cr'), m < n
                   PROVE  cr'[m] <= cr'[n]
        OBVIOUS
      <3>1. CASE n \in 1..Len(cr)
        <4>1. m \in 1..Len(cr)
          BY <3>1, <1>4
        <4> QED
          BY <4>1, <3>1, <1>4, <1>6
      <3>2. CASE n = Len(cr) + 1
        <4>1. m \in 1..Len(cr)
          BY <3>2, <1>4
        <4> QED
          BY <4>1, <3>2, <1>6, <1>7
      <3>3. CASE n = Len(cr) + 2
        <4>1. CASE m = Len(cr) + 1
          BY <4>1, <3>3, <1>5, <1>6
        <4>2. CASE m \in 1..Len(cr)
          <5>1. cr'[m] = cr[m] /\ cr[m] \in Int /\ cr[m] <= s[1]
            BY <4>2, <1>4, <1>6, <1>7
          <5>2. cr'[n] = s[2] /\ s[1] \in Int /\ s[2] \in Int /\ s[1] <= s[2]
            BY <3>3, <1>5, <1>6
          <5> QED
            BY ONLY <5>1, <5>2
        <4> QED
          BY <4>1, <4>2, <3>3, <1>4
      <3> QED
        BY <3>1, <3>2, <3>3, <1>4, <1>6
    <2>2. Len(cr') % 2 = 0
      BY <1>4, <1>6
    <2> QED
      BY <2>1, <2>2, <1>6, IsRange
  <1>9. ASSUME NEW x \in Codes
        PROVE  Contains(cr', x) <=> Contains(cr, x) \/ Contains(s, x)
    <2>1. x \in Int
      BY CodePointsAssumption DEF Codes
    <2>2. In(cr', Len(cr) + 2, x) <=> \/ In(cr', Len(cr), x)
                                      \/ cr'[Len(cr) + 1] <= x /\ x < cr'[Len(cr) + 2]
      <3>1. cr'[Len(cr) + 1] \in Int /\ cr'[Len(cr) + 2] \in Int
        BY <1>5, <1>6
      <3> QED
        BY <3>1, <1>4, <2>1, InPair
    <2>3. In(cr', Len(cr), x) <=> In(cr, Len(cr), x)
      <3>1. Len(cr) \in Nat /\ \A m \in 1..Len(cr) : cr'[m] = cr[m]
        BY <1>4, <1>6
      <3> QED
        BY ONLY <3>1, SameIn
    <2>4. In(s, 2, x) <=> s[1] <= x /\ x < s[2]
      <3>1. ~In(s, 0, x)
        BY DEF In
      <3>2. In(s, 0 + 2, x) <=> In(s, 0, x) \/ (s[0 + 1] <= x /\ x < s[0 + 2])
        <4>1. s[0 + 1] \in Int /\ s[0 + 2] \in Int /\ 0 % 2 = 0
          BY <1>5
        <4> QED
          BY ONLY <4>1, <2>1, InPair
      <3> QED
        BY <3>1, <3>2
    <2> QED
      BY <2>2, <2>3, <2>4, <1>1, <1>6 DEF Contains
  <1>10. Exact'
    <2>1. \A x \in Codes : Denotes(x)' <=> Contains(cr, x) \/ Contains(s, x)
      BY <1>2 DEF Denotes, SetOps
    <2> QED
      BY <2>1, <1>9 DEF Exact, Contains
  <1>11. size' \in Nat /\ Len(cr') <= size'
    <2>1. size \in Nat
      BY DEF IInv, CR_TypeOK
    <2> QED
      BY <2>1, <1>2, <1>4, <1>6, RoomFacts
  <1>12. CR_TypeOK'
    <2>1. i \in Nat /\ j \in Nat /\ k \in Nat /\ merged \in Seq(0..UINT32_MAX)
      BY DEF IInv, CR_TypeOK
    <2>2. a_idx' \in 0..Len(a') /\ b_idx' \in 0..Len(b')
      <3>1. a_idx = 0 /\ b_idx = 0
        BY <1>2 DEF IInv
      <3> QED
        BY <3>1, <1>1, <1>2, <1>4
    <2> QED
      BY <1>2, <1>3, <1>6, <1>11, <2>1, <2>2 DEF CR_TypeOK
  <1>13. ReadyForLookup'
    BY <1>2, <1>8, <1>11 DEF ReadyForLookup, SetOps
  <1> QED
    BY <1>2, <1>10, <1>12, <1>13 DEF IInv

LEMMA CopyStep == ASSUME IInv, Copy PROVE IInv'
  <1>1. PICK s \in Operands : Call("copy", s) /\ cr' = s /\ size' = Room(Len(s))
    BY DEF Copy
  <1>2. /\ pc = "idle" /\ pc' = "done"
        /\ op' = "copy" /\ a' = cr /\ b' = s
        /\ a_idx' = a_idx /\ b_idx' = b_idx
        /\ i' = i /\ j' = j /\ k' = k /\ merged' = merged
    BY <1>1 DEF Copy, Call
  <1>3. cr \in Ranges /\ s \in Ranges
    BY <1>2, OperandsAssumption DEF IInv, ReadyForLookup
  <1>4. /\ s \in Seq(0..UINT32_MAX) /\ Len(s) \in Nat /\ Len(cr) \in Nat
    BY <1>3, RangeFacts
  <1>5. size' \in Nat /\ Len(cr') <= size'
    <2>1. size \in Nat
      BY DEF IInv, CR_TypeOK
    <2> QED
      BY <2>1, <1>1, <1>4, RoomFacts
  <1>6. CR_TypeOK'
    <2>1. i \in Nat /\ j \in Nat /\ k \in Nat /\ merged \in Seq(0..UINT32_MAX)
      BY DEF IInv, CR_TypeOK
    <2>2. a_idx = 0 /\ b_idx = 0
      BY <1>2 DEF IInv
    <2> QED
      BY <1>1, <1>2, <1>3, <1>4, <1>5, <2>1, <2>2 DEF CR_TypeOK
  <1>7. Exact'
    <2>1. \A x \in Codes : Denotes(x)' <=> Contains(s, x)
      BY <1>2 DEF Denotes, SetOps
    <2> QED
      BY <2>1, <1>1 DEF Exact, Contains
  <1>8. ReadyForLookup'
    BY <1>1, <1>2, <1>3, <1>5 DEF ReadyForLookup, SetOps
  <1> QED
    BY <1>2, <1>6, <1>7, <1>8 DEF IInv

LEMMA InvertStep == ASSUME IInv, Invert PROVE IInv'
  <1>1. /\ pc = "idle" /\ pc' = "compress"
        /\ op' = "invert" /\ a' = cr /\ b' = <<>>
        /\ cr' = Inverted(cr) /\ merged' = Inverted(cr)
        /\ size' = Room(Len(cr) + 2)
        /\ a_idx' = a_idx /\ b_idx' = b_idx
        /\ i' = 0 /\ j' = 0 /\ k' = 0
    BY DEF Invert, Call, Compress
  <1>2. cr \in Ranges
    BY <1>1 DEF IInv, ReadyForLookup
  <1>3. /\ Inverted(cr) \in Ranges
        /\ Len(Inverted(cr)) = Len(cr) + 2
        /\ \A x \in Codes : Contains(Inverted(cr), x) <=> ~Contains(cr, x)
    BY <1>2, InvertedFacts
  <1>4. Len(cr) \in Nat /\ Inverted(cr) \in Seq(0..UINT32_MAX)
    BY <1>2, <1>3, RangeFacts
  <1>5. size' \in Nat /\ Len(cr') <= size'
    <2>1. size \in Nat
      BY DEF IInv, CR_TypeOK
    <2> QED
      BY <2>1, <1>1, <1>3, <1>4, RoomFacts
  <1>6. CR_TypeOK'
    <2>1. a_idx = 0 /\ b_idx = 0
      BY <1>1 DEF IInv
    <2> QED
      BY <1>1, <1>2, <1>4, <1>5, <2>1, EmptyRange DEF CR_TypeOK
  <1>7. ReadyForLookup'
    BY <1>1, <1>5 DEF ReadyForLookup
  <1>8. Halfway'
    <2>1. \A x \in Codes : Contains(merged, x)' <=> Denotes(x)'
      BY <1>1, <1>3 DEF Denotes, Contains, SetOps
    <2>2. \A x \in Codes : In(cr', k', x) <=> In(merged', i', x)
      BY <1>1 DEF In
    <2>3. /\ i' % 2 = 0 /\ i' <= Len(cr') /\ k' % 2 = 0 /\ k' <= i' /\ 1..k' = {} /\ ~(0 < k')
      BY <1>1, <1>3, <1>4
    <2> QED
      BY <1>1, <1>3, <2>1, <2>2, <2>3 DEF Halfway
  <1> QED
    BY <1>1, <1>6, <1>7, <1>8 DEF IInv

\* Where the points of a or of b are taken from.
LEMMA TakeStep ==
  ASSUME IInv, pc = "merge", TakeA \/ TakeB \/ TakeBoth
  PROVE  IInv'
  <1>1. /\ CR_TypeOK /\ op \in SetOps /\ Len(cr) <= size
        /\ Merged(cr, a_idx, b_idx)
    BY DEF IInv, ReadyForLookup
  <1>2. /\ a \in Ranges /\ b \in Ranges
        /\ a_idx \in 0..Len(a) /\ b_idx \in 0..Len(b)
    BY <1>1 DEF CR_TypeOK
  <1>3. /\ Len(a) \in Nat /\ Len(b) \in Nat
        /\ \A m \in 1..Len(a) : a[m] \in 0..UINT32_MAX
        /\ \A m \in 1..Len(b) : b[m] \in 0..UINT32_MAX
    BY <1>2, RangeFacts
  <1>4. /\ a' = a /\ b' = b /\ op' = op /\ pc' = pc
        /\ i' = i /\ j' = j /\ k' = k /\ merged' = merged
    BY DEF TakeA, TakeB, TakeBoth, Merging
  <1>5. /\ cr' \in Seq(0..UINT32_MAX)
        /\ size' \in Nat /\ Len(cr') <= size'
        /\ a_idx' \in 0..Len(a) /\ b_idx' \in 0..Len(b)
        /\ Merged(cr', a_idx', b_idx')
    <2>1. CASE TakeA
      <3>1. /\ a_idx < Len(a) /\ a_idx' = a_idx + 1 /\ b_idx' = b_idx
            /\ b_idx < Len(b) => a[a_idx + 1] < b[b_idx + 1]
            /\ AddPoint(a[a_idx + 1], a_idx + 1, b_idx)
        BY <2>1 DEF TakeA
      <3>2. a[a_idx + 1] \in 0..UINT32_MAX
        BY <3>1, <1>2, <1>3
      <3>3. b_idx < Len(b) => b[b_idx + 1] \in 0..UINT32_MAX
        BY <1>2, <1>3
      <3>4. /\ a_idx + 1 \in 0..Len(a) /\ a_idx + 1 <= Len(a) /\ b_idx <= Len(b)
            /\ a_idx + 1 # a_idx
            /\ b_idx < Len(b) => a[a_idx + 1] <= b[b_idx + 1]
        BY <3>1, <3>2, <3>3, <1>2, <1>3
      <3>5. /\ cr' \in Seq(0..UINT32_MAX)
            /\ size' \in Nat /\ Len(cr') <= size'
            /\ Merged(cr', a_idx + 1, b_idx)
        BY <1>1, <3>1, <3>2, <3>4, MergeStep
      <3> QED
        BY <3>1, <3>4, <3>5, <1>2
    <2>2. CASE TakeB
      <3>1. /\ b_idx < Len(b) /\ b_idx' = b_idx + 1 /\ a_idx' = a_idx
            /\ a_idx < Len(a) => b[b_idx + 1] < a[a_idx + 1]
            /\ AddPoint(b[b_idx + 1], a_idx, b_idx + 1)
        BY <2>2 DEF TakeB
      <3>2. b[b_idx + 1] \in 0..UINT32_MAX
        BY <3>1, <1>2, <1>3
      <3>3. a_idx < Len(a) => a[a_idx + 1] \in 0..UINT32_MAX
        BY <1>2, <1>3
      <3>4. /\ b_idx + 1 \in 0..Len(b) /\ b_idx + 1 <= Len(b) /\ a_idx <= Len(a)
            /\ b_idx + 1 # b_idx
            /\ a_idx < Len(a) => b[b_idx + 1] <= a[a_idx + 1]
        BY <3>1, <3>2, <3>3, <1>2, <1>3
      <3>5. /\ cr' \in Seq(0..UINT32_MAX)
            /\ size' \in Nat /\ Len(cr') <= size'
            /\ Merged(cr', a_idx, b_idx + 1)
        BY <1>1, <3>1, <3>2, <3>4, MergeStep
      <3> QED
        BY <3>1, <3>4, <3>5, <1>2
    <2>3. CASE TakeBoth
      <3>1. /\ a_idx < Len(a) /\ b_idx < Len(b)
            /\ a_idx' = a_idx + 1 /\ b_idx' = b_idx + 1
            /\ a[a_idx + 1] = b[b_idx + 1]
            /\ AddPoint(a[a_idx + 1], a_idx + 1, b_idx + 1)
        BY <2>3 DEF TakeBoth
      <3>2. a[a_idx + 1] \in 0..UINT32_MAX
        BY <3>1, <1>2, <1>3
      <3>3. /\ a_idx + 1 \in 0..Len(a) /\ a_idx + 1 <= Len(a)
            /\ b_idx + 1 \in 0..Len(b) /\ b_idx + 1 <= Len(b)
            /\ a_idx + 1 # a_idx /\ b_idx + 1 # b_idx
        BY <3>1, <1>2, <1>3
      <3>4. /\ cr' \in Seq(0..UINT32_MAX)
            /\ size' \in Nat /\ Len(cr') <= size'
            /\ Merged(cr', a_idx + 1, b_idx + 1)
        BY <1>1, <3>1, <3>2, <3>3, MergeStep
      <3> QED
        BY <3>1, <3>3, <3>4
    <2> QED
      BY <2>1, <2>2, <2>3
  <1>6. CR_TypeOK'
    BY <1>1, <1>4, <1>5 DEF CR_TypeOK
  <1>7. Merged(cr, a_idx, b_idx)'
    BY <1>4, <1>5 DEF Merged
  <1>8. ReadyForLookup'
    BY <1>4, <1>5 DEF ReadyForLookup
  <1> QED
    BY <1>1, <1>4, <1>6, <1>7, <1>8 DEF IInv

LEMMA MergeEndsStep == ASSUME IInv, MergeEnds PROVE IInv'
  <1>1. /\ pc = "merge" /\ pc' = "compress"
        /\ a_idx = Len(a) /\ b_idx = Len(b)
        /\ merged' = cr /\ i' = 0 /\ j' = 0 /\ k' = 0
        /\ cr' = cr /\ size' = size /\ a' = a /\ b' = b
        /\ a_idx' = a_idx /\ b_idx' = b_idx /\ op' = op
    BY DEF MergeEnds, Compress
  <1>2. CR_TypeOK /\ op \in SetOps /\ Merged(cr, a_idx, b_idx)
    BY <1>1 DEF IInv
  <1>3. /\ Len(a) \in Nat /\ Len(a) % 2 = 0 /\ Len(b) \in Nat /\ Len(b) % 2 = 0
        /\ cr \in Seq(0..UINT32_MAX) /\ Len(cr) \in Nat
    BY <1>2, RangeFacts DEF CR_TypeOK
  <1>4. Len(cr) % 2 = 0
    <2>1. ~Odd(a_idx) /\ ~Odd(b_idx)
      BY <1>1, <1>3 DEF Odd
    <2>2. ~Odd(Len(cr))
      BY <2>1, <1>2 DEF Merged, Holds
    <2> QED
      BY <2>2, <1>3 DEF Odd
  <1>5. cr \in Ranges
    <2>1. \A m, n \in 1..Len(cr) : m < n => cr[m] <= cr[n]
      BY <1>2 DEF Merged
    <2> QED
      BY <2>1, <1>3, <1>4, IsRange
  <1>6. \A x \in Codes : Contains(cr, x) <=> Holds(op, Contains(a, x), Contains(b, x))
    BY <1>1, <1>2 DEF Merged, Contains
  <1>7. CR_TypeOK'
    BY <1>1, <1>2, <1>3 DEF CR_TypeOK
  <1>8. ReadyForLookup'
    BY <1>1 DEF IInv, ReadyForLookup
  <1>9. Halfway'
    <2>1. \A x \in Codes : Contains(merged, x)' <=> Denotes(x)'
      <3>1. \A x : Denotes(x)' <=> Holds(op, Contains(a, x), Contains(b, x))
        BY <1>1, <1>2 DEF Denotes, Holds, Contains, SetOps
      <3>2. \A x : Contains(merged, x)' <=> Contains(cr, x)
        BY <1>1 DEF Contains
      <3> QED
        BY ONLY <1>6, <3>1, <3>2
    <2>2. \A x \in Codes : In(cr', k', x) <=> In(merged', i', x)
      BY <1>1
    <2>3. /\ i' % 2 = 0 /\ i' <= Len(cr') /\ k' % 2 = 0 /\ k' <= i' /\ 1..k' = {} /\ ~(0 < k')
      BY <1>1, <1>3
    <2> QED
      BY <1>1, <1>2, <1>5, <2>1, <2>2, <2>3 DEF Halfway
  <1> QED
    BY <1>1, <1>7, <1>8, <1>9 DEF IInv

LEMMA CompressStep ==
  ASSUME IInv, SkipEmpty \/ StartInterval \/ JoinNext \/ CopyInterval \/ CompressEnds
  PROVE  IInv'
  <1>1. /\ size' = size /\ a' = a /\ b' = b /\ a_idx' = a_idx /\ b_idx' = b_idx
        /\ merged' = merged /\ op' = op
        /\ pc \in {"compress", "join"}
    BY DEF SkipEmpty, StartInterval, JoinNext, CopyInterval, CompressEnds, Compressing
  <1>2. CR_TypeOK /\ Halfway /\ Len(cr) <= size /\ (pc = "join" => Joined)
    BY <1>1 DEF IInv, ReadyForLookup
  <1>3. CASE SkipEmpty
    <2>1. cr' = cr /\ i' = i + 2 /\ j' = j /\ k' = k /\ pc' = "compress"
      BY <1>3 DEF SkipEmpty
    <2>2. CR_TypeOK'
      BY <1>1, <1>2, <2>1 DEF CR_TypeOK
    <2>3. ReadyForLookup'
      BY <1>1, <1>2, <2>1 DEF ReadyForLookup
    <2>4. Halfway'
      BY <1>2, <1>3, SkipEmptyStep
    <2> QED
      BY <2>1, <2>2, <2>3, <2>4 DEF IInv
  <1>4. CASE StartInterval
    <2>1. cr' = cr /\ i' = i /\ j' = i /\ k' = k /\ pc' = "join"
      BY <1>4 DEF StartInterval
    <2>2. CR_TypeOK'
      BY <1>1, <1>2, <2>1 DEF CR_TypeOK
    <2>3. ReadyForLookup'
      BY <1>1, <1>2, <2>1 DEF ReadyForLookup
    <2>4. Halfway' /\ Joined'
      BY <1>2, <1>4, StartIntervalStep
    <2> QED
      BY <2>1, <2>2, <2>3, <2>4 DEF IInv
  <1>5. CASE JoinNext
    <2>1. cr' = cr /\ i' = i /\ j' = j + 2 /\ k' = k /\ pc' = "join" /\ pc = "join"
      BY <1>5 DEF JoinNext
    <2>2. CR_TypeOK'
      BY <1>1, <1>2, <2>1 DEF CR_TypeOK
    <2>3. ReadyForLookup'
      BY <1>1, <1>2, <2>1 DEF ReadyForLookup
    <2>4. Halfway' /\ Joined'
      BY <1>2, <1>5, <2>1, JoinNextStep
    <2> QED
      BY <2>1, <2>2, <2>3, <2>4 DEF IInv
  <1>6. CASE CopyInterval
    <2>1. i' = j + 2 /\ j' = j /\ k' = k + 2 /\ pc' = "compress" /\ pc = "join"
      BY <1>6 DEF CopyInterval
    <2>2. Halfway' /\ cr' \in Seq(0..UINT32_MAX) /\ Len(cr') = Len(cr)
      BY <1>2, <1>6, <2>1, CopyIntervalStep
    <2>3. CR_TypeOK'
      BY <1>1, <1>2, <2>1, <2>2 DEF CR_TypeOK
    <2>4. ReadyForLookup'
      BY <1>1, <1>2, <2>1, <2>2 DEF ReadyForLookup
    <2> QED
      BY <2>1, <2>2, <2>3, <2>4 DEF IInv
  <1>7. CASE CompressEnds
    <2>1. i' = i /\ j' = j /\ k' = k /\ pc' = "done"
      BY <1>7 DEF CompressEnds
    <2>2. /\ cr' \in Ranges /\ Len(cr') <= Len(cr) /\ Increasing(cr')
          /\ Exact'
      BY <1>2, <1>7, CompressEndsStep
    <2>3. /\ cr' \in Seq(0..UINT32_MAX) /\ Len(cr') \in Nat
          /\ Len(cr) \in Nat /\ size \in Nat
      BY <2>2, <1>2, RangeFacts, HalfwayFacts DEF CR_TypeOK
    <2>4. CR_TypeOK'
      BY <1>1, <1>2, <2>1, <2>3 DEF CR_TypeOK
    <2>5. ReadyForLookup'
      BY <1>1, <1>2, <2>1, <2>2, <2>3 DEF ReadyForLookup
    <2> QED
      BY <2>1, <2>2, <2>4, <2>5 DEF IInv
  <1> QED
    BY <1>3, <1>4, <1>5, <1>6, <1>7

LEMMA ReturnStep == ASSUME IInv, Return PROVE IInv'
  <1>1. /\ pc = "done" /\ pc' = "idle"
        /\ a' = <<>> /\ b' = <<>> /\ a_idx' = 0 /\ b_idx' = 0
        /\ i' = 0 /\ j' = 0 /\ k' = 0 /\ merged' = <<>> /\ op' = "none"
        /\ cr' = cr /\ size' = size
    BY DEF Return
  <1>2. CR_TypeOK'
    <2>1. cr \in Seq(0..UINT32_MAX) /\ size \in Nat
      BY DEF IInv, CR_TypeOK
    <2> QED
      BY <1>1, <2>1, EmptyRange DEF CR_TypeOK
  <1>3. ReadyForLookup'
    BY <1>1 DEF IInv, ReadyForLookup
  <1> QED
    BY <1>1, <1>2, <1>3 DEF IInv

\* A call that gives up leaves everything but pc as it is.
LEMMA FailStep == ASSUME IInv, CallFails \/ MergeFails PROVE IInv'
  <1>1. /\ pc' = "failed"
        /\ UNCHANGED <<cr, size, a, b, a_idx, b_idx, i, j, k, merged, op>>
    BY DEF CallFails, MergeFails, OutOfMemory
  <1>2. CR_TypeOK'
    BY <1>1 DEF IInv, CR_TypeOK
  <1>3. ReadyForLookup'
    BY <1>1 DEF IInv, ReadyForLookup
  <1> QED
    BY <1>1, <1>2, <1>3 DEF IInv

LEMMA NextIInv == IInv /\ [CR_Next]_crVars => IInv'
  <1> SUFFICES ASSUME IInv, [CR_Next]_crVars PROVE IInv'
    OBVIOUS
  <1>1. CASE UNCHANGED crVars
    BY <1>1 DEF crVars, IInv, CR_TypeOK, ReadyForLookup, Merged, Halfway, Joined, Exact,
                Contains, Denotes
  <1>2. CASE Return
    BY <1>2, ReturnStep
  <1>3. CASE CallOp
    BY <1>3, CallOpStep
  <1>4. CASE AddInterval
    BY <1>4, AddIntervalStep
  <1>5. CASE Copy
    BY <1>5, CopyStep
  <1>6. CASE Invert
    BY <1>6, InvertStep
  <1>7. CASE CallFails \/ MergeFails
    BY <1>7, FailStep
  <1>8. CASE TakeA \/ TakeB \/ TakeBoth
    <2>1. pc = "merge"
      BY <1>8 DEF TakeA, TakeB, TakeBoth
    <2> QED
      BY <1>8, <2>1, TakeStep
  <1>9. CASE MergeEnds
    BY <1>9, MergeEndsStep
  <1>10. CASE SkipEmpty \/ StartInterval \/ JoinNext \/ CopyInterval \/ CompressEnds
    BY <1>10, CompressStep
  <1> QED
    BY <1>1, <1>2, <1>3, <1>4, <1>5, <1>6, <1>7, <1>8, <1>9, <1>10 DEF CR_Next

LEMMA Invariance == CR_Spec => []IInv
  BY InitIInv, NextIInv, PTL DEF CR_Spec

--------------------------------------------------------------------------------
\* Every call that succeeds leaves exactly the characters it should, for every set
\* of operands and after every sequence of calls.  (cr_op, cr_invert,
\* cr_add_interval, cr_copy)
THEOREM RangesExact == CR_Spec => []RangeOpExact
  <1>1. IInv => RangeOpExact
    <2>1. Characters \subseteq Codes
      BY CodePointsAssumption DEF Codes
    <2> QED
      BY <2>1 DEF IInv, RangeOpExact, Exact
  <1> QED
    BY <1>1, Invariance, PTL

\* What an operation leaves is in the form the lookups need, and inside its memory.
\* (cr_compress, cr_realloc)
THEOREM RangesReady == CR_Spec => []ReadyForLookup
  <1>1. IInv => ReadyForLookup
    BY DEF IInv
  <1> QED
    BY <1>1, Invariance, PTL

\* What the lookup needs of the points it is written from.
ClassOK(p) ==
  /\ p \in Seq(0..UINT32_MAX)
  /\ Len(p) % 2 = 0
  /\ Len(p) > 0
  /\ Increasing(p)

InputOK == ClassOK(points) /\ c \in Characters

\* c is between the ends of the class, and only intervals from idx_min to idx_max
\* are left that may hold it.
Bracket ==
  /\ idx_min \in 0..Count
  /\ idx_max \in 0..(Count - 1)
  /\ Low(0) <= c
  /\ \A n \in 0..(Count - 1) : c <= High(n) <=> c < points[2 * n + 2]
  /\ \A n \in 0..(Count - 1) : n < idx_min => High(n) < c
  /\ \A n \in 0..(Count - 1) : n > idx_max => c < Low(n)

LookupInv ==
  /\ TypeOK
  /\ InputOK
  /\ status = "start" => idx_min = 0 /\ idx_max = 0
  /\ status = "compile" => idx_min = 0 /\ idx_max = 0
  /\ status = "search" => Bracket
  /\ FoundIffMember

--------------------------------------------------------------------------------
LEMMA Halves ==
  ASSUME NEW n \in Nat, n % 2 = 0, n > 0
  PROVE  n \div 2 \in Nat /\ n \div 2 >= 1 /\ n = 2 * (n \div 2)
  OBVIOUS

\* The ends of the intervals of a class are numbers, in increasing order.
LEMMA ClassFacts ==
  ASSUME InputOK
  PROVE  /\ Count \in Nat
         /\ Count >= 1
         /\ Len(points) = 2 * Count
         /\ c \in 0..(UINT32_MAX - 2)
         /\ UINT32_MAX \in Nat
         /\ \A m \in 1..(2 * Count) : points[m] \in 0..UINT32_MAX
         /\ \A n, m \in 1..(2 * Count) : n < m => points[n] < points[m]
  <1>1. /\ points \in Seq(0..UINT32_MAX)
        /\ Len(points) % 2 = 0
        /\ Len(points) > 0
        /\ Increasing(points)
    BY DEF InputOK, ClassOK
  <1>2. Len(points) \in Nat /\ DOMAIN points = 1..Len(points)
    BY <1>1
  <1>3. Count \in Nat /\ Count >= 1 /\ Len(points) = 2 * Count
    BY <1>1, <1>2, Halves DEF Count
  <1>4. \A m \in 1..(2 * Count) : points[m] \in 0..UINT32_MAX
    <2>1. \A m \in 1..Len(points) : points[m] \in 0..UINT32_MAX
      <3>1. points \in Seq(0..UINT32_MAX)
        BY <1>1
      <3> QED
        BY <3>1, ElementOfSeq
    <2> QED
      BY <2>1, <1>3
  <1>5. \A n, m \in 1..(2 * Count) : n < m => points[n] < points[m]
    <2>1. \A n, m \in 1..Len(points) : n < m => points[n] < points[m]
      BY <1>1, <1>2 DEF Increasing
    <2> QED
      BY <2>1, <1>3
  <1> QED
    BY <1>3, <1>4, <1>5, RangeAssumption, CodePointsAssumption DEF InputOK

\* Low and High give an interval: with Narrow, an end that is not UINT32_MAX is
\* at most 0xffff, so that a high end of 0xffff always means no end.
LEMMA IntervalFacts ==
  ASSUME InputOK
  PROVE  /\ \A n \in 0..(Count - 1) : Low(n) \in Int /\ High(n) \in Int
         /\ \A n \in 0..(Count - 1) :
              High(n) = IF Narrow /\ points[2 * n + 2] = UINT32_MAX THEN MaxUnit
                                                                 ELSE points[2 * n + 2] - 1
         /\ \A n \in 0..(Count - 1) : points[2 * n + 2] = UINT32_MAX => n = Count - 1
         /\ Narrow /\ High(Count - 1) = MaxUnit => points[2 * Count] = UINT32_MAX
         /\ Narrow => points[2 * Count - 1] <= MaxUnit
         /\ \A n, m \in 0..(Count - 1) : n < m => points[2 * n + 2] < Low(m)
         /\ \A n, m \in 0..(Count - 1) : n <= m => Low(n) <= Low(m)
         /\ \A n \in 0..(Count - 1) : Low(n) = points[2 * n + 1]
  <1>1. /\ Count \in Nat /\ Count >= 1 /\ Len(points) = 2 * Count
        /\ \A m \in 1..(2 * Count) : points[m] \in 0..UINT32_MAX
        /\ \A n, m \in 1..(2 * Count) : n < m => points[n] < points[m]
        /\ UINT32_MAX \in Nat
    BY ClassFacts
  <1>2. \A n \in 0..(Count - 1) : 2 * n + 1 \in 1..(2 * Count) /\ 2 * n + 2 \in 1..(2 * Count)
    BY <1>1
  <1>3. \A n \in 0..(Count - 1) : Low(n) \in Int /\ High(n) \in Int
    BY <1>1, <1>2 DEF Low, High, MaxUnit
  <1>4. \A n \in 0..(Count - 1) : points[2 * n + 2] = UINT32_MAX => n = Count - 1
    <2> SUFFICES ASSUME NEW n \in 0..(Count - 1), points[2 * n + 2] = UINT32_MAX, n # Count - 1
                 PROVE  FALSE
      OBVIOUS
    <2>1. 2 * n + 2 < 2 * Count /\ 2 * Count \in 1..(2 * Count)
      BY <1>1
    <2>2. points[2 * n + 2] < points[2 * Count]
      BY <1>1, <1>2, <2>1
    <2> QED
      BY <1>1, <2>1, <2>2
  <1>5. Narrow /\ High(Count - 1) = MaxUnit => points[2 * Count] = UINT32_MAX
    <2>1. 2 * (Count - 1) + 2 = 2 * Count
      BY <1>1
    <2> QED
      BY <1>1, <2>1 DEF Narrow, High, Last, MaxUnit
  <1>6. Narrow => points[2 * Count - 1] <= MaxUnit
    <2>1. 2 * Count - 1 \in 1..(2 * Count) /\ 2 * Count \in 1..(2 * Count)
      BY <1>1
    <2>2. points[2 * Count - 1] < points[2 * Count]
      BY <1>1, <2>1
    <2> QED
      BY <1>1, <2>1, <2>2 DEF Narrow, Last, MaxUnit
  <1>7. \A n, m \in 0..(Count - 1) : n < m => points[2 * n + 2] < Low(m)
    BY <1>1, <1>2 DEF Low
  <1>8. \A n, m \in 0..(Count - 1) : n <= m => Low(n) <= Low(m)
    <2> TAKE n, m \in 0..(Count - 1)
    <2>1. CASE n = m
      BY <1>3, <2>1
    <2>2. CASE n < m
      BY <1>1, <1>2, <2>2 DEF Low
    <2> QED
      BY <2>1, <2>2
  <1>9. \A n \in 0..(Count - 1) :
              High(n) = IF Narrow /\ points[2 * n + 2] = UINT32_MAX THEN MaxUnit
                                                                 ELSE points[2 * n + 2] - 1
    BY DEF High
  <1>10. \A n \in 0..(Count - 1) : Low(n) = points[2 * n + 1]
    BY DEF Low
  <1> QED
    BY <1>3, <1>4, <1>5, <1>6, <1>7, <1>8, <1>9, <1>10

--------------------------------------------------------------------------------
LEMMA LookupInit == Init => LookupInv
  BY RangeAssumption DEF ClassOK, Init, LookupInv, TypeOK, InputOK, FoundIffMember, Answers

\* The tests before the loop decide the ends of the class.
LEMMA CheckEndsKeeps ==
  ASSUME LookupInv, CheckEnds
  PROVE  LookupInv'
  <1>1. InputOK /\ InputOK' /\ UNCHANGED <<points, c, idx_min>> /\ idx_min = 0 /\ idx_max = 0
    BY DEF LookupInv, CheckEnds, InputOK
  <1>2. /\ Count \in Nat /\ Count >= 1
        /\ c \in 0..(UINT32_MAX - 2)
        /\ UINT32_MAX \in Nat
        /\ \A m \in 1..(2 * Count) : points[m] \in 0..UINT32_MAX
        /\ \A n, m \in 1..(2 * Count) : n < m => points[n] < points[m]
    BY <1>1, ClassFacts
  <1> DEFINE top == Count - 1
  <1>3. /\ top \in 0..(Count - 1)
        /\ 0 \in 0..(Count - 1)
        /\ 2 * top + 2 = 2 * Count
        /\ 2 * top + 1 = 2 * Count - 1
    BY <1>2
  <1>4. UNCHANGED <<Count, Member>> /\ \A n : Low(n)' = Low(n) /\ High(n)' = High(n)
    BY <1>1 DEF Count, Member, Low, High, Narrow, Last
  <1>5. CASE c < Low(0)
    <2>1. ~Member
      BY <1>1, <1>2, <1>3, <1>5, IntervalFacts DEF Member
    <2>2. status' = "no_match" /\ idx_max' = idx_max
      BY <1>5 DEF CheckEnds
    <2> QED
      BY <1>1, <1>4, <2>1, <2>2 DEF LookupInv, TypeOK, FoundIffMember, Answers
  <1>6. CASE c >= Low(0) /\ Narrow /\ c >= MaxUnit /\ High(top) = MaxUnit
    <2>1. points[2 * top + 2] = UINT32_MAX /\ points[2 * top + 1] <= MaxUnit
      BY <1>1, <1>3, <1>6, IntervalFacts
    <2>2. c < points[2 * top + 2] /\ points[2 * top + 1] <= c
      BY <1>2, <1>3, <1>6, <2>1 DEF MaxUnit
    <2>3. Member
      BY <1>3, <2>2 DEF Member
    <2>4. status' = "match" /\ idx_max' = top
      BY <1>1, <1>2, <1>3, <1>6, IntervalFacts DEF CheckEnds
    <2> QED
      BY <1>1, <1>2, <1>4, <2>3, <2>4 DEF LookupInv, TypeOK, FoundIffMember, Answers
  <1>7. CASE c >= Low(0) /\ ~(Narrow /\ c >= MaxUnit /\ High(top) = MaxUnit) /\ c > High(top)
    <2>1. c >= points[2 * top + 2]
      <3>1. High(top) = (IF Narrow /\ points[2 * top + 2] = UINT32_MAX THEN MaxUnit
                                                              ELSE points[2 * top + 2] - 1)
        BY <1>1, <1>3, IntervalFacts
      <3>2. points[2 * top + 2] \in Nat
        BY <1>2, <1>3
      <3> QED
        BY <1>2, <1>7, <3>1, <3>2 DEF MaxUnit
    <2>2. ~Member
      <3> SUFFICES ASSUME NEW n \in 0..(Count - 1), c < points[2 * n + 2]
                   PROVE  FALSE
        BY DEF Member
      <3>1. 2 * n + 2 \in 1..(2 * Count) /\ 2 * top + 2 \in 1..(2 * Count)
        BY <1>2, <1>3
      <3>2. points[2 * n + 2] <= points[2 * top + 2]
        BY <1>2, <1>3, <3>1
      <3> QED
        BY <1>2, <2>1, <3>1, <3>2
    <2>3. status' = "no_match" /\ idx_max' = top
      BY <1>1, <1>2, <1>3, <1>7, IntervalFacts DEF CheckEnds
    <2> QED
      BY <1>1, <1>2, <1>4, <2>2, <2>3 DEF LookupInv, TypeOK, FoundIffMember, Answers
  <1>8. CASE c >= Low(0) /\ ~(Narrow /\ c >= MaxUnit /\ High(top) = MaxUnit) /\ ~(c > High(top))
    <2>1. \A n \in 0..(Count - 1) : c <= High(n) <=> c < points[2 * n + 2]
      <3> TAKE n \in 0..(Count - 1)
      <3>1. High(n) = (IF Narrow /\ points[2 * n + 2] = UINT32_MAX THEN MaxUnit
                                                              ELSE points[2 * n + 2] - 1)
        BY <1>1, IntervalFacts
      <3>2. points[2 * n + 2] = UINT32_MAX => n = top
        BY <1>1, IntervalFacts
      <3>3. 2 * n + 2 \in 1..(2 * Count) /\ points[2 * n + 2] \in Nat
        BY <1>2
      <3>4. CASE Narrow /\ points[2 * n + 2] = UINT32_MAX
        <4>1. High(top) = MaxUnit /\ High(n) = MaxUnit
          BY <3>1, <3>2, <3>4
        <4> QED
          BY <1>2, <1>8, <3>4, <4>1 DEF MaxUnit
      <3>5. CASE ~(Narrow /\ points[2 * n + 2] = UINT32_MAX)
        BY <1>2, <3>1, <3>3, <3>5
      <3> QED
        BY <3>4, <3>5
    <2>2. status' = "search" /\ idx_max' = top
      BY <1>1, <1>2, <1>3, <1>8, IntervalFacts DEF CheckEnds
    <2>3. Bracket'
      BY <1>1, <1>2, <1>3, <1>4, <1>8, <2>1, <2>2 DEF Bracket
    <2> QED
      BY <1>1, <1>2, <2>2, <2>3 DEF LookupInv, TypeOK, FoundIffMember, Answers
  <1> QED
    BY <1>1, <1>2, <1>3, <1>5, <1>6, <1>7, <1>8, IntervalFacts

\* One turn of the loop keeps the bracket: idx lies in it, so that idx_max = idx - 1
\* wraps only if c is below the first interval, which was tested.
LEMMA HalveKeeps ==
  ASSUME LookupInv, Halve
  PROVE  LookupInv'
  <1> DEFINE idx == (idx_min + idx_max) \div 2
  <1>1. /\ InputOK /\ InputOK' /\ Bracket /\ status = "search" /\ idx_min <= idx_max
        /\ UNCHANGED <<points, c>>
    BY DEF LookupInv, Halve, InputOK
  <1>2. /\ Count \in Nat /\ Count >= 1
        /\ c \in 0..(UINT32_MAX - 2)
        /\ UINT32_MAX \in Nat
    BY <1>1, ClassFacts
  <1>3. idx \in idx_min..idx_max /\ idx \in 0..(Count - 1)
    BY <1>1, <1>2 DEF Bracket
  <1>4. UNCHANGED <<Count, Member>> /\ \A n : Low(n)' = Low(n) /\ High(n)' = High(n)
    BY <1>1 DEF Count, Member, Low, High, Narrow, Last
  <1>5. CASE c < Low(idx)
    <2>1. idx # 0
      BY <1>1, <1>2, <1>5, <1>3, IntervalFacts DEF Bracket
    <2>2. idx_max' = idx - 1 /\ idx_min' = idx_min /\ status' = "search"
      BY <1>1, <1>2, <1>3, <1>5, <2>1, IntervalFacts DEF Halve, Minus1
    <2>3. \A n \in 0..(Count - 1) : n > idx - 1 => c < Low(n)
      <3> TAKE n \in 0..(Count - 1)
      <3>1. n >= idx => Low(idx) <= Low(n)
        BY <1>1, <1>3, IntervalFacts
      <3>2. Low(n) \in Int /\ Low(idx) \in Int
        BY <1>1, <1>3, IntervalFacts
      <3> QED
        BY <1>2, <1>3, <1>5, <3>1, <3>2
    <2>4. Bracket'
      BY <1>1, <1>2, <1>3, <1>4, <2>1, <2>2, <2>3 DEF Bracket
    <2> QED
      BY <1>1, <1>2, <1>3, <2>1, <2>2, <2>4 DEF LookupInv, TypeOK, FoundIffMember, Answers
  <1>6. CASE c >= Low(idx) /\ c > High(idx)
    <2>1. idx_min' = idx + 1 /\ idx_max' = idx_max /\ status' = "search"
      BY <1>1, <1>2, <1>3, <1>6, IntervalFacts DEF Halve
    <2>2. \A n \in 0..(Count - 1) : n < idx + 1 => High(n) < c
      <3> TAKE n \in 0..(Count - 1)
      <3>1. CASE n < idx
        <4>1. points[2 * n + 2] < Low(idx)
          BY <1>1, <1>3, <3>1, IntervalFacts
        <4>2. c <= High(n) <=> c < points[2 * n + 2]
          BY <1>1 DEF Bracket
        <4>3. points[2 * n + 2] \in Int /\ High(n) \in Int /\ Low(idx) \in Int
          <5>1. 2 * n + 2 \in 1..(2 * Count)
            BY <1>2
          <5>2. points[2 * n + 2] \in 0..UINT32_MAX
            BY <1>1, <5>1, ClassFacts
          <5> QED
            BY <1>1, <1>2, <1>3, <5>2, IntervalFacts
        <4> QED
          BY <1>2, <1>6, <4>1, <4>2, <4>3
      <3>2. CASE n >= idx
        BY <1>2, <1>3, <1>6, <3>2
      <3> QED
        BY <1>3, <3>1, <3>2
    <2>3. Bracket'
      BY <1>1, <1>2, <1>3, <1>4, <2>1, <2>2 DEF Bracket
    <2> QED
      BY <1>1, <1>2, <1>3, <2>1, <2>3 DEF LookupInv, TypeOK, FoundIffMember, Answers
  <1>7. CASE Low(idx) <= c /\ c <= High(idx)
    <2>1. c < points[2 * idx + 2] /\ points[2 * idx + 1] <= c
      BY <1>1, <1>3, <1>7, IntervalFacts DEF Bracket
    <2>2. Member
      BY <1>3, <2>1 DEF Member
    <2>3. status' = "match" /\ UNCHANGED <<idx_min, idx_max>>
      BY <1>1, <1>2, <1>3, <1>7, IntervalFacts DEF Halve
    <2> QED
      BY <1>1, <1>4, <2>2, <2>3 DEF LookupInv, TypeOK, FoundIffMember, Answers
  <1> QED
    BY <1>1, <1>2, <1>3, <1>5, <1>6, <1>7, IntervalFacts

\* When the bracket is empty no interval holds c.
LEMMA NothingLeftKeeps ==
  ASSUME LookupInv, NothingLeft
  PROVE  LookupInv'
  <1>1. /\ InputOK /\ InputOK' /\ Bracket /\ idx_min > idx_max
        /\ UNCHANGED <<points, c, idx_min, idx_max>> /\ status' = "no_match"
    BY DEF LookupInv, NothingLeft, InputOK
  <1>2. ~Member
    <2> SUFFICES ASSUME NEW n \in 0..(Count - 1), points[2 * n + 1] <= c, c < points[2 * n + 2]
                 PROVE  FALSE
      BY DEF Member
    <2>1. c <= High(n) /\ Low(n) <= c
      BY <1>1, IntervalFacts DEF Bracket
    <2>2. c \in Int /\ Low(n) \in Int /\ High(n) \in Int /\ Count \in Nat
      BY <1>1, ClassFacts, IntervalFacts
    <2>3. n < idx_min \/ n > idx_max
      BY <1>1, <2>2 DEF Bracket
    <2> QED
      BY <1>1, <2>1, <2>2, <2>3 DEF Bracket
  <1>3. UNCHANGED Member
    BY <1>1 DEF Member, Count
  <1> QED
    BY <1>1, <1>2, <1>3 DEF LookupInv, TypeOK, FoundIffMember, Answers

\* Every step preserves the invariant.
LEMMA LookupStep == LookupInv /\ [Next]_vars => LookupInv'
  <1> SUFFICES ASSUME LookupInv, [Next]_vars PROVE LookupInv'
    OBVIOUS
  <1>1. CASE Emit
    BY <1>1 DEF Emit, LookupInv, TypeOK, InputOK, FoundIffMember, Answers
  <1>2. CASE CheckEnds
    BY <1>2, CheckEndsKeeps
  <1>3. CASE Halve
    BY <1>3, HalveKeeps
  <1>4. CASE NothingLeft
    BY <1>4, NothingLeftKeeps
  <1>5. CASE UNCHANGED vars
    BY <1>5 DEF vars, LookupInv, TypeOK, InputOK, FoundIffMember, Bracket, Member, Count, Low, High,
                Narrow, Last
  <1> QED
    BY <1>1, <1>2, <1>3, <1>4, <1>5 DEF Next, Answered

--------------------------------------------------------------------------------
\* idx_min and idx_max never leave the natural numbers: the code computes them on
\* uint32_t without a wrap.
THEOREM TypeCorrect == Spec => []TypeOK
  <1>1. LookupInv => TypeOK
    BY DEF LookupInv
  <1> QED
    BY <1>1, LookupInit, LookupStep, PTL DEF Spec

\* REOP_range and REOP_range32 accept exactly the characters of the class.
THEOREM LookupIsExact == Spec => []FoundIffMember
  <1>1. LookupInv => FoundIffMember
    BY DEF LookupInv
  <1> QED
    BY <1>1, LookupInit, LookupStep, PTL DEF Spec

\* The loop reads no interval that is not there.
LEMMA BracketInside == LookupInv => InBounds
  <1> SUFFICES ASSUME LookupInv, status = "search" PROVE idx_max < Count
    BY DEF InBounds
  <1>1. Bracket /\ InputOK
    BY DEF LookupInv
  <1>2. Count \in Nat
    BY <1>1, ClassFacts
  <1> QED
    BY <1>1, <1>2 DEF Bracket

THEOREM LookupInBounds == Spec => []InBounds
  BY BracketInside, LookupInit, LookupStep, PTL DEF Spec

--------------------------------------------------------------------------------
(***************************************************************************)
(* The class on its way from the operation to the lookup.                  *)
(***************************************************************************)
\* What is looked up is the set of the last operation, if one was written.
ClassInv ==
  /\ IInv
  /\ NotWritten => status = "no_match" /\ idx_min = 0 /\ idx_max = 0
  /\ ~NotWritten => LookupInv
  /\ ~NotWritten /\ pc = "done" => points = cr

\* The intervals of a class make the set that its points stand for.
LEMMA MemberIsContained ==
  ASSUME InputOK
  PROVE  Member <=> Contains(points, c)
  <1>1. /\ Count \in Nat /\ Len(points) = 2 * Count
        /\ c \in Nat
        /\ \A n \in 1..(2 * Count) : points[n] \in Nat
    BY ClassFacts
  <1>2. ASSUME NEW n \in 0..(Count - 1), points[2 * n + 1] <= c, c < points[2 * n + 2]
        PROVE  Contains(points, c)
    <2>1. 2 * n + 1 \in 1..Len(points) /\ Odd(2 * n + 1) /\ (2 * n + 1) + 1 = 2 * n + 2
      BY <1>1 DEF Odd
    <2> QED
      BY <1>2, <2>1 DEF Contains, In
  <1>3. ASSUME NEW m \in 1..Len(points), Odd(m), points[m] <= c,
               m < Len(points) => c < points[m + 1]
        PROVE  Member
    <2> DEFINE n == m \div 2
    <2>1. n \in 0..(Count - 1) /\ m = 2 * n + 1 /\ m < Len(points)
      BY <1>1, <1>3 DEF Odd
    <2>2. m + 1 = 2 * n + 2
      BY <2>1
    <2> HIDE DEF n
    <2> QED
      BY <1>3, <2>1, <2>2 DEF Member
  <1> QED
    BY <1>2, <1>3 DEF Member, Contains, In

LEMMA ClassInitInv == ClassInit => ClassInv
  <1> SUFFICES ASSUME ClassInit PROVE ClassInv
    OBVIOUS
  <1>1. IInv /\ pc = "idle"
    BY InitIInv DEF ClassInit, CR_Init
  <1>2. CASE points = <<>> /\ status = "no_match" /\ idx_min = 0 /\ idx_max = 0
    BY <1>1, <1>2 DEF ClassInv, NotWritten
  <1>3. CASE Init
    <2>1. LookupInv
      BY <1>3, LookupInit
    <2>2. points # <<>>
      BY <2>1 DEF LookupInv, InputOK, ClassOK
    <2> QED
      BY <1>1, <2>1, <2>2 DEF ClassInv, NotWritten
  <1> QED
    BY <1>2, <1>3 DEF ClassInit

LEMMA ClassStepInv == ClassInv /\ [ClassNext]_classVars => ClassInv'
  <1> SUFFICES ASSUME ClassInv, [ClassNext]_classVars PROVE ClassInv'
    OBVIOUS
  <1>1. CASE MakeSet
    <2>1. IInv' /\ UNCHANGED vars /\ NotWritten
      BY <1>1, NextIInv DEF MakeSet, ClassInv
    <2> QED
      BY <2>1 DEF ClassInv, NotWritten, vars
  <1>2. CASE Write
    <2>1. /\ IInv /\ UNCHANGED crVars /\ points' = cr /\ cr # <<>>
          /\ pc = "done" /\ op \in SetOps \cup {"invert"}
          /\ c' \in Characters /\ status' = "compile"
          /\ idx_min' = 0 /\ idx_max' = 0
      BY <1>2 DEF Write, ClassInv
    <2>2. IInv'
      BY <2>1, NextIInv
    <2>3. ClassOK(cr)
      <3>1. cr \in Ranges /\ Increasing(cr)
        BY <2>1 DEF IInv, ReadyForLookup
      <3>2. Len(cr) \in Nat /\ Len(cr) > 0 /\ Len(cr) % 2 = 0
        BY <2>1, <3>1 DEF Ranges, Odd
      <3> QED
        BY <3>1, <3>2 DEF ClassOK, Ranges
    <2>4. LookupInv'
      BY <2>1, <2>3 DEF LookupInv, InputOK, TypeOK, FoundIffMember, Answers
    <2> QED
      BY <2>1, <2>2, <2>4 DEF ClassInv, NotWritten, crVars
  <1>3. CASE LookUp
    <2>1. UNCHANGED crVars /\ ~NotWritten /\ [Next]_vars /\ points' = points
      BY <1>3 DEF LookUp, ClassInv, Emit, CheckEnds, Halve, NothingLeft, Next
    <2>2. IInv' /\ LookupInv'
      BY <2>1, NextIInv, LookupStep DEF ClassInv
    <2> QED
      BY <2>1, <2>2 DEF ClassInv, NotWritten, crVars
  <1>4. CASE UNCHANGED classVars
    <2>1. UNCHANGED crVars /\ UNCHANGED vars
      BY <1>4 DEF classVars
    <2>2. IInv' /\ (LookupInv => LookupInv')
      BY <2>1, NextIInv, LookupStep DEF ClassInv
    <2> QED
      BY <2>1, <2>2 DEF ClassInv, NotWritten, crVars, vars
  <1> QED
    BY <1>1, <1>2, <1>3, <1>4 DEF ClassNext

\* From the operation to the answer nothing is lost: the interpreter matches a
\* character with a class exactly if it is in the set that the last operation makes
\* of its operands.  (cr_op, cr_invert, re_emit_range, REOP_range)
THEOREM ClassMatchesDenoted == ClassSpec => []MatchesDenoted
  <1>1. ClassInv => MatchesDenoted
    <2> SUFFICES ASSUME ClassInv, ~NotWritten, pc = "done"
                 PROVE  /\ status = "match" => Denotes(c)
                        /\ status = "no_match" => ~Denotes(c)
      BY DEF MatchesDenoted
    <2>1. LookupInv /\ IInv /\ points = cr
      BY DEF ClassInv
    <2>2. c \in Codes
      BY <2>1, CodePointsAssumption DEF LookupInv, InputOK, Codes
    <2>3. Member <=> Contains(cr, c)
      BY <2>1, MemberIsContained DEF LookupInv
    <2>4. Contains(cr, c) <=> Denotes(c)
      BY <2>1, <2>2 DEF IInv, Exact
    <2>5. FoundIffMember
      BY <2>1 DEF LookupInv
    <2> QED
      BY <2>3, <2>4, <2>5 DEF FoundIffMember
  <1> QED
    BY <1>1, ClassInitInv, ClassStepInv, PTL DEF ClassSpec

\* The lookup stays exact and inside its table for the classes that operations have
\* made, and the sets stay exact and in order while lookups go on.
THEOREM ClassStaysRight ==
  ClassSpec => [](FoundIffMember /\ InBounds /\ RangeOpExact /\ ReadyForLookup)
  <1>1. ClassInv => FoundIffMember /\ InBounds
    <2>1. NotWritten /\ status = "no_match" => FoundIffMember /\ InBounds
      BY DEF NotWritten, FoundIffMember, InBounds, Member, Count
    <2>2. LookupInv => FoundIffMember /\ InBounds
      BY BracketInside DEF LookupInv
    <2> QED
      BY <2>1, <2>2 DEF ClassInv
  <1>2. ClassInv => RangeOpExact /\ ReadyForLookup
    <2>1. Characters \subseteq Codes
      BY CodePointsAssumption DEF Codes
    <2> QED
      BY <2>1 DEF ClassInv, IInv, RangeOpExact, Exact
  <1> QED
    BY <1>1, <1>2, ClassInitInv, ClassStepInv, PTL DEF ClassSpec
================================================================================
