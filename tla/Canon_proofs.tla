------------------------------ MODULE Canon_proofs ------------------------------
(***************************************************************************)
(* cr_regexp_canonicalize makes of a set the set of the canonical forms of *)
(* its characters.                                                         *)
(*                                                                         *)
(* The invariant CanonInv says at each place what was made so far: what is *)
(* in the result, with the interval that is being extended, are the forms  *)
(* of the characters of cr_inter below c, but for those that were lost for *)
(* want of memory.  Sorting keeps the intervals (Rqsort_proofs), removing  *)
(* overlap keeps the characters in them and sets the intervals apart, and  *)
(* the characters of cr_sub are their own forms.  That the forms are those *)
(* that are found one by one is what searching the table by halving gives. *)
(***************************************************************************)
EXTENDS CanonClass, Rqsort_proofs

--------------------------------------------------------------------------------
(***************************************************************************)
(* A finite set in increasing order.                                       *)
(***************************************************************************)
Upto(S, x) == {q \in S : q <= x}
Rank(S, x) == Cardinality(Upto(S, x))

LEMMA RankStep ==
  ASSUME NEW S \in SUBSET Nat, IsFiniteSet(S), NEW x \in Int
  PROVE  /\ Rank(S, x) \in Nat /\ Rank(S, x - 1) \in Nat
         /\ x \in S => Rank(S, x) = Rank(S, x - 1) + 1
         /\ x \notin S => Rank(S, x) = Rank(S, x - 1)
         /\ Rank(S, x) <= Cardinality(S)
  <1>1. /\ Upto(S, x) \subseteq S /\ Upto(S, x - 1) \subseteq S
        /\ IsFiniteSet(Upto(S, x)) /\ IsFiniteSet(Upto(S, x - 1))
    BY FS_Subset DEF Upto
  <1>2. Rank(S, x) \in Nat /\ Rank(S, x - 1) \in Nat /\ Rank(S, x) <= Cardinality(S)
    BY <1>1, FS_CardinalityType, FS_Subset DEF Rank
  <1>3. ASSUME x \in S PROVE Rank(S, x) = Rank(S, x - 1) + 1
    <2>0. \A q \in S : q <= x <=> (q <= x - 1 \/ q = x)
      OBVIOUS
    <2>1. Upto(S, x) = Upto(S, x - 1) \cup {x}
      BY <1>3, <2>0, Zenon DEF Upto
    <2>2. x \notin Upto(S, x - 1)
      BY DEF Upto
    <2> QED
      BY <1>1, <2>1, <2>2, FS_AddElement DEF Rank
  <1>4. ASSUME x \notin S PROVE Rank(S, x) = Rank(S, x - 1)
    <2>0. \A q \in S : q <= x <=> (q <= x - 1 \/ q = x)
      OBVIOUS
    <2>1. Upto(S, x) = Upto(S, x - 1)
      BY <1>4, <2>0, Zenon DEF Upto
    <2> QED
      BY <2>1 DEF Rank
  <1> QED
    BY <1>2, <1>3, <1>4

LEMMA RankGrows ==
  ASSUME NEW S \in SUBSET Nat, IsFiniteSet(S), NEW x \in Int, NEW y \in Int, x <= y
  PROVE  Rank(S, x) <= Rank(S, y)
  <1>0. \A q \in S : q <= x => q <= y
    OBVIOUS
  <1>1. Upto(S, x) \subseteq Upto(S, y) /\ Upto(S, y) \subseteq S
    BY <1>0, Zenon DEF Upto
  <1> QED
    BY <1>1, FS_Subset DEF Rank

\* Nothing is below 0, and everything is below what is above all.
LEMMA RankEnds ==
  ASSUME NEW S \in SUBSET Nat, IsFiniteSet(S)
  PROVE  /\ \A x \in Int : x < 0 => Rank(S, x) = 0
         /\ \A x \in Int : (\A q \in S : q <= x) => Rank(S, x) = Cardinality(S)
  <1>1. ASSUME NEW x \in Int, x < 0 PROVE Rank(S, x) = 0
    <2>0. \A q \in S : ~(q <= x)
      BY <1>1
    <2>1. Upto(S, x) = {}
      BY <2>0, Zenon DEF Upto
    <2> QED
      BY <2>1, FS_EmptySet DEF Rank
  <1>2. ASSUME NEW x \in Int, \A q \in S : q <= x PROVE Rank(S, x) = Cardinality(S)
    <2>1. Upto(S, x) = S
      BY <1>2 DEF Upto
    <2> QED
      BY <2>1 DEF Rank
  <1> QED
    BY <1>1, <1>2

\* The first elements of S, and what is above them.
LEMMA RankTaken ==
  ASSUME NEW S \in SUBSET Nat, IsFiniteSet(S), NEW top \in Nat, \A q \in S : q <= top,
         NEW n \in 1..Cardinality(S)
  PROVE  \E p \in S : Rank(S, p - 1) = n - 1
  <1> DEFINE T == {x \in Nat : Rank(S, x) >= n}
  <1>0. Cardinality(S) \in Nat /\ n \in Nat /\ n >= 1 /\ n <= Cardinality(S)
    BY FS_CardinalityType
  <1>1. top \in T
    BY <1>0, RankEnds
  <1>2. T \subseteq Nat /\ T # {}
    BY <1>1
  <1>3. PICK p \in T : \A x \in T : p <= x
    <2> HIDE DEF T
    <2> QED
      BY <1>2, Smallest
  <1>4. p \in Nat /\ Rank(S, p) >= n
    OBVIOUS
  <1>5. p - 1 \notin T
    BY <1>3, <1>4
  <1>6. Rank(S, p) \in Nat /\ Rank(S, p - 1) \in Nat
    BY <1>4, RankStep
  <1>7. Rank(S, p - 1) < n
    <2>1. CASE p = 0
      BY <1>0, <2>1, RankEnds
    <2>2. CASE p # 0
      <3>1. p - 1 \in Nat
        BY <1>4, <2>2
      <3> QED
        BY <1>0, <1>5, <1>6, <3>1
    <2> QED
      BY <2>1, <2>2
  <1> HIDE DEF T
  <1>8. p \in S /\ Rank(S, p) = Rank(S, p - 1) + 1
    BY <1>0, <1>4, <1>6, <1>7, RankStep
  <1> QED
    BY <1>0, <1>4, <1>6, <1>7, <1>8

LEMMA InOrderFacts ==
  ASSUME NEW S \in SUBSET Nat, IsFiniteSet(S), NEW top \in Nat, \A q \in S : q <= top
  PROVE  /\ InOrder(S) \in Seq(S) /\ Len(InOrder(S)) = Cardinality(S)
         /\ Cardinality(S) \in Nat
         /\ \A n \in 1..Cardinality(S) : Rank(S, InOrder(S)[n] - 1) = n - 1
         /\ \A n \in 1..Cardinality(S), x \in Int : InOrder(S)[n] <= x <=> n <= Rank(S, x)
         /\ Increasing(InOrder(S))
  <1> DEFINE s == InOrder(S)
             card == Cardinality(S)
  <1>0. card \in Nat
    BY FS_CardinalityType
  <1>1. \A p \in S : {q \in S : q < p} = Upto(S, p - 1)
    <2>0. \A p, q \in S : q < p <=> q <= p - 1
      OBVIOUS
    <2> QED
      BY <2>0, Zenon DEF Upto
  <1>2. s = [n \in 1..card |-> CHOOSE p \in S : Rank(S, p - 1) = n - 1]
    <2>1. \A p \in S : Cardinality({q \in S : q < p}) = Rank(S, p - 1)
      BY <1>1, Zenon DEF Rank
    <2> DEFINE given(n) == CHOOSE p \in S : Cardinality({q \in S : q < p}) = n - 1
               ranked(n) == CHOOSE p \in S : Rank(S, p - 1) = n - 1
    <2>2. \A n : given(n) = ranked(n)
      BY <2>1
    <2>3. s = [n \in 1..card |-> given(n)]
      BY DEF InOrder
    <2>4. s = [n \in 1..card |-> ranked(n)]
      <3> HIDE DEF given, ranked, s
      <3> QED
        BY <2>2, <2>3
    <2> QED
      BY <2>4
  <1> HIDE DEF s
  <1>3. \A n \in 1..card : s[n] \in S /\ Rank(S, s[n] - 1) = n - 1
    BY <1>2, RankTaken
  <1>4. s \in Seq(S) /\ Len(s) = card
    <2>1. s \in [1..card -> S]
      BY <1>2, <1>3
    <2> QED
      BY <1>0, <2>1, LenProperties, SeqDef
  <1>5. ASSUME NEW n \in 1..card, NEW x \in Int PROVE s[n] <= x <=> n <= Rank(S, x)
    <2>0. s[n] \in S /\ \A p \in S : p \in Int
      BY <1>3
    <2>1. s[n] \in Int /\ s[n] - 1 \in Int /\ n \in Nat
      <3>1. s[n] \in Int
        BY <2>0
      <3> QED
        BY <1>0, <3>1
    <2>2. Rank(S, s[n] - 1) = n - 1 /\ Rank(S, s[n]) = n
      BY <1>3, <2>1, RankStep
    <2>3. Rank(S, x) \in Nat
      BY RankStep
    <2>4. CASE s[n] <= x
      <3>1. Rank(S, s[n]) <= Rank(S, x)
        BY <2>1, <2>4, RankGrows
      <3> QED
        BY <2>2, <2>4, <3>1
    <2>5. CASE ~(s[n] <= x)
      <3>1. x <= s[n] - 1
        BY <2>1, <2>5
      <3>2. Rank(S, x) <= Rank(S, s[n] - 1)
        BY <2>1, <3>1, RankGrows
      <3> QED
        BY <2>1, <2>2, <2>3, <2>5, <3>2
    <2> QED
      BY <2>4, <2>5
  <1>6. Increasing(s)
    <2> SUFFICES ASSUME NEW m \in DOMAIN s, NEW n \in DOMAIN s, m < n PROVE s[m] < s[n]
      BY DEF Increasing
    <2>1. m \in 1..card /\ n \in 1..card
      BY <1>4
    <2>0. s[m] \in S /\ s[n] \in S /\ \A p \in S : p \in Int
      BY <1>3, <2>1
    <2>2. s[m] \in Int /\ s[n] \in Int /\ m \in Nat /\ n \in Nat
      <3>1. s[m] \in Int /\ s[n] \in Int
        BY <2>0
      <3> QED
        BY <1>0, <2>1, <3>1
    <2>3. Rank(S, s[n] - 1) = n - 1
      BY <1>3, <2>1
    <2>4. m <= Rank(S, s[n] - 1)
      BY <2>2, <2>3
    <2>5. s[m] <= s[n] - 1
      <3>1. s[n] - 1 \in Int
        BY <2>2
      <3> QED
        BY <1>5, <2>1, <2>4, <3>1
    <2> QED
      BY <2>2, <2>5
  <1> QED
    BY <1>0, <1>3, <1>4, <1>5, <1>6 DEF s

\* Induction over the natural numbers, for a set.
LEMMA Ascent ==
  ASSUME NEW D, 0 \in D, \A n \in Nat : n \in D => n + 1 \in D
  PROVE  \A n \in Nat : n \in D
  <1> DEFINE S == {n \in Nat : n \notin D}
  <1> SUFFICES ASSUME S # {} PROVE FALSE
    OBVIOUS
  <1>1. S \subseteq Nat
    OBVIOUS
  <1>2. PICK p \in S : \A n \in S : p <= n
    <2> HIDE DEF S
    <2> QED
      BY <1>1, Smallest
  <1>3. p \in Nat /\ p # 0
    OBVIOUS
  <1>4. p - 1 \in Nat /\ p - 1 < p /\ (p - 1) + 1 = p
    BY <1>3
  <1>5. p - 1 \notin S
    BY <1>2, <1>4
  <1> QED
    BY <1>4, <1>5

--------------------------------------------------------------------------------
(***************************************************************************)
(* A set of characters is known by the points where one begins or ceases   *)
(* to be in it.                                                            *)
(***************************************************************************)
Edges(P, F) == {p \in P : (p \in F) # (p - 1 \in F)}

LEMMA EdgesFacts ==
  ASSUME NEW P \in SUBSET Nat, IsFiniteSet(P), NEW top \in Nat, \A p \in P : p <= top,
         NEW F, \A x \in Int : x < 0 \/ x >= top => x \notin F,
         \A x \in Int : (x \in F) # (x - 1 \in F) => x \in P
  PROVE  /\ Edges(P, F) \in SUBSET Nat /\ IsFiniteSet(Edges(P, F))
         /\ \A q \in Edges(P, F) : q <= top
         /\ \A x \in Int : x \in F <=> Odd(Rank(Edges(P, F), x))
         /\ Cardinality(Edges(P, F)) % 2 = 0
  <1> DEFINE S == Edges(P, F)
  <1>1. S \subseteq P
    BY DEF Edges
  <1>2. S \in SUBSET Nat /\ IsFiniteSet(S) /\ \A q \in S : q <= top
    BY <1>1, FS_Subset
  <1>3. \A x \in Int : x \in S <=> (x \in F) # (x - 1 \in F)
    BY DEF Edges
  <1> HIDE DEF S
  <1> DEFINE Right(x) == x \in F <=> Odd(Rank(S, x))
             D == {n \in Nat : Right(n)}
  <1>4. \A x \in Int : x < 0 => Right(x)
    <2>1. ~Odd(0)
      BY DEF Odd
    <2> QED
      BY <1>2, <2>1, RankEnds
  <1>5. ASSUME NEW x \in Int, Right(x - 1) PROVE Right(x)
    <2>1. /\ Rank(S, x) \in Nat /\ Rank(S, x - 1) \in Nat
          /\ x \in S => Rank(S, x) = Rank(S, x - 1) + 1
          /\ x \notin S => Rank(S, x) = Rank(S, x - 1)
      BY <1>2, RankStep
    <2>2. CASE x \in S
      <3>1. Odd(Rank(S, x)) <=> ~Odd(Rank(S, x - 1))
        BY <2>1, <2>2 DEF Odd
      <3> QED
        BY <1>3, <1>5, <2>2, <3>1
    <2>3. CASE x \notin S
      BY <1>3, <1>5, <2>1, <2>3
    <2> QED
      BY <2>2, <2>3
  <1>6. \A n \in Nat : n \in D
    <2>1. 0 \in D
      <3>1. Right(0 - 1)
        BY <1>4
      <3> QED
        BY <1>5, <3>1
    <2>2. ASSUME NEW n \in Nat, n \in D PROVE n + 1 \in D
      <3>1. Right(n + 1 - 1) /\ n + 1 \in Int
        BY <2>2
      <3>2. Right(n + 1)
        <4> HIDE DEF Right
        <4> QED
          BY <1>5, <3>1
      <3> QED
        BY <3>2
    <2> HIDE DEF D
    <2> QED
      BY <2>1, <2>2, Ascent
  <1>7. \A x \in Int : Right(x)
    <2> SUFFICES ASSUME NEW x \in Int PROVE Right(x)
      OBVIOUS
    <2>1. CASE x < 0
      BY <1>4, <2>1
    <2>2. CASE ~(x < 0)
      <3>1. x \in Nat
        BY <2>2
      <3> QED
        BY <1>6, <3>1
    <2> QED
      BY <2>1, <2>2
  <1>8. Cardinality(S) % 2 = 0
    <2>1. Rank(S, top) = Cardinality(S) /\ top \in Int
      BY <1>2, RankEnds
    <2>2. top \notin F
      BY <2>1
    <2>3. ~Odd(Cardinality(S))
      BY <1>7, <2>1, <2>2
    <2>4. Cardinality(S) \in Nat
      BY <1>2, FS_CardinalityType
    <2> QED
      BY <2>3, <2>4 DEF Odd
  <1> QED
    BY <1>2, <1>7, <1>8 DEF S

\* What is in the set that these points make.
LEMMA Toggles ==
  ASSUME NEW P \in SUBSET Nat, IsFiniteSet(P), NEW top \in Nat, \A p \in P : p <= top,
         NEW F, \A x \in Int : x < 0 \/ x >= top => x \notin F,
         \A x \in Int : (x \in F) # (x - 1 \in F) => x \in P,
         NEW s, s = InOrder(Edges(P, F))
  PROVE  /\ s \in Seq(Nat) /\ Len(s) \in Nat /\ Len(s) % 2 = 0
         /\ Increasing(s)
         /\ \A x \in Int : Contains(s, x) <=> x \in F
  <1> DEFINE S == Edges(P, F)
             card == Cardinality(S)
  <1>1. /\ S \in SUBSET Nat /\ IsFiniteSet(S) /\ \A q \in S : q <= top
        /\ \A x \in Int : x \in F <=> Odd(Rank(S, x))
        /\ card % 2 = 0
    BY EdgesFacts
  <1> HIDE DEF S
  <1>2. /\ s \in Seq(S) /\ Len(s) = card /\ card \in Nat
        /\ \A n \in 1..card, x \in Int : s[n] <= x <=> n <= Rank(S, x)
        /\ Increasing(s)
    BY <1>1, InOrderFacts DEF S
  <1> HIDE DEF card
  <1>3. s \in Seq(Nat) /\ \A n \in 1..card : s[n] \in Nat
    <2>1. \A n \in 1..Len(s) : s[n] \in S
      BY <1>2, ElementOfSeq
    <2>2. S \subseteq Nat
      BY <1>1
    <2>3. \A n \in 1..Len(s) : s[n] \in Nat
      BY <2>1, <2>2
    <2>4. s = [n \in 1..Len(s) |-> s[n]]
      BY <1>2
    <2> QED
      BY <1>2, <2>3, <2>4, SeqDef
  <1>4. ASSUME NEW x \in Int PROVE Contains(s, x) <=> Odd(Rank(S, x))
    <2> DEFINE k == Rank(S, x)
    <2>1. k \in Nat /\ k <= card
      BY <1>1, RankStep DEF card
    <2>2. \A n \in 1..card : s[n] <= x <=> n <= k
      BY <1>2
    <2>3. \A n \in 1..card : n < card => (x < s[n + 1] <=> k < n + 1)
      <3> SUFFICES ASSUME NEW n \in 1..card, n < card PROVE x < s[n + 1] <=> k < n + 1
        OBVIOUS
      <3>1. n + 1 \in 1..card
        BY <1>2
      <3>2. s[n + 1] \in Nat /\ (s[n + 1] <= x <=> n + 1 <= k)
        BY <1>3, <2>2, <3>1
      <3> HIDE DEF k
      <3> QED
        BY <1>2, <2>1, <3>2
    <2> HIDE DEF k
    <2>4. Contains(s, x) <=> \E n \in 1..card : Odd(n) /\ n <= k /\ (n < card => k < n + 1)
      BY <1>2, <2>2, <2>3 DEF Contains, In
    <2>5. ASSUME NEW n \in 1..card, Odd(n), n <= k, n < card => k < n + 1 PROVE n = k
      <3>1. n \in Nat /\ n # card
        BY <1>1, <1>2, <2>5 DEF Odd
      <3> QED
        BY <1>2, <2>1, <2>5, <3>1
    <2>6. ASSUME Odd(k) PROVE k \in 1..card /\ k <= k /\ k < k + 1
      BY <1>2, <2>1, <2>6 DEF Odd
    <2>7. Contains(s, x) <=> Odd(k)
      BY <2>4, <2>5, <2>6
    <2> QED
      BY <2>7 DEF k
  <1> QED
    BY <1>1, <1>2, <1>3, <1>4

\* The points of a set, whose intervals may touch or be empty.
PointSet(s) == s \in Seq(Nat) /\ Len(s) % 2 = 0 /\ Nondecreasing(s)

LEMMA RangesArePointSets ==
  ASSUME NEW s \in Ranges
  PROVE  PointSet(s)
  <1>1. s \in Seq(0..UINT32_MAX) /\ ~Odd(Len(s)) /\ Nondecreasing(s)
    BY DEF Ranges
  <1>2. Len(s) \in Nat /\ \A n \in 1..Len(s) : s[n] \in Nat
    <2>1. \A n \in 1..Len(s) : s[n] \in 0..UINT32_MAX
      BY <1>1, ElementOfSeq
    <2>2. \A x \in 0..UINT32_MAX : x \in Nat
      BY CodePointsAssumption
    <2> QED
      BY <1>1, <2>1, <2>2
  <1>3. s = [n \in 1..Len(s) |-> s[n]]
    BY <1>1
  <1>4. s \in Seq(Nat)
    BY <1>2, <1>3, SeqDef
  <1> QED
    BY <1>1, <1>2, <1>4 DEF PointSet, Odd

LEMMA PointFacts ==
  ASSUME NEW s, PointSet(s)
  PROVE  /\ PointsOf(s) \in SUBSET Nat /\ IsFiniteSet(PointsOf(s))
         /\ \E top \in Nat : /\ \A p \in PointsOf(s) : p <= top
                             /\ \A x \in Int : x >= top => ~Contains(s, x)
         /\ \A x \in Int : x < 0 => ~Contains(s, x)
         /\ \A x \in Int : (Contains(s, x) <=> Contains(s, x - 1)) \/ x \in PointsOf(s)
  <1> DEFINE L == Len(s)
  <1>1. /\ s \in Seq(Nat) /\ L \in Nat /\ DOMAIN s = 1..L
        /\ \A n \in 1..L : s[n] \in Nat
        /\ \A m, n \in 1..L : m < n => s[m] <= s[n]
        /\ L % 2 = 0
    BY ElementOfSeq DEF PointSet, Nondecreasing
  <1> HIDE DEF L
  <1>2. PointsOf(s) = {s[n] : n \in 1..L}
    BY <1>1 DEF PointsOf
  <1>3. PointsOf(s) \in SUBSET Nat
    BY <1>1, <1>2
  <1>5. \A x \in Int : Contains(s, x) <=> \E n \in 1..L : Odd(n) /\ s[n] <= x /\ x < s[n + 1]
    <2>1. \A n \in 1..L : Odd(n) => n < L
      BY <1>1 DEF Odd
    <2> QED
      BY <2>1 DEF Contains, In, L
  <1>6. \A n \in 1..L : Odd(n) => n + 1 \in 1..L
    BY <1>1 DEF Odd
  <1>7. \E top \in Nat : (\A p \in PointsOf(s) : p <= top) /\ (\A x \in Int : x >= top => ~Contains(s, x))
    <2> DEFINE top == IF L = 0 THEN 0 ELSE s[L]
    <2>1. top \in Nat /\ \A n \in 1..L : s[n] <= top
      <3>1. CASE L = 0
        BY <3>1
      <3>2. CASE L # 0
        <4>1. L \in 1..L /\ s[L] \in Nat
          BY <1>1, <3>2
        <4>2. ASSUME NEW n \in 1..L PROVE s[n] <= s[L]
          BY <1>1, <4>1
        <4> QED
          BY <3>2, <4>1, <4>2
      <3> QED
        BY <3>1, <3>2
    <2> HIDE DEF top
    <2>2. \A p \in PointsOf(s) : p <= top
      BY <1>2, <2>1
    <2>3. ASSUME NEW x \in Int, x >= top PROVE ~Contains(s, x)
      <3> SUFFICES ASSUME NEW n \in 1..L, Odd(n), x < s[n + 1] PROVE FALSE
        BY <1>5
      <3>1. s[n + 1] \in Nat /\ s[n + 1] <= top
        BY <1>1, <1>6, <2>1
      <3> QED
        BY <2>1, <2>3, <3>1
    <2> QED
      BY <2>1, <2>2, <2>3
  <1>4. IsFiniteSet(PointsOf(s))
    BY <1>3, <1>7, FS_BoundedSetOfNaturals
  <1>8. ASSUME NEW x \in Int, x < 0 PROVE ~Contains(s, x)
    <2> SUFFICES ASSUME NEW n \in 1..L, s[n] <= x PROVE FALSE
      BY <1>5
    <2>1. s[n] \in Nat
      BY <1>1
    <2> QED
      BY <1>8, <2>1
  <1>9. ASSUME NEW x \in Int, x \notin PointsOf(s) PROVE Contains(s, x) <=> Contains(s, x - 1)
    <2>1. \A n \in 1..L : s[n] \in Nat /\ s[n] # x
      BY <1>1, <1>2, <1>9
    <2>2. \A n \in 1..L : (s[n] <= x <=> s[n] <= x - 1) /\ (x < s[n] <=> x - 1 < s[n])
      BY <2>1
    <2>3. x - 1 \in Int
      OBVIOUS
    <2> QED
      BY <1>5, <1>6, <2>2, <2>3
  <1> QED
    BY <1>3, <1>4, <1>7, <1>8, <1>9

\* What an operation on two sets makes of them: F is the characters of its result.
LEMMA Operation ==
  ASSUME NEW s, PointSet(s), NEW t, PointSet(t), NEW F,
         \A x \in Int : x \in F => Contains(s, x) \/ Contains(t, x),
         \A x \in Int : /\ Contains(s, x) <=> Contains(s, x - 1)
                        /\ Contains(t, x) <=> Contains(t, x - 1)
                        => (x \in F <=> x - 1 \in F),
         NEW u, u = InOrder(Edges(PointsOf(s) \cup PointsOf(t), F))
  PROVE  /\ u \in Seq(Nat) /\ Len(u) \in Nat /\ Len(u) % 2 = 0
         /\ Increasing(u)
         /\ \A x \in Int : Contains(u, x) <=> x \in F
  <1> DEFINE P == PointsOf(s) \cup PointsOf(t)
  <1>1. P \in SUBSET Nat /\ IsFiniteSet(P)
    BY PointFacts, FS_Union
  <1>2. PICK a \in Nat : (\A p \in PointsOf(s) : p <= a) /\ (\A x \in Int : x >= a => ~Contains(s, x))
    BY PointFacts
  <1>3. PICK b \in Nat : (\A p \in PointsOf(t) : p <= b) /\ (\A x \in Int : x >= b => ~Contains(t, x))
    BY PointFacts
  <1> DEFINE top == a + b
  <1>4. top \in Nat /\ \A p \in P : p <= top
    <2>1. PointsOf(s) \in SUBSET Nat /\ PointsOf(t) \in SUBSET Nat
      BY PointFacts
    <2> QED
      BY <1>2, <1>3, <2>1
  <1>5. \A x \in Int : x < 0 \/ x >= top => x \notin F
    <2>1. \A x \in Int : x >= top => x >= a /\ x >= b
      OBVIOUS
    <2>2. \A x \in Int : x < 0 => ~Contains(s, x) /\ ~Contains(t, x)
      BY PointFacts
    <2> HIDE DEF top
    <2> QED
      BY <1>2, <1>3, <2>1, <2>2
  <1>6. \A x \in Int : (x \in F) # (x - 1 \in F) => x \in P
    BY PointFacts
  <1> HIDE DEF top, P
  <1>7. u = InOrder(Edges(P, F))
    BY DEF P
  <1> QED
    BY <1>1, <1>4, <1>5, <1>6, <1>7, Toggles

\* A CharRange that an operation has left.
CleanSet(u) == u \in Seq(Nat) /\ Len(u) \in Nat /\ Len(u) % 2 = 0 /\ Increasing(u)

LEMMA CleanIsPointSet ==
  ASSUME NEW u, CleanSet(u)
  PROVE  PointSet(u)
  <1>1. \A n \in 1..Len(u) : u[n] \in Nat
    BY ElementOfSeq DEF CleanSet
  <1> QED
    BY <1>1 DEF CleanSet, PointSet, Increasing, Nondecreasing

LEMMA InterFacts ==
  ASSUME NEW s, PointSet(s), NEW t, PointSet(t)
  PROVE  /\ CleanSet(Inter(s, t))
         /\ \A x \in Int : Contains(Inter(s, t), x) <=> Contains(s, x) /\ Contains(t, x)
  <1> DEFINE F == {x \in Int : Contains(s, x) /\ Contains(t, x)}
             P == PointsOf(s) \cup PointsOf(t)
  <1>1. P \subseteq Int
    BY PointFacts
  <1>2. Inter(s, t) = InOrder(Edges(P, F))
    <2>1. \A p \in P : p \in Int /\ p - 1 \in Int
      BY <1>1
    <2>2. \A p \in P : /\ p \in F <=> Contains(s, p) /\ Contains(t, p)
                       /\ p - 1 \in F <=> Contains(s, p - 1) /\ Contains(t, p - 1)
      BY <2>1
    <2>3. {p \in P : (Contains(s, p) /\ Contains(t, p)) # (Contains(s, p - 1) /\ Contains(t, p - 1))}
            = Edges(P, F)
      <3> HIDE DEF P, F
      <3> QED
        BY <2>2 DEF Edges
    <2> QED
      BY <2>3 DEF Inter
  <1>3. /\ \A x \in Int : x \in F => Contains(s, x) \/ Contains(t, x)
        /\ \A x \in Int : /\ Contains(s, x) <=> Contains(s, x - 1)
                          /\ Contains(t, x) <=> Contains(t, x - 1)
                          => (x \in F <=> x - 1 \in F)
    OBVIOUS
  <1>4. \A x \in Int : x \in F <=> Contains(s, x) /\ Contains(t, x)
    OBVIOUS
  <1> HIDE DEF F
  <1> DEFINE u == Inter(s, t)
  <1>5. /\ u \in Seq(Nat) /\ Len(u) \in Nat /\ Len(u) % 2 = 0
        /\ Increasing(u)
        /\ \A x \in Int : Contains(u, x) <=> x \in F
    BY <1>2, <1>3, Operation
  <1> QED
    BY <1>4, <1>5 DEF CleanSet

LEMMA MinusFacts ==
  ASSUME NEW s, PointSet(s), NEW t, PointSet(t)
  PROVE  /\ CleanSet(Minus(s, t))
         /\ \A x \in Int : Contains(Minus(s, t), x) <=> Contains(s, x) /\ ~Contains(t, x)
  <1> DEFINE F == {x \in Int : Contains(s, x) /\ ~Contains(t, x)}
             P == PointsOf(s) \cup PointsOf(t)
  <1>1. P \subseteq Int
    BY PointFacts
  <1>2. Minus(s, t) = InOrder(Edges(P, F))
    <2>1. \A p \in P : p \in Int /\ p - 1 \in Int
      BY <1>1
    <2>2. \A p \in P : /\ p \in F <=> Contains(s, p) /\ ~Contains(t, p)
                       /\ p - 1 \in F <=> Contains(s, p - 1) /\ ~Contains(t, p - 1)
      BY <2>1
    <2>3. {p \in P : (Contains(s, p) /\ ~Contains(t, p)) # (Contains(s, p - 1) /\ ~Contains(t, p - 1))}
            = Edges(P, F)
      <3> HIDE DEF P, F
      <3> QED
        BY <2>2 DEF Edges
    <2> QED
      BY <2>3 DEF Minus
  <1>3. /\ \A x \in Int : x \in F => Contains(s, x) \/ Contains(t, x)
        /\ \A x \in Int : /\ Contains(s, x) <=> Contains(s, x - 1)
                          /\ Contains(t, x) <=> Contains(t, x - 1)
                          => (x \in F <=> x - 1 \in F)
    OBVIOUS
  <1>4. \A x \in Int : x \in F <=> Contains(s, x) /\ ~Contains(t, x)
    OBVIOUS
  <1> HIDE DEF F
  <1> DEFINE u == Minus(s, t)
  <1>5. /\ u \in Seq(Nat) /\ Len(u) \in Nat /\ Len(u) % 2 = 0
        /\ Increasing(u)
        /\ \A x \in Int : Contains(u, x) <=> x \in F
    BY <1>2, <1>3, Operation
  <1> QED
    BY <1>4, <1>5 DEF CleanSet

LEMMA UnionFacts ==
  ASSUME NEW s, PointSet(s), NEW t, PointSet(t)
  PROVE  /\ CleanSet(Union(s, t))
         /\ \A x \in Int : Contains(Union(s, t), x) <=> Contains(s, x) \/ Contains(t, x)
  <1> DEFINE F == {x \in Int : Contains(s, x) \/ Contains(t, x)}
             P == PointsOf(s) \cup PointsOf(t)
  <1>1. P \subseteq Int
    BY PointFacts
  <1>2. Union(s, t) = InOrder(Edges(P, F))
    <2>1. \A p \in P : p \in Int /\ p - 1 \in Int
      BY <1>1
    <2>2. \A p \in P : /\ p \in F <=> Contains(s, p) \/ Contains(t, p)
                       /\ p - 1 \in F <=> Contains(s, p - 1) \/ Contains(t, p - 1)
      BY <2>1
    <2>3. {p \in P : (Contains(s, p) \/ Contains(t, p)) # (Contains(s, p - 1) \/ Contains(t, p - 1))}
            = Edges(P, F)
      <3> HIDE DEF P, F
      <3> QED
        BY <2>2 DEF Edges
    <2> QED
      BY <2>3 DEF Union
  <1>3. /\ \A x \in Int : x \in F => Contains(s, x) \/ Contains(t, x)
        /\ \A x \in Int : /\ Contains(s, x) <=> Contains(s, x - 1)
                          /\ Contains(t, x) <=> Contains(t, x - 1)
                          => (x \in F <=> x - 1 \in F)
    OBVIOUS
  <1>4. \A x \in Int : x \in F <=> Contains(s, x) \/ Contains(t, x)
    OBVIOUS
  <1> HIDE DEF F
  <1> DEFINE u == Union(s, t)
  <1>5. /\ u \in Seq(Nat) /\ Len(u) \in Nat /\ Len(u) % 2 = 0
        /\ Increasing(u)
        /\ \A x \in Int : Contains(u, x) <=> x \in F
    BY <1>2, <1>3, Operation
  <1> QED
    BY <1>4, <1>5 DEF CleanSet

--------------------------------------------------------------------------------
(***************************************************************************)
(* The conversion table: searching it by halving finds the entry a         *)
(* character is in.                                                        *)
(***************************************************************************)
Last == Len(case_conv_table)

LEMMA EntryType ==
  /\ Last \in Nat /\ DOMAIN case_conv_table = 1..Last
  /\ \A k \in 1..Last : Entry(k).code \in Nat /\ Entry(k).len \in Nat
  /\ \A k \in 2..Last : Entry(k - 1).code + Entry(k - 1).len <= Entry(k).code
  <1>1. Last \in Nat /\ DOMAIN case_conv_table = 1..Last
    BY TableAssumption DEF Last
  <1>2. ASSUME NEW k \in 1..Last PROVE Entry(k).code \in Nat /\ Entry(k).len \in Nat
    <2>1. case_conv_table[k] \in Nat \X Nat \X STRING \X Nat
      BY <1>1, TableAssumption, ElementOfSeq DEF Last
    <2> QED
      BY <2>1 DEF Entry
  <1> QED
    BY <1>1, <1>2, TableAssumption DEF Last

LEMMA EntriesApart ==
  ASSUME NEW m \in 1..Last
  PROVE  \A n \in Nat : m < n /\ n <= Last => Entry(m).code + Entry(m).len <= Entry(n).code
  <1> DEFINE D == {n \in Nat : m < n /\ n <= Last => Entry(m).code + Entry(m).len <= Entry(n).code}
  <1>1. m \in Nat /\ Last \in Nat
    BY EntryType
  <1>2. 0 \in D
    BY <1>1
  <1>3. ASSUME NEW n \in Nat, n \in D PROVE n + 1 \in D
    <2> SUFFICES ASSUME m < n + 1, n + 1 <= Last
                 PROVE  Entry(m).code + Entry(m).len <= Entry(n + 1).code
      OBVIOUS
    <2>1. n + 1 \in 2..Last /\ (n + 1) - 1 = n /\ n \in 1..Last
      BY <1>1
    <2>2. Entry(n).code + Entry(n).len <= Entry(n + 1).code
      BY <2>1, EntryType
    <2>3. /\ Entry(m).code \in Nat /\ Entry(m).len \in Nat /\ Entry(n).code \in Nat
          /\ Entry(n).len \in Nat /\ Entry(n + 1).code \in Nat
      <3>1. n + 1 \in 1..Last
        BY <2>1
      <3> QED
        BY <2>1, <3>1, EntryType
    <2>4. m < n => Entry(m).code + Entry(m).len <= Entry(n).code
      BY <1>3, <2>1
    <2>5. m < n \/ m = n
      BY <1>1
    <2> QED
      BY <2>2, <2>3, <2>4, <2>5
  <1> HIDE DEF D
  <1>4. \A n \in Nat : n \in D
    BY <1>2, <1>3, Ascent
  <1> QED
    BY <1>4 DEF D

\* The search, as a function of the part of the table that is left.
PartsLeft == (1..(Last + 1)) \X (0..Last)

Halving(x, f) ==
  f = [part \in PartsLeft |->
         LET lo == part[1]
             hi == part[2]
             mid == (lo + hi) \div 2
         IN  IF lo > hi THEN {}
             ELSE IF x < Entry(mid).code THEN f[<<lo, mid - 1>>]
             ELSE IF InEntry(x, mid) THEN {mid}
             ELSE f[<<mid + 1, hi>>]]

Within(x, lo, hi) == {k \in lo..hi : InEntry(x, k)}

\* One entry is compared, and with it all before it or all after it.
LEMMA Halves ==
  ASSUME NEW x \in Int, NEW lo \in 1..(Last + 1), NEW hi \in 0..Last, lo <= hi,
         NEW mid, mid = (lo + hi) \div 2
  PROVE  /\ mid \in lo..hi /\ <<lo, mid - 1>> \in PartsLeft /\ <<mid + 1, hi>> \in PartsLeft
         /\ x < Entry(mid).code => Within(x, lo, hi) = Within(x, lo, mid - 1)
         /\ InEntry(x, mid) => Within(x, lo, hi) = {mid}
         /\ ~(x < Entry(mid).code) /\ ~InEntry(x, mid) => Within(x, lo, hi) = Within(x, mid + 1, hi)
  <1>0. Last \in Nat /\ lo \in Nat /\ hi \in Nat
    BY EntryType
  <1>1. mid \in lo..hi /\ mid \in Nat
    BY <1>0
  <1>2. <<lo, mid - 1>> \in PartsLeft /\ <<mid + 1, hi>> \in PartsLeft
    BY <1>0, <1>1 DEF PartsLeft
  <1>3. \A k \in lo..hi : Entry(k).code \in Nat /\ Entry(k).len \in Nat
    <2>1. \A k \in lo..hi : k \in 1..Last
      BY <1>0
    <2> QED
      BY <2>1, EntryType
  <1>4. \A m, n \in lo..hi : m < n => Entry(m).code + Entry(m).len <= Entry(n).code
    <2>1. \A m \in lo..hi : m \in 1..Last /\ m \in Nat
      BY <1>0
    <2>2. \A n \in lo..hi : n <= Last
      BY <1>0
    <2> QED
      BY <2>1, <2>2, EntriesApart
  <1>5. ASSUME x < Entry(mid).code PROVE \A k \in lo..hi : InEntry(x, k) => k <= mid - 1
    <2> SUFFICES ASSUME NEW k \in lo..hi, InEntry(x, k), ~(k <= mid - 1) PROVE FALSE
      OBVIOUS
    <2>1. k = mid \/ mid < k
      BY <1>0, <1>1
    <2>2. Entry(k).code <= x
      BY DEF InEntry
    <2> QED
      BY <1>1, <1>3, <1>4, <1>5, <2>1, <2>2
  <1>6. ASSUME ~(x < Entry(mid).code) PROVE \A k \in lo..hi : InEntry(x, k) => k >= mid
    <2> SUFFICES ASSUME NEW k \in lo..hi, InEntry(x, k), k < mid PROVE FALSE
      BY <1>0, <1>1
    <2>1. x < Entry(k).code + Entry(k).len
      BY DEF InEntry
    <2>2. Entry(k).code + Entry(k).len <= Entry(mid).code
      BY <1>1, <1>4
    <2> QED
      BY <1>1, <1>3, <1>6, <2>1, <2>2
  <1>7. ASSUME InEntry(x, mid) PROVE \A k \in lo..hi : InEntry(x, k) => k = mid
    <2>1. ~(x < Entry(mid).code) /\ x < Entry(mid).code + Entry(mid).len
      BY <1>1, <1>3, <1>7 DEF InEntry
    <2> SUFFICES ASSUME NEW k \in lo..hi, InEntry(x, k), mid < k PROVE FALSE
      BY <1>0, <1>1, <1>6, <2>1
    <2>2. Entry(k).code <= x
      BY DEF InEntry
    <2>3. Entry(mid).code + Entry(mid).len <= Entry(k).code
      BY <1>1, <1>4
    <2> QED
      BY <1>1, <1>3, <2>1, <2>2, <2>3
  <1>8. ASSUME x < Entry(mid).code PROVE Within(x, lo, hi) = Within(x, lo, mid - 1)
    <2>1. \A k : k \in lo..hi /\ InEntry(x, k) <=> k \in lo..(mid - 1) /\ InEntry(x, k)
      BY <1>0, <1>1, <1>5, <1>8
    <2> QED
      BY <2>1 DEF Within
  <1>9. ASSUME InEntry(x, mid) PROVE Within(x, lo, hi) = {mid}
    BY <1>1, <1>7, <1>9 DEF Within
  <1>10. ASSUME ~(x < Entry(mid).code), ~InEntry(x, mid) PROVE Within(x, lo, hi) = Within(x, mid + 1, hi)
    <2>1. \A k : k \in lo..hi /\ InEntry(x, k) <=> k \in (mid + 1)..hi /\ InEntry(x, k)
      <3>1. ASSUME NEW k \in lo..hi, InEntry(x, k) PROVE k \in (mid + 1)..hi
        <4>1. k >= mid /\ k # mid
          BY <1>6, <1>10, <3>1
        <4> QED
          BY <1>0, <1>1, <4>1
      <3>2. \A k \in (mid + 1)..hi : k \in lo..hi
        BY <1>0, <1>1
      <3> QED
        BY <3>1, <3>2
    <2> QED
      BY <2>1 DEF Within
  <1> QED
    BY <1>1, <1>2, <1>8, <1>9, <1>10

LEMMA HalvingHolds ==
  ASSUME NEW x \in Int
  PROVE  \E f : Halving(x, f)
  <1> DEFINE f == [part \in PartsLeft |-> Within(x, part[1], part[2])]
  <1>1. ASSUME NEW part \in PartsLeft
        PROVE  f[part] = LET lo == part[1]
                             hi == part[2]
                             mid == (lo + hi) \div 2
                         IN  IF lo > hi THEN {}
                             ELSE IF x < Entry(mid).code THEN f[<<lo, mid - 1>>]
                             ELSE IF InEntry(x, mid) THEN {mid}
                             ELSE f[<<mid + 1, hi>>]
    <2> DEFINE lo == part[1]
               hi == part[2]
               mid == (lo + hi) \div 2
    <2>1. lo \in 1..(Last + 1) /\ hi \in 0..Last
      BY DEF PartsLeft
    <2>2. f[part] = Within(x, lo, hi)
      OBVIOUS
    <2>3. CASE lo > hi
      <3>1. Within(x, lo, hi) = {}
        BY <2>1, <2>3, EntryType DEF Within
      <3> QED
        BY <2>2, <2>3, <3>1
    <2>4. CASE ~(lo > hi)
      <3>1. lo <= hi
        BY <2>1, <2>4, EntryType
      <3> HIDE DEF lo, hi, mid
      <3>2. mid = (lo + hi) \div 2
        BY DEF mid
      <3>3. /\ <<lo, mid - 1>> \in PartsLeft /\ <<mid + 1, hi>> \in PartsLeft
            /\ x < Entry(mid).code => Within(x, lo, hi) = Within(x, lo, mid - 1)
            /\ InEntry(x, mid) => Within(x, lo, hi) = {mid}
            /\ ~(x < Entry(mid).code) /\ ~InEntry(x, mid) => Within(x, lo, hi) = Within(x, mid + 1, hi)
        BY <2>1, <3>1, <3>2, Halves
      <3>4. f[<<lo, mid - 1>>] = Within(x, lo, mid - 1) /\ f[<<mid + 1, hi>>] = Within(x, mid + 1, hi)
        BY <3>3
      <3> HIDE DEF f
      <3> QED
        BY <2>2, <2>4, <3>3, <3>4 DEF lo, hi, mid
    <2> QED
      BY <2>3, <2>4
  <1>2. f = [part \in PartsLeft |-> f[part]]
    OBVIOUS
  <1> HIDE DEF f
  <1>3. Halving(x, f)
    BY <1>1, <1>2 DEF Halving
  <1> QED
    BY <1>3

LEMMA HalvingFinds ==
  ASSUME NEW x \in Int, NEW f, Halving(x, f)
  PROVE  \A lo \in 1..(Last + 1), hi \in 0..Last : f[<<lo, hi>>] = Within(x, lo, hi)
  <1> DEFINE D == {n \in Nat : \A lo \in 1..(Last + 1), hi \in 0..Last :
                      hi - lo < n => f[<<lo, hi>>] = Within(x, lo, hi)}
  <1>0. Last \in Nat
    BY EntryType
  <1>1. ASSUME NEW lo \in 1..(Last + 1), NEW hi \in 0..Last
        PROVE  /\ <<lo, hi>> \in PartsLeft
               /\ f[<<lo, hi>>] = LET mid == (lo + hi) \div 2
                                  IN  IF lo > hi THEN {}
                                      ELSE IF x < Entry(mid).code THEN f[<<lo, mid - 1>>]
                                      ELSE IF InEntry(x, mid) THEN {mid}
                                      ELSE f[<<mid + 1, hi>>]
    BY DEF Halving, PartsLeft
  <1>2. ASSUME NEW lo \in 1..(Last + 1), NEW hi \in 0..Last, lo > hi
        PROVE  f[<<lo, hi>>] = Within(x, lo, hi)
    <2>1. Within(x, lo, hi) = {}
      BY <1>0, <1>2 DEF Within
    <2> QED
      BY <1>1, <1>2, <2>1
  <1>3. 0 \in D
    <2>1. \A lo \in 1..(Last + 1), hi \in 0..Last : hi - lo < 0 => lo > hi
      BY <1>0
    <2> QED
      BY <1>2, <2>1
  <1>4. ASSUME NEW n \in Nat, n \in D PROVE n + 1 \in D
    <2> SUFFICES ASSUME NEW lo \in 1..(Last + 1), NEW hi \in 0..Last, hi - lo < n + 1
                 PROVE  f[<<lo, hi>>] = Within(x, lo, hi)
      OBVIOUS
    <2>1. CASE lo > hi
      BY <1>2, <2>1
    <2>2. CASE ~(lo > hi)
      <3> DEFINE mid == (lo + hi) \div 2
      <3>1. lo \in Nat /\ hi \in Nat /\ lo <= hi
        BY <1>0, <2>2
      <3>2. /\ mid \in lo..hi /\ <<lo, mid - 1>> \in PartsLeft /\ <<mid + 1, hi>> \in PartsLeft
            /\ x < Entry(mid).code => Within(x, lo, hi) = Within(x, lo, mid - 1)
            /\ InEntry(x, mid) => Within(x, lo, hi) = {mid}
            /\ ~(x < Entry(mid).code) /\ ~InEntry(x, mid) => Within(x, lo, hi) = Within(x, mid + 1, hi)
        BY <3>1, Halves
      <3>3. f[<<lo, hi>>] = IF x < Entry(mid).code THEN f[<<lo, mid - 1>>]
                            ELSE IF InEntry(x, mid) THEN {mid}
                            ELSE f[<<mid + 1, hi>>]
        BY <1>1, <2>2
      <3> HIDE DEF mid
      <3>4. mid - 1 \in 0..Last /\ mid + 1 \in 1..(Last + 1)
        BY <1>0, <3>1, <3>2
      <3>5. (mid - 1) - lo < n /\ hi - (mid + 1) < n
        BY <3>1, <3>2
      <3>6. f[<<lo, mid - 1>>] = Within(x, lo, mid - 1) /\ f[<<mid + 1, hi>>] = Within(x, mid + 1, hi)
        BY <1>4, <3>4, <3>5
      <3> QED
        BY <3>2, <3>3, <3>6
    <2> QED
      BY <2>1, <2>2
  <1>5. \A n \in Nat : n \in D
    <2> HIDE DEF D
    <2> QED
      BY <1>3, <1>4, Ascent
  <1> SUFFICES ASSUME NEW lo \in 1..(Last + 1), NEW hi \in 0..Last
               PROVE  f[<<lo, hi>>] = Within(x, lo, hi)
    OBVIOUS
  <1>6. hi \in Nat /\ hi \in D /\ hi - lo < hi
    BY <1>0, <1>5
  <1> QED
    BY <1>6

Search(x) == CHOOSE f : Halving(x, f)

\* A character is in one entry at most, and that is found.
LEMMA EntryOfIs ==
  ASSUME NEW x \in Int
  PROVE  /\ EntryOf(x) = {k \in 1..Last : InEntry(x, k)}
         /\ \A k \in 1..Last : InEntry(x, k) => EntryOf(x) = {k}
  <1>1. EntryOf(x) = Search(x)[<<1, Last>>]
    BY DEF EntryOf, Search, Halving, Last, PartsLeft
  <1>2. Halving(x, Search(x))
    BY HalvingHolds DEF Search
  <1>3. Last \in Nat /\ 1 \in 1..(Last + 1) /\ Last \in 0..Last
    BY EntryType
  <1>4. EntryOf(x) = Within(x, 1, Last)
    BY <1>1, <1>2, <1>3, HalvingFinds
  <1>5. ASSUME NEW k \in 1..Last, InEntry(x, k) PROVE EntryOf(x) = {k}
    <2> SUFFICES ASSUME NEW m \in 1..Last, InEntry(x, m), m # k PROVE FALSE
      BY <1>4, <1>5 DEF Within
    <2>1. /\ m \in Nat /\ k \in Nat /\ m <= Last /\ k <= Last
          /\ Entry(k).code \in Nat /\ Entry(k).len \in Nat
          /\ Entry(m).code \in Nat /\ Entry(m).len \in Nat
      BY <1>3, EntryType
    <2>2. /\ m < k => Entry(m).code + Entry(m).len <= Entry(k).code
          /\ k < m => Entry(k).code + Entry(k).len <= Entry(m).code
      BY <2>1, EntriesApart
    <2> QED
      BY <1>5, <2>1, <2>2 DEF InEntry
  <1> QED
    BY <1>4, <1>5 DEF Within

--------------------------------------------------------------------------------
(***************************************************************************)
(* The canonical form of a character.                                      *)
(***************************************************************************)
LEMMA ByTable ==
  ASSUME NEW x \in Nat, NEW u \in BOOLEAN
  PROVE  lre_canonicalize(x, u) =
           IF EntryOf(x) = {} THEN x
           ELSE lre_case_folding_entry(x, CHOOSE k \in EntryOf(x) : TRUE, u)
  <1>1. CASE x < 128
    <2>1. x \in 0..127
      BY <1>1
    <2> QED
      BY <2>1, FoldingAssumption
  <1>2. CASE ~(x < 128)
    BY <1>2 DEF lre_canonicalize, Ascii
  <1> QED
    BY <1>1, <1>2

LEMMA FoldingFacts ==
  ASSUME NEW x \in Nat, NEW u \in BOOLEAN
  PROVE  /\ Contains(cr_mask[u], x) => \E k \in 1..Last : InEntry(x, k)
         /\ \A k \in 1..Last : InEntry(x, k) =>
              /\ lre_canonicalize(x, u) = lre_case_folding_entry(x, k, u)
              /\ lre_canonicalize(x, u) \in Nat
         /\ ~Contains(cr_mask[u], x) => lre_canonicalize(x, u) = x
  <1> DEFINE mask == cr_mask[u]
  <1>0. Last \in Nat /\ DOMAIN case_conv_table = 1..Last
    BY EntryType
  <1>1. mask \in Ranges
    BY FoldingAssumption
  <1>2. \A n \in DOMAIN mask :
          Odd(n) => \E k \in 1..Last :
                      /\ Entry(k).code <= mask[n]
                      /\ mask[n + 1] <= Entry(k).code + Entry(k).len
    BY <1>0, FoldingAssumption
  <1> HIDE DEF mask
  <1>3. ASSUME NEW k \in 1..Last, InEntry(x, k)
        PROVE  /\ lre_canonicalize(x, u) = lre_case_folding_entry(x, k, u)
               /\ lre_canonicalize(x, u) \in Nat
               /\ ~Contains(mask, x) => lre_canonicalize(x, u) = x
    <2>1. EntryOf(x) = {k}
      BY <1>3, EntryOfIs
    <2>2. lre_canonicalize(x, u) = lre_case_folding_entry(x, k, u)
      <3>1. (CHOOSE m \in EntryOf(x) : TRUE) = k
        BY <2>1
      <3> QED
        BY <2>1, <3>1, ByTable
    <2>3. x \in Entry(k).code..(Entry(k).code + Entry(k).len - 1)
      BY <1>3, EntryType DEF InEntry
    <2>4. /\ lre_case_folding_entry(x, k, u) \in Nat
          /\ lre_case_folding_entry(x, k, u) = x \/ Contains(mask, x)
      BY <1>0, <2>3, FoldingAssumption DEF mask
    <2> QED
      BY <2>2, <2>4
  <1>4. ASSUME Contains(mask, x) PROVE \E k \in 1..Last : InEntry(x, k)
    <2>0. /\ mask \in Seq(Nat) /\ Len(mask) \in Nat /\ Len(mask) % 2 = 0
          /\ \A n \in 1..Len(mask) : mask[n] \in Nat
      BY <1>1, RangesArePointSets, ElementOfSeq DEF PointSet
    <2>1. PICK n \in 1..Len(mask) : Odd(n) /\ mask[n] <= x /\ (n < Len(mask) => x < mask[n + 1])
      BY <1>4 DEF Contains, In
    <2>2. n < Len(mask) /\ n + 1 \in 1..Len(mask) /\ n \in DOMAIN mask
      BY <2>0, <2>1 DEF Odd
    <2>3. PICK k \in 1..Last : /\ Entry(k).code <= mask[n]
                               /\ mask[n + 1] <= Entry(k).code + Entry(k).len
      BY <1>2, <2>1, <2>2
    <2>4. mask[n] \in Nat /\ mask[n + 1] \in Nat /\ Entry(k).code \in Nat /\ Entry(k).len \in Nat
      BY <2>0, <2>2, EntryType
    <2>5. InEntry(x, k)
      BY <2>1, <2>2, <2>3, <2>4 DEF InEntry
    <2> QED
      BY <2>5
  <1>5. ASSUME ~Contains(mask, x) PROVE lre_canonicalize(x, u) = x
    <2>1. CASE \E k \in 1..Last : InEntry(x, k)
      BY <1>3, <1>5, <2>1
    <2>2. CASE ~\E k \in 1..Last : InEntry(x, k)
      <3>1. EntryOf(x) = {}
        BY <2>2, EntryOfIs
      <3> QED
        BY <3>1, ByTable
    <2> QED
      BY <2>1, <2>2
  <1> QED
    BY <1>3, <1>4, <1>5 DEF mask

\* The characters of a set.
LEMMA ElementsAre ==
  ASSUME NEW s, PointSet(s)
  PROVE  Elements(s) = {x \in Nat : Contains(s, x)}
  <1> DEFINE L == Len(s)
  <1>1. /\ L \in Nat /\ DOMAIN s = 1..L /\ L % 2 = 0
        /\ \A n \in 1..L : s[n] \in Nat
    BY ElementOfSeq DEF PointSet
  <1>2. \A n \in 1..L : Odd(n) => n < L /\ n + 1 \in 1..L
    BY <1>1 DEF Odd
  <1>3. ASSUME NEW x \in Elements(s) PROVE x \in Nat /\ Contains(s, x)
    <2>1. PICK n \in 1..L : Odd(n) /\ x \in s[n]..(s[n + 1] - 1)
      BY <1>1 DEF Elements
    <2>2. s[n] \in Nat /\ s[n + 1] \in Nat
      BY <1>1, <1>2, <2>1
    <2>3. x \in Nat /\ s[n] <= x /\ x < s[n + 1]
      BY <2>1, <2>2
    <2> QED
      BY <2>1, <2>3 DEF Contains, In
  <1>4. ASSUME NEW x \in Nat, Contains(s, x) PROVE x \in Elements(s)
    <2>1. PICK n \in 1..L : Odd(n) /\ s[n] <= x /\ (n < L => x < s[n + 1])
      BY <1>4 DEF Contains, In
    <2>2. s[n] \in Nat /\ s[n + 1] \in Nat /\ x < s[n + 1]
      BY <1>1, <1>2, <2>1
    <2>3. x \in s[n]..(s[n + 1] - 1)
      BY <2>1, <2>2
    <2> QED
      BY <1>1, <2>1, <2>3 DEF Elements
  <1> QED
    BY <1>3, <1>4

--------------------------------------------------------------------------------
(***************************************************************************)
(* Intervals, and what makes those that overlap one.                       *)
(***************************************************************************)
Proper(s) == \A n \in 1..Len(s) : s[n][1] < s[n][2]
Separate(s) == \A m, n \in 1..Len(s) : m < n => s[m][2] < s[n][1]
Inside(s, n, x) == \E m \in 1..n : s[m][1] <= x /\ x < s[m][2]

Extended(s, n, out) ==
  LET last == out[Len(out)]
  IN  IF n > 1 /\ s[n][1] <= last[2]
        THEN [out EXCEPT ![Len(out)] = <<last[1], Later(last[2], s[n][2])>>]
        ELSE Append(out, s[n])

Unions(s, n, f) == f = [m \in 0..n |-> IF m = 0 THEN <<>> ELSE Extended(s, m, f[m - 1])]

LEMMA UnionsExist ==
  ASSUME NEW s, NEW n \in Nat
  PROVE  \E f : Unions(s, n, f)
  <1> DEFINE D == {m \in Nat : \E f : Unions(s, m, f)}
  <1>1. 0 \in D
    <2> DEFINE f == [m \in 0..0 |-> <<>>]
    <2>1. Unions(s, 0, f)
      BY DEF Unions
    <2> QED
      BY <2>1
  <1>2. ASSUME NEW m \in Nat, m \in D PROVE m + 1 \in D
    <2>1. PICK f : Unions(s, m, f)
      BY <1>2
    <2> DEFINE g == [k \in 0..(m + 1) |-> IF k = m + 1 THEN Extended(s, m + 1, f[m]) ELSE f[k]]
    <2>2. \A k \in 0..m : g[k] = f[k] /\ f[k] = IF k = 0 THEN <<>> ELSE Extended(s, k, f[k - 1])
      BY <2>1 DEF Unions
    <2>3. g[m + 1] = Extended(s, m + 1, f[m])
      OBVIOUS
    <2>4. g = [k \in 0..(m + 1) |-> g[k]]
      OBVIOUS
    <2> HIDE DEF g
    <2>5. \A k \in 0..(m + 1) : g[k] = IF k = 0 THEN <<>> ELSE Extended(s, k, g[k - 1])
      <3> SUFFICES ASSUME NEW k \in 0..(m + 1)
                   PROVE  g[k] = IF k = 0 THEN <<>> ELSE Extended(s, k, g[k - 1])
        OBVIOUS
      <3>1. CASE k = m + 1
        <4>1. k # 0 /\ k - 1 = m /\ m \in 0..m
          BY <3>1
        <4>2. g[m] = f[m]
          BY <2>2, <4>1
        <4> QED
          BY <2>3, <3>1, <4>1, <4>2
      <3>2. CASE k # m + 1
        <4>1. k \in 0..m /\ (k # 0 => k - 1 \in 0..m)
          BY <3>2
        <4> QED
          BY <2>2, <4>1
      <3> QED
        BY <3>1, <3>2
    <2>6. Unions(s, m + 1, g)
      BY <2>4, <2>5 DEF Unions
    <2> QED
      BY <2>6
  <1>3. \A m \in Nat : m \in D
    <2> HIDE DEF D
    <2> QED
      BY <1>1, <1>2, Ascent
  <1> QED
    BY <1>3

\* The intervals so far, after n of those given.
United(s, n, out) ==
  /\ out \in Seq(Elem) /\ Proper(out) /\ Separate(out)
  /\ \A x \in Int : Inside(out, Len(out), x) <=> Inside(s, n, x)
  /\ n > 0 => Len(out) > 0 /\ out[Len(out)][1] <= s[n][1]

LEMMA Intervals ==
  ASSUME NEW s \in Seq(Elem), NEW n \in 1..Len(s)
  PROVE  s[n][1] \in Nat /\ s[n][2] \in Nat /\ s[n] = <<s[n][1], s[n][2]>>
  BY ElementOfSeq DEF Elem

LEMMA InsideNext ==
  ASSUME NEW s, NEW n \in Nat, NEW x
  PROVE  Inside(s, n + 1, x) <=> Inside(s, n, x) \/ (s[n + 1][1] <= x /\ x < s[n + 1][2])
  <1>1. \A m : m \in 1..(n + 1) <=> m \in 1..n \/ m = n + 1
    OBVIOUS
  <1> QED
    BY <1>1 DEF Inside

LEMMA UnitedNext ==
  ASSUME NEW s \in Seq(Elem), Proper(s), NEW n \in Nat, n + 1 <= Len(s),
         n > 0 => s[n][1] <= s[n + 1][1],
         NEW out, United(s, n, out)
  PROVE  United(s, n + 1, Extended(s, n + 1, out))
  <1> DEFINE L == Len(out)
             last == out[L]
             e == s[n + 1]
  <1>0. n + 1 \in 1..Len(s) /\ (n > 0 => n \in 1..Len(s))
    OBVIOUS
  <1>1. /\ e[1] \in Nat /\ e[2] \in Nat /\ e[1] < e[2] /\ e \in Elem
        /\ n > 0 => s[n][1] \in Nat
    BY <1>0, Intervals DEF Proper, Elem
  <1>2. /\ out \in Seq(Elem) /\ L \in Nat
        /\ \A m \in 1..L : out[m][1] \in Nat /\ out[m][2] \in Nat /\ out[m][1] < out[m][2]
        /\ \A m, k \in 1..L : m < k => out[m][2] < out[k][1]
        /\ \A x \in Int : Inside(out, L, x) <=> Inside(s, n, x)
        /\ n > 0 => L > 0 /\ last[1] <= s[n][1]
    BY Intervals DEF United, Proper, Separate
  <1>3. CASE n + 1 > 1 /\ e[1] <= last[2]
    <2> DEFINE top == Later(last[2], e[2])
               w == Extended(s, n + 1, out)
    <2>1. n > 0 /\ L > 0 /\ L \in 1..L
      BY <1>2, <1>3
    <2>2. last[1] \in Nat /\ last[2] \in Nat /\ last[1] < last[2] /\ last[1] <= e[1]
      BY <1>1, <1>2, <2>1
    <2>3. top \in Nat /\ last[2] <= top /\ e[2] <= top /\ (top = last[2] \/ top = e[2]) /\ last[1] < top
      BY <1>1, <2>2 DEF Later
    <2>4. w = [out EXCEPT ![L] = <<last[1], top>>]
      BY <1>3 DEF Extended
    <2> HIDE DEF top, w
    <2>5. w \in Seq(Elem) /\ Len(w) = L
      <3>1. <<last[1], top>> \in Elem
        BY <2>2, <2>3 DEF Elem
      <3>2. out \in Seq(Elem) /\ L \in 1..Len(out)
        BY <1>2, <2>1
      <3> HIDE DEF L
      <3>3. w \in Seq(Elem) /\ Len(w) = Len(out)
        BY <2>4, <3>1, <3>2, ExceptSeq
      <3> QED
        BY <3>3 DEF L
    <2>6. w[L] = <<last[1], top>> /\ \A m \in 1..L : m # L => w[m] = out[m]
      BY <1>2, <2>1, <2>4
    <2>7. \A m \in 1..L : w[m][1] = out[m][1]
      BY <2>6
    <2>8. Proper(w)
      <3> SUFFICES ASSUME NEW m \in 1..L PROVE w[m][1] < w[m][2]
        BY <2>5 DEF Proper
      <3>1. CASE m = L
        BY <2>3, <2>6, <3>1
      <3>2. CASE m # L
        BY <1>2, <2>6, <3>2
      <3> QED
        BY <3>1, <3>2
    <2>9. Separate(w)
      <3> SUFFICES ASSUME NEW m \in 1..L, NEW k \in 1..L, m < k PROVE w[m][2] < w[k][1]
        BY <2>5 DEF Separate
      <3>1. m # L
        BY <1>2
      <3> QED
        BY <1>2, <2>6, <2>7, <3>1
    <2>10. ASSUME NEW x \in Int PROVE Inside(w, L, x) <=> Inside(s, n + 1, x)
      <3>1. PICK j \in Nat : L = j + 1
        <4>1. L - 1 \in Nat /\ L = (L - 1) + 1
          BY <1>2, <2>1
        <4> QED
          BY <4>1
      <3>2. Inside(w, L, x) <=> Inside(w, j, x) \/ (last[1] <= x /\ x < top)
        <4> HIDE DEF L, last
        <4>1. w[j + 1][1] = last[1] /\ w[j + 1][2] = top
          BY <2>6, <3>1
        <4>2. Inside(w, j + 1, x) <=> Inside(w, j, x) \/ (w[j + 1][1] <= x /\ x < w[j + 1][2])
          BY InsideNext
        <4> QED
          BY <3>1, <4>1, <4>2
      <3>3. Inside(out, L, x) <=> Inside(out, j, x) \/ (last[1] <= x /\ x < last[2])
        BY <3>1, InsideNext
      <3>4. Inside(w, j, x) <=> Inside(out, j, x)
        <4>1. \A m \in 1..j : w[m] = out[m]
          BY <2>6, <3>1
        <4> QED
          BY <4>1 DEF Inside
      <3>5. Inside(s, n + 1, x) <=> Inside(s, n, x) \/ (e[1] <= x /\ x < e[2])
        BY InsideNext
      <3>6. (last[1] <= x /\ x < top) <=> (last[1] <= x /\ x < last[2]) \/ (e[1] <= x /\ x < e[2])
        BY <1>1, <1>3, <2>2, <2>3
      <3> HIDE DEF last, e, L
      <3> QED
        BY <1>2, <3>2, <3>3, <3>4, <3>5, <3>6
    <2>11. Len(w) > 0 /\ w[Len(w)][1] <= s[n + 1][1]
      BY <2>1, <2>2, <2>5, <2>6
    <2> QED
      BY <2>5, <2>8, <2>9, <2>10, <2>11 DEF United, w
  <1>4. CASE ~(n + 1 > 1 /\ e[1] <= last[2])
    <2> DEFINE w == Extended(s, n + 1, out)
    <2>1. w = Append(out, e)
      BY <1>4 DEF Extended
    <2>2. w \in Seq(Elem) /\ Len(w) = L + 1 /\ w[L + 1] = e /\ \A m \in 1..L : w[m] = out[m]
      <3>1. out \in Seq(Elem) /\ e \in Elem
        BY <1>1, <1>2
      <3> HIDE DEF e, w
      <3> QED
        BY <2>1, <3>1, AppendProperties
    <2> HIDE DEF w
    <2>3. Proper(w)
      <3> SUFFICES ASSUME NEW m \in 1..(L + 1) PROVE w[m][1] < w[m][2]
        BY <2>2 DEF Proper
      <3>1. m \in 1..L \/ m = L + 1
        BY <1>2
      <3> QED
        BY <1>1, <1>2, <2>2, <3>1
    <2>4. ASSUME NEW m \in 1..L PROVE out[m][2] < e[1]
      <3>1. n > 0
        <4>1. CASE n = 0
          <5>1. ~Inside(s, n, out[m][1])
            BY <4>1 DEF Inside
          <5>2. out[m][1] \in Int /\ Inside(out, L, out[m][1])
            BY <1>2 DEF Inside
          <5> QED
            BY <1>2, <5>1, <5>2
        <4> QED
          BY <4>1
      <3>2. last[2] < e[1] /\ L \in 1..L
        <4>1. L \in 1..L
          BY <1>2
        <4>2. last[2] \in Nat
          BY <1>2, <4>1
        <4> QED
          BY <1>1, <1>4, <3>1, <4>1, <4>2
      <3>3. last[1] \in Nat /\ last[2] \in Nat /\ last[1] < last[2] /\ out[m][2] \in Nat
        BY <1>2, <3>2
      <3>4. m = L \/ m < L
        BY <1>2
      <3>5. m < L => out[m][2] < last[1]
        BY <1>2, <3>2
      <3> QED
        BY <1>1, <3>2, <3>3, <3>4, <3>5
    <2>5. Separate(w)
      <3> SUFFICES ASSUME NEW m \in 1..(L + 1), NEW k \in 1..(L + 1), m < k PROVE w[m][2] < w[k][1]
        BY <2>2 DEF Separate
      <3>1. m \in 1..L /\ (k \in 1..L \/ k = L + 1)
        <4>1. L \in Nat
          BY <1>2
        <4> HIDE DEF L
        <4> QED
          BY <4>1
      <3> QED
        BY <1>2, <2>2, <2>4, <3>1
    <2>6. ASSUME NEW x \in Int PROVE Inside(w, L + 1, x) <=> Inside(s, n + 1, x)
      <3>1. Inside(w, L + 1, x) <=> Inside(w, L, x) \/ (e[1] <= x /\ x < e[2])
        BY <1>2, <2>2, InsideNext
      <3>2. Inside(w, L, x) <=> Inside(out, L, x)
        BY <2>2 DEF Inside
      <3>3. Inside(s, n + 1, x) <=> Inside(s, n, x) \/ (e[1] <= x /\ x < e[2])
        BY InsideNext
      <3> QED
        BY <1>2, <3>1, <3>2, <3>3
    <2>7. Len(w) > 0 /\ w[Len(w)][1] <= s[n + 1][1]
      BY <1>1, <1>2, <2>2
    <2> QED
      BY <2>2, <2>3, <2>5, <2>6, <2>7 DEF United, w
  <1> QED
    BY <1>3, <1>4

\* What cr_sort_and_remove_overlap leaves of sorted intervals.
LEMMA WithoutOverlapFacts ==
  ASSUME NEW s \in Seq(Elem), Proper(s), \A n \in 2..Len(s) : s[n - 1][1] <= s[n][1]
  PROVE  United(s, Len(s), WithoutOverlap(s))
  <1> DEFINE L == Len(s)
             f == CHOOSE g : Unions(s, L, g)
             D == {n \in Nat : n <= L => United(s, n, f[n])}
  <1>0. L \in Nat
    OBVIOUS
  <1>1. WithoutOverlap(s) = f[L]
    BY DEF WithoutOverlap, Unions, Extended
  <1>2. Unions(s, L, f)
    BY <1>0, UnionsExist
  <1> HIDE DEF f
  <1>3. f[0] = <<>> /\ \A n \in 1..L : f[n] = Extended(s, n, f[n - 1])
    BY <1>0, <1>2 DEF Unions
  <1>4. 0 \in D
    <2>1. United(s, 0, <<>>)
      BY DEF United, Proper, Separate, Inside
    <2> QED
      BY <1>3, <2>1
  <1>5. ASSUME NEW n \in Nat, n \in D PROVE n + 1 \in D
    <2> SUFFICES ASSUME n + 1 <= L PROVE United(s, n + 1, f[n + 1])
      OBVIOUS
    <2>1. United(s, n, f[n])
      BY <1>0, <1>5
    <2>2. f[n + 1] = Extended(s, n + 1, f[n])
      <3>1. n + 1 \in 1..L /\ (n + 1) - 1 = n
        BY <1>0
      <3> QED
        BY <1>3, <3>1
    <2>3. n > 0 => s[n][1] <= s[n + 1][1]
      <3> SUFFICES ASSUME n > 0 PROVE s[n][1] <= s[n + 1][1]
        OBVIOUS
      <3>1. n + 1 \in 2..Len(s) /\ (n + 1) - 1 = n
        BY <1>0
      <3> QED
        BY <3>1
    <2> QED
      BY <2>1, <2>2, <2>3, UnitedNext
  <1>6. \A n \in Nat : n \in D
    <2> HIDE DEF D
    <2> QED
      BY <1>4, <1>5, Ascent
  <1> QED
    BY <1>0, <1>1, <1>6

\* The points of intervals apart from each other.
LEMMA FlatFacts ==
  ASSUME NEW s \in Seq(Elem), Proper(s), Separate(s)
  PROVE  /\ PointSet(Flat(s))
         /\ \A x \in Int : Contains(Flat(s), x) <=> Inside(s, Len(s), x)
  <1> DEFINE L == Len(s)
             p == Flat(s)
             half(n) == (n + 1) \div 2
  <1>1. L \in Nat /\ \A m \in 1..L : s[m][1] \in Nat /\ s[m][2] \in Nat /\ s[m][1] < s[m][2]
    BY Intervals DEF Proper
  <1>2. \A m, n \in 1..L : m < n => s[m][2] < s[n][1]
    BY DEF Separate
  <1> HIDE DEF L
  <1>3. \A n \in 1..(2 * L) : p[n] = IF Odd(n) THEN s[half(n)][1] ELSE s[half(n)][2]
    BY DEF Flat, L
  <1>4. \A n \in 1..(2 * L) : half(n) \in 1..L
    BY <1>1
  <1>5. p = [n \in 1..(2 * L) |-> p[n]]
    BY DEF Flat, L
  <1> HIDE DEF p, half
  <1>6. \A n \in 1..(2 * L) : p[n] \in Nat
    BY <1>1, <1>3, <1>4
  <1>7. p \in Seq(Nat) /\ Len(p) = 2 * L
    <2>1. 2 * L \in Nat
      BY <1>1
    <2>2. p \in [1..(2 * L) -> Nat]
      BY <1>5, <1>6
    <2> QED
      BY <2>1, <2>2, LenProperties, SeqDef
  <1>8. Nondecreasing(p)
    <2> SUFFICES ASSUME NEW m \in 1..(2 * L), NEW n \in 1..(2 * L), m < n PROVE p[m] <= p[n]
      BY <1>7 DEF Nondecreasing
    <2>1. half(m) <= half(n) /\ (half(m) = half(n) => Odd(m) /\ ~Odd(n))
      BY <1>1 DEF half, Odd
    <2>2. half(m) \in 1..L /\ half(n) \in 1..L
      BY <1>4
    <2> DEFINE a == half(m)
               b == half(n)
    <2>3. a \in 1..L /\ b \in 1..L /\ (a = b \/ a < b)
      BY <1>1, <2>1, <2>2
    <2>4. /\ s[a][1] \in Nat /\ s[a][2] \in Nat /\ s[b][1] \in Nat /\ s[b][2] \in Nat
          /\ s[a][1] < s[a][2] /\ s[b][1] < s[b][2] /\ (a < b => s[a][2] < s[b][1])
      BY <1>1, <1>2, <2>3
    <2>5. (p[m] = s[a][1] \/ p[m] = s[a][2]) /\ (p[n] = s[b][1] \/ p[n] = s[b][2])
      BY <1>3
    <2>6. a = b => p[m] = s[a][1] /\ p[n] = s[b][2]
      BY <1>3, <2>1
    <2> QED
      BY <2>3, <2>4, <2>5, <2>6
  <1>9. ASSUME NEW x \in Int PROVE Contains(p, x) <=> Inside(s, L, x)
    <2>1. ASSUME NEW n \in 1..(2 * L), Odd(n), p[n] <= x, n < 2 * L => x < p[n + 1] PROVE Inside(s, L, x)
      <3>1. n + 1 \in 1..(2 * L) /\ n < 2 * L /\ ~Odd(n + 1) /\ half(n + 1) = half(n)
        BY <1>1, <2>1 DEF half, Odd
      <3>2. half(n) \in 1..L /\ p[n] = s[half(n)][1] /\ p[n + 1] = s[half(n)][2]
        BY <1>3, <1>4, <2>1, <3>1
      <3> QED
        BY <2>1, <3>1, <3>2 DEF Inside
    <2>2. ASSUME NEW m \in 1..L, s[m][1] <= x, x < s[m][2] PROVE Contains(p, x)
      <3> DEFINE n == 2 * m - 1
      <3>1. n \in 1..(2 * L) /\ n + 1 \in 1..(2 * L) /\ Odd(n) /\ ~Odd(n + 1)
            /\ half(n) = m /\ half(n + 1) = m
        BY <1>1 DEF half, Odd
      <3> HIDE DEF n
      <3>2. p[n] = s[m][1] /\ p[n + 1] = s[m][2]
        BY <1>3, <3>1
      <3> QED
        BY <1>7, <2>2, <3>1, <3>2 DEF Contains, In
    <2> QED
      BY <1>7, <2>1, <2>2 DEF Contains, In, Inside
  <1> QED
    BY <1>1, <1>7, <1>8, <1>9 DEF PointSet, p, L

--------------------------------------------------------------------------------
(***************************************************************************)
(* The inductive invariant.  While cr_inter is folded, what is collected,  *)
(* together with what was lost, is the folded forms of the characters      *)
(* done, and these are the characters of cr_inter below c.                 *)
(***************************************************************************)
Mask(n) == cr_mask[n.is_unicode]

\* The characters of the set that folding may change.
Moved(n) == {x \in Nat : Contains(n.set, x) /\ Contains(Mask(n), x)}

\* Those that have been folded, with p points in cr_inter.
DoneBelow(n, p, at, x) == {y \in Moved(n) : at > p \/ y < x}

Images(S, u) == {lre_canonicalize(x, u) : x \in S}

Covered(s) == {x \in Nat : Inside(s, Len(s), x)}
Span(e) == IF e = None THEN {} ELSE {x \in Nat : e[1] <= x /\ x < e[2]}

\* A is the images of S, but for some that were lost.
Image(A, S, u, gone) == A \subseteq Images(S, u) /\ Images(S, u) \subseteq A \cup gone

SortQuiet ==
  /\ spc = "idle"
  /\ ptr \in Nat /\ nmemb \in Nat /\ depth \in Nat
  /\ plt \in Nat /\ pi \in Nat /\ pj \in Nat /\ pgt \in Nat /\ r \in Nat

Ready == SortQuiet /\ cr = input.set /\ arr = <<>> /\ idx = 1 /\ i = 1 /\ c \in Nat /\ d = None

Separated == cr_inter = Inter(input.set, Mask(input)) /\ cr_sub = Minus(input.set, Mask(input))

AtCharacter ==
  /\ i \in Nat /\ Odd(i) /\ i <= Len(cr_inter) + 1
  /\ c \in Nat
  /\ i < Len(cr_inter) => cr_inter[i] <= c /\ c < cr_inter[i + 1]
  /\ idx \in Nat /\ (idx = 1 \/ (idx \in 1..Last /\ Entry(idx).code <= c))

Collected(S) ==
  /\ arr \in Seq(Elem) /\ Proper(arr)
  /\ d = None \/ (d \in Elem /\ d[1] < d[2])
  /\ Image(Covered(arr) \cup Span(d), S, input.is_unicode, lost)

CanonPhases == {"inter", "sub", "fold", "last", "sort", "union", "done", "failed"}

CanonInv ==
  /\ input \in Inputs
  /\ pc \in CanonPhases
  /\ pc = "inter" => Ready
  /\ pc = "sub" => Ready /\ cr_inter = Inter(input.set, Mask(input))
  /\ pc = "fold" => /\ Separated /\ SortQuiet /\ AtCharacter
                    /\ Collected(DoneBelow(input, Len(cr_inter), i, c))
  /\ pc = "last" => Separated /\ SortQuiet /\ Collected(Moved(input))
  /\ pc = "sort" => /\ Separated /\ SortInv /\ Proper(unsorted)
                    /\ Image(Covered(unsorted), Moved(input), input.is_unicode, lost)
  /\ pc = "union" => /\ Separated /\ SortQuiet
                     /\ arr \in Seq(Elem) /\ Proper(arr) /\ Separate(arr)
                     /\ Image(Covered(arr), Moved(input), input.is_unicode, lost)
  /\ pc = "done" => SortQuiet /\ CanonExact

LEMMA InputFacts ==
  ASSUME NEW n \in Inputs
  PROVE  /\ n.is_unicode \in BOOLEAN /\ PointSet(n.set) /\ PointSet(Mask(n))
         /\ CleanSet(Inter(n.set, Mask(n))) /\ CleanSet(Minus(n.set, Mask(n)))
         /\ \A x \in Nat : Contains(Inter(n.set, Mask(n)), x) <=> x \in Moved(n)
         /\ \A x \in Nat : Contains(Minus(n.set, Mask(n)), x) <=> Contains(n.set, x) /\ x \notin Moved(n)
  <1>1. n.is_unicode \in BOOLEAN /\ n.set \in Ranges
    BY InputsAssumption
  <1>2. Mask(n) \in Ranges
    BY <1>1, FoldingAssumption DEF Mask
  <1>3. PointSet(n.set) /\ PointSet(Mask(n))
    BY <1>1, <1>2, RangesArePointSets
  <1> QED
    BY <1>1, <1>3, InterFacts, MinusFacts DEF Moved

\* What is set aside is not changed by folding, and what is folded is.
LEMMA FormsOf ==
  ASSUME NEW n \in Inputs
  PROVE  /\ \A x \in Moved(n) : \E k \in 1..Last : InEntry(x, k)
         /\ \A x \in Nat : Contains(n.set, x) /\ x \notin Moved(n) => lre_canonicalize(x, n.is_unicode) = x
         /\ Elements(n.set) = {x \in Nat : Contains(n.set, x)}
         /\ Images(Elements(n.set), n.is_unicode) =
              Images(Moved(n), n.is_unicode) \cup {x \in Nat : Contains(Minus(n.set, Mask(n)), x)}
  <1> DEFINE u == n.is_unicode
             kept == {x \in Nat : Contains(Minus(n.set, Mask(n)), x)}
  <1>1. u \in BOOLEAN /\ PointSet(n.set)
    BY InputFacts
  <1>2. \A x \in Moved(n) : x \in Nat /\ Contains(n.set, x) /\ \E k \in 1..Last : InEntry(x, k)
    BY <1>1, FoldingFacts DEF Moved, Mask
  <1>3. \A x \in Nat : Contains(n.set, x) /\ x \notin Moved(n) => lre_canonicalize(x, u) = x
    BY <1>1, FoldingFacts DEF Moved, Mask
  <1>4. Elements(n.set) = {x \in Nat : Contains(n.set, x)}
    BY <1>1, ElementsAre
  <1>5. Elements(n.set) = Moved(n) \cup kept
    BY <1>2, <1>4, InputFacts
  <1>6. \A x \in kept : lre_canonicalize(x, u) = x
    BY <1>3, InputFacts
  <1> HIDE DEF kept, u
  <1>7. Images(Elements(n.set), u) = Images(Moved(n), u) \cup kept
    BY <1>5, <1>6 DEF Images
  <1> QED
    BY <1>2, <1>3, <1>4, <1>7 DEF kept, u

--------------------------------------------------------------------------------
(***************************************************************************)
(* Folding one character.                                                  *)
(***************************************************************************)
LEMMA ImageAdds ==
  ASSUME NEW A, NEW S, NEW u, NEW gone, Image(A, S, u, gone),
         NEW x, NEW e, e = lre_canonicalize(x, u),
         NEW B, NEW gone2, B \subseteq A \cup {e}, A \cup gone \cup {e} \subseteq B \cup gone2
  PROVE  Image(B, S \cup {x}, u, gone2)
  BY DEF Image, Images

LEMMA PairIs ==
  ASSUME NEW e \in Elem
  PROVE  e # None /\ e[1] \in Nat /\ e[2] \in Nat /\ Span(e) = {x \in Nat : e[1] <= x /\ x < e[2]}
  <1>1. e # None
    BY DEF Elem, None
  <1> QED
    BY <1>1 DEF Span, Elem

LEMMA SpanOfOne ==
  ASSUME NEW e \in Nat
  PROVE  <<e, e + 1>> \in Elem /\ Span(<<e, e + 1>>) = {e}
  <1>1. <<e, e + 1>> \in Elem
    BY DEF Elem
  <1>2. \A x \in Nat : e <= x /\ x < e + 1 <=> x = e
    OBVIOUS
  <1> QED
    BY <1>1, <1>2, PairIs

LEMMA SpanJoined ==
  ASSUME NEW e \in Elem, e[1] < e[2]
  PROVE  /\ <<e[1], e[2] + 1>> \in Elem
         /\ Span(<<e[1], e[2] + 1>>) = Span(e) \cup {e[2]}
  <1>1. e[1] \in Nat /\ e[2] \in Nat
    BY PairIs
  <1>2. <<e[1], e[2] + 1>> \in Elem
    BY <1>1 DEF Elem
  <1>3. \A x \in Nat : e[1] <= x /\ x < e[2] + 1 <=> (e[1] <= x /\ x < e[2]) \/ x = e[2]
    BY <1>1
  <1>4. Span(<<e[1], e[2] + 1>>) = {x \in Nat : e[1] <= x /\ x < e[2] + 1}
    BY <1>2, PairIs
  <1>5. Span(e) = {x \in Nat : e[1] <= x /\ x < e[2]}
    BY PairIs
  <1> QED
    BY <1>1, <1>2, <1>3, <1>4, <1>5

LEMMA CoveredAppend ==
  ASSUME NEW s \in Seq(Elem), Proper(s), NEW e \in Elem, e[1] < e[2]
  PROVE  /\ Append(s, e) \in Seq(Elem) /\ Proper(Append(s, e))
         /\ Covered(Append(s, e)) = Covered(s) \cup Span(e)
  <1> DEFINE w == Append(s, e)
             L == Len(s)
  <1>1. L \in Nat /\ w \in Seq(Elem) /\ Len(w) = L + 1 /\ w[L + 1] = e /\ \A m \in 1..L : w[m] = s[m]
    BY AppendProperties
  <1> HIDE DEF w
  <1>2. Proper(w)
    <2> SUFFICES ASSUME NEW m \in 1..(L + 1) PROVE w[m][1] < w[m][2]
      BY <1>1 DEF Proper
    <2>1. m \in 1..L \/ m = L + 1
      BY <1>1
    <2> QED
      BY <1>1, <2>1 DEF Proper
  <1>3. \A x \in Nat : Inside(w, L + 1, x) <=> Inside(s, L, x) \/ (e[1] <= x /\ x < e[2])
    <2> SUFFICES ASSUME NEW x \in Nat
                 PROVE  Inside(w, L + 1, x) <=> Inside(s, L, x) \/ (e[1] <= x /\ x < e[2])
      OBVIOUS
    <2>1. Inside(w, L + 1, x) <=> Inside(w, L, x) \/ (e[1] <= x /\ x < e[2])
      BY <1>1, InsideNext
    <2>2. Inside(w, L, x) <=> Inside(s, L, x)
      BY <1>1 DEF Inside
    <2> QED
      BY <2>1, <2>2
  <1>4. Span(e) = {x \in Nat : e[1] <= x /\ x < e[2]}
    BY PairIs
  <1>5. Covered(w) = Covered(s) \cup Span(e)
    BY <1>1, <1>3, <1>4 DEF Covered
  <1> QED
    BY <1>1, <1>2, <1>5 DEF w

\* The next character of cr_inter, and which are done then.
LEMMA NextFacts ==
  ASSUME NEW n \in Inputs, cr_inter = Inter(n.set, Mask(n)),
         i \in Nat, Odd(i), i < Len(cr_inter), c \in Nat,
         cr_inter[i] <= c, c < cr_inter[i + 1], NextCharacter
  PROVE  /\ c \in Moved(n)
         /\ i' \in Nat /\ Odd(i') /\ i' <= Len(cr_inter) + 1
         /\ c' \in Nat /\ c <= c'
         /\ i' < Len(cr_inter) => cr_inter[i'] <= c' /\ c' < cr_inter[i' + 1]
         /\ DoneBelow(n, Len(cr_inter), i', c') = DoneBelow(n, Len(cr_inter), i, c) \cup {c}
  <1> DEFINE L == Len(cr_inter)
  <1>1. /\ cr_inter \in Seq(Nat) /\ L \in Nat /\ L % 2 = 0 /\ Increasing(cr_inter)
        /\ \A x \in Nat : Contains(cr_inter, x) <=> x \in Moved(n)
    BY InputFacts DEF CleanSet
  <1>2. /\ \A k \in 1..L : cr_inter[k] \in Nat
        /\ \A j, k \in 1..L : j < k => cr_inter[j] < cr_inter[k]
    <2>1. DOMAIN cr_inter = 1..L
      BY <1>1
    <2>2. \A j, k \in 1..L : j < k => cr_inter[j] < cr_inter[k]
      BY <1>1, <2>1 DEF Increasing
    <2> QED
      BY <1>1, <2>2, ElementOfSeq
  <1>3. i \in 1..L /\ i + 1 \in 1..L
    BY <1>1 DEF Odd
  <1>4. \A x \in Nat : x \in Moved(n) <=>
          \E k \in 1..L : Odd(k) /\ k + 1 \in 1..L /\ cr_inter[k] <= x /\ x < cr_inter[k + 1]
    <2>1. \A k \in 1..L : Odd(k) => k < L /\ k + 1 \in 1..L
      BY <1>1 DEF Odd
    <2> QED
      BY <1>1, <2>1 DEF Contains, In
  <1>5. c \in Moved(n) /\ \A x \in Moved(n) : x \in Nat
    BY <1>3, <1>4 DEF Moved
  <1> HIDE DEF L
  <1>6. CASE c + 1 < cr_inter[i + 1]
    <2>1. c' = c + 1 /\ i' = i
      BY <1>6 DEF NextCharacter
    <2>2. cr_inter[i] \in Nat /\ cr_inter[i + 1] \in Nat /\ i <= L
      BY <1>2, <1>3
    <2>3. DoneBelow(n, L, i', c') = DoneBelow(n, L, i, c) \cup {c}
      <3>1. \A x \in Moved(n) : x < c + 1 <=> x < c \/ x = c
        BY <1>5
      <3>2. ~(i > L)
        BY <1>1, <2>2
      <3> QED
        BY <1>5, <2>1, <3>1, <3>2 DEF DoneBelow
    <2> QED
      BY <1>1, <1>3, <1>5, <1>6, <2>1, <2>2, <2>3 DEF L
  <1>7. CASE ~(c + 1 < cr_inter[i + 1])
    <2>1. i' = i + 2 /\ c' = IF i + 2 < L THEN cr_inter[i + 2] ELSE c
      BY <1>7 DEF NextCharacter, L
    <2>2. cr_inter[i + 1] = c + 1
      BY <1>2, <1>3, <1>7
    <2>3. i' \in Nat /\ Odd(i') /\ i' <= L + 1 /\ (i' < L => i + 2 \in 1..L /\ i + 3 \in 1..L)
      BY <1>1, <1>3, <2>1 DEF Odd
    <2>4. i' < L => /\ c' = cr_inter[i + 2] /\ c' \in Nat /\ c' < cr_inter[i + 3] /\ c + 1 < c'
                    /\ i' + 1 = i + 3
      <3> SUFFICES ASSUME i' < L
                   PROVE  /\ c' = cr_inter[i + 2] /\ c' \in Nat /\ c' < cr_inter[i + 3] /\ c + 1 < c'
                          /\ i' + 1 = i + 3
        OBVIOUS
      <3>1. i + 2 \in 1..L /\ i + 3 \in 1..L /\ i + 2 < i + 3 /\ i + 1 < i + 2
        BY <2>3
      <3> QED
        BY <1>2, <1>3, <2>1, <2>2, <3>1
    <2>5. ~(i' < L) => i' > L /\ c' = c
      BY <1>1, <2>1, <2>3 DEF Odd
    <2>6. \A x \in Moved(n) : i' > L \/ x < c' <=> x < c \/ x = c
      <3> SUFFICES ASSUME NEW x \in Moved(n) PROVE i' > L \/ x < c' <=> x < c \/ x = c
        OBVIOUS
      <3>0. x \in Nat
        BY <1>5
      <3>1. PICK k \in 1..L : Odd(k) /\ k + 1 \in 1..L /\ cr_inter[k] <= x /\ x < cr_inter[k + 1]
        BY <1>4, <3>0
      <3>2. cr_inter[k] \in Nat /\ cr_inter[k + 1] \in Nat /\ k \in Nat
        BY <1>1, <1>2, <3>1
      <3>3. k <= i => x <= c
        <4> SUFFICES ASSUME k <= i PROVE x <= c
          OBVIOUS
        <4>1. k + 1 = i + 1 \/ k + 1 < i + 1
          BY <3>2
        <4>2. cr_inter[k + 1] <= cr_inter[i + 1]
          BY <1>2, <1>3, <3>1, <3>2, <4>1
        <4> QED
          BY <2>2, <3>0, <3>1, <3>2, <4>2
      <3>4. ~(k <= i) => i' < L /\ c' <= x
        <4> SUFFICES ASSUME ~(k <= i) PROVE i' < L /\ c' <= x
          OBVIOUS
        <4>1. k >= i + 2
          BY <3>1, <3>2 DEF Odd
        <4>2. i' < L
          BY <1>1, <2>1, <3>1, <3>2, <4>1
        <4>3. i + 2 \in 1..L /\ (i + 2 = k \/ i + 2 < k)
          BY <2>3, <3>2, <4>1, <4>2
        <4>4. cr_inter[i + 2] <= cr_inter[k] /\ cr_inter[i + 2] \in Nat
          BY <1>2, <3>1, <3>2, <4>3
        <4> QED
          BY <2>4, <3>0, <3>1, <3>2, <4>2, <4>4
      <3>5. CASE k <= i
        <4>1. x <= c /\ (x < c \/ x = c)
          BY <3>0, <3>3, <3>5
        <4>2. ~(i' < L) => i' > L
          BY <2>5
        <4>3. i' < L => x < c'
          BY <2>4, <3>0, <4>1
        <4> QED
          BY <4>1, <4>2, <4>3
      <3>6. CASE ~(k <= i)
        <4>1. i' < L /\ c' <= x /\ c' \in Nat /\ c + 1 < c'
          BY <2>4, <3>4, <3>6
        <4>2. ~(x < c') /\ ~(x < c \/ x = c)
          BY <3>0, <4>1
        <4>3. ~(i' > L)
          BY <1>1, <2>3, <4>1
        <4> QED
          BY <4>2, <4>3
      <3> QED
        BY <3>5, <3>6
    <2>7. DoneBelow(n, L, i', c') = DoneBelow(n, L, i, c) \cup {c}
      <3>1. ~(i > L)
        BY <1>1, <1>3
      <3> QED
        BY <1>5, <2>6, <3>1 DEF DoneBelow
    <2>8. c' \in Nat /\ c <= c'
      BY <2>4, <2>5
    <2>9. i' < L => cr_inter[i'] <= c' /\ c' < cr_inter[i' + 1]
      BY <2>1, <2>4
    <2> QED
      BY <1>5, <2>3, <2>7, <2>8, <2>9 DEF L
  <1> QED
    BY <1>6, <1>7

LEMMA FoldStep ==
  ASSUME CanonInv, Fold
  PROVE  CanonInv'
  <1> DEFINE u == input.is_unicode
             L == Len(cr_inter)
             done == DoneBelow(input, L, i, c)
  <1>1. /\ pc = "fold" /\ i < L /\ input \in Inputs
        /\ Separated /\ SortQuiet /\ AtCharacter /\ Collected(done)
    BY DEF Fold, CanonInv
  <1>2. /\ cr' = cr /\ input' = input /\ cr_inter' = cr_inter /\ cr_sub' = cr_sub /\ pc' = pc
        /\ UNCHANGED <<unsorted, stack, ptr, nmemb, depth, plt, pi, pj, pgt, r, spc>>
        /\ NextCharacter
    BY DEF Fold
  <1>3. PICK e : /\ e = lre_case_folding_entry(c, idx', u)
                 /\ \/ d = None /\ d' = <<e, e + 1>> /\ UNCHANGED <<arr, size, failures, lost>>
                    \/ d # None /\ Joined(e)
                    \/ d # None /\ d[2] # e /\ d' = <<e, e + 1>> /\ AddToResult
    BY DEF Fold
  <1>4. idx' \in 1..Last /\ InEntry(c, idx')
    <2>1. PICK k \in EntryFrom(idx) : idx' = k
      BY DEF Fold
    <2>2. k \in idx..Last /\ InEntry(c, k)
      BY DEF EntryFrom, Last
    <2>3. idx \in Nat /\ idx >= 1 /\ Last \in Nat
      BY <1>1, EntryType DEF AtCharacter
    <2> QED
      BY <2>1, <2>2, <2>3
  <1>5. u \in BOOLEAN
    BY <1>1, InputFacts
  <1>6. /\ i \in Nat /\ Odd(i) /\ c \in Nat /\ cr_inter[i] <= c /\ c < cr_inter[i + 1]
        /\ cr_inter = Inter(input.set, Mask(input))
    BY <1>1 DEF AtCharacter, Separated
  <1>7. e = lre_canonicalize(c, u) /\ e \in Nat
    BY <1>3, <1>4, <1>5, <1>6, FoldingFacts
  <1>8. /\ i' \in Nat /\ Odd(i') /\ i' <= L + 1
        /\ c' \in Nat /\ c <= c'
        /\ i' < L => cr_inter[i'] <= c' /\ c' < cr_inter[i' + 1]
        /\ DoneBelow(input, L, i', c') = done \cup {c}
    BY <1>1, <1>2, <1>6, NextFacts
  <1>9. AtCharacter'
    <2>1. Entry(idx').code <= c /\ Entry(idx').code \in Nat
      BY <1>4, EntryType DEF InEntry
    <2>2. Entry(idx').code <= c'
      BY <1>6, <1>8, <2>1
    <2>3. idx' \in Nat
      BY <1>4, EntryType
    <2> QED
      BY <1>2, <1>4, <1>8, <2>2, <2>3 DEF AtCharacter
  <1>10. Separated' /\ SortQuiet'
    BY <1>1, <1>2 DEF Separated, SortQuiet
  <1>11. /\ arr \in Seq(Elem) /\ Proper(arr) /\ (d = None \/ (d \in Elem /\ d[1] < d[2]))
         /\ Image(Covered(arr) \cup Span(d), done, u, lost)
    BY <1>1 DEF Collected
  <1> DEFINE A == Covered(arr) \cup Span(d)
             B == Covered(arr') \cup Span(d')
             new == <<e, e + 1>>
  <1>12. new \in Elem /\ Span(new) = {e} /\ new[1] < new[2]
    BY <1>7, SpanOfOne
  <1> HIDE DEF u, L, done, new
  <1>13. /\ arr' \in Seq(Elem) /\ Proper(arr') /\ d' \in Elem /\ d'[1] < d'[2]
         /\ B \subseteq A \cup {e} /\ A \cup lost \cup {e} \subseteq B \cup lost'
    <2>1. CASE d = None /\ d' = new /\ UNCHANGED <<arr, size, failures, lost>>
      <3>1. Span(d) = {}
        BY <2>1 DEF Span
      <3> QED
        BY <1>11, <1>12, <2>1, <3>1
    <2>2. CASE d # None /\ Joined(e)
      <3>1. d \in Elem /\ d[1] < d[2] /\ d[2] = e /\ d' = <<d[1], d[2] + 1>> /\ arr' = arr /\ lost' = lost
        BY <1>11, <2>2 DEF Joined
      <3>2. d' \in Elem /\ Span(d') = Span(d) \cup {e}
        BY <3>1, SpanJoined
      <3>3. d'[1] < d'[2]
        <4>1. d[1] \in Nat /\ d[2] \in Nat
          BY <3>1, PairIs
        <4> QED
          BY <3>1, <4>1
      <3> QED
        BY <1>11, <3>1, <3>2, <3>3
    <2>3. CASE d # None /\ d' = new /\ AddToResult
      <3>1. d \in Elem /\ d[1] < d[2]
        BY <1>11, <2>3
      <3>2. \/ arr' = Append(arr, d) /\ lost' = lost
            \/ arr' = arr /\ lost' = lost \cup (d[1]..(d[2] - 1))
        BY <2>3 DEF AddToResult
      <3>3. Span(d) = d[1]..(d[2] - 1)
        <4>1. d[1] \in Nat /\ d[2] \in Nat /\ Span(d) = {x \in Nat : d[1] <= x /\ x < d[2]}
          BY <3>1, PairIs
        <4>2. \A x : x \in d[1]..(d[2] - 1) <=> x \in Nat /\ d[1] <= x /\ x < d[2]
          BY <4>1
        <4> QED
          BY <4>1, <4>2
      <3>4. /\ Append(arr, d) \in Seq(Elem) /\ Proper(Append(arr, d))
            /\ Covered(Append(arr, d)) = Covered(arr) \cup Span(d)
        BY <1>11, <3>1, CoveredAppend
      <3> QED
        BY <1>11, <1>12, <2>3, <3>2, <3>3, <3>4
    <2> QED
      BY <1>3, <2>1, <2>2, <2>3 DEF new
  <1> HIDE DEF A, B
  <1>14. Image(B, done \cup {c}, u, lost')
    BY <1>7, <1>11, <1>13, ImageAdds DEF A
  <1>15. Collected(DoneBelow(input, Len(cr_inter), i, c))'
    BY <1>2, <1>8, <1>13, <1>14 DEF Collected, B, u, L
  <1> QED
    BY <1>1, <1>2, <1>9, <1>10, <1>15 DEF CanonInv

\* The assertion of the loop: there is an entry with the character, and it has not
\* been passed.
LEMMA EntryAhead ==
  ASSUME CanonInv, pc = "fold", i < Len(cr_inter)
  PROVE  EntryFrom(idx) # {}
  <1>1. input \in Inputs /\ Separated /\ AtCharacter
    BY DEF CanonInv
  <1>2. /\ i \in Nat /\ Odd(i) /\ c \in Nat /\ cr_inter[i] <= c /\ c < cr_inter[i + 1]
        /\ cr_inter = Inter(input.set, Mask(input))
        /\ idx \in Nat /\ (idx = 1 \/ (idx \in 1..Last /\ Entry(idx).code <= c))
    BY <1>1 DEF AtCharacter, Separated
  <1>3. c \in Moved(input)
    <2>1. /\ Len(cr_inter) \in Nat
          /\ \A x \in Nat : Contains(cr_inter, x) <=> x \in Moved(input)
      BY <1>1, <1>2, InputFacts DEF CleanSet
    <2>2. i \in 1..Len(cr_inter)
      BY <1>2, <2>1 DEF Odd
    <2>3. Contains(cr_inter, c)
      BY <1>2, <2>2 DEF Contains, In
    <2> QED
      BY <1>2, <2>1, <2>3
  <1>4. PICK k \in 1..Last : InEntry(c, k)
    BY <1>1, <1>3, FormsOf
  <1>5. k \in Nat /\ k >= 1 /\ k <= Last /\ Last \in Nat
    BY <1>4, EntryType
  <1>6. idx <= k
    <2> SUFFICES ASSUME k < idx PROVE FALSE
      BY <1>2, <1>5
    <2>1. idx \in 1..Last /\ Entry(idx).code <= c
      BY <1>2, <1>5
    <2>2. Entry(k).code + Entry(k).len <= Entry(idx).code
      BY <1>2, <2>1, <1>5, EntriesApart
    <2>3. Entry(k).code \in Nat /\ Entry(k).len \in Nat /\ Entry(idx).code \in Nat
      BY <2>1, EntryType
    <2> QED
      BY <1>2, <1>4, <2>1, <2>2, <2>3 DEF InEntry
  <1>7. k \in EntryFrom(idx)
    BY <1>2, <1>4, <1>5, <1>6 DEF EntryFrom, Last
  <1> QED
    BY <1>7

--------------------------------------------------------------------------------
(***************************************************************************)
(* The other steps.                                                        *)
(***************************************************************************)
LEMMA CanonInitInv == CanonInit => CanonInv
  <1> SUFFICES ASSUME CanonInit PROVE CanonInv
    OBVIOUS
  <1>1. PICK n \in Inputs : cr = n.set /\ input = n
    BY DEF CanonInit
  <1>2. pc = "inter" /\ idx = 1 /\ i = 1 /\ c = 0 /\ d = None /\ SortIdle
    BY DEF CanonInit
  <1>3. Ready
    BY <1>1, <1>2 DEF Ready, SortQuiet, SortIdle
  <1> QED
    BY <1>1, <1>2, <1>3 DEF CanonInv, CanonPhases

LEMMA IntersectStep == ASSUME CanonInv, Intersect PROVE CanonInv'
  <1>1. input \in Inputs /\ Ready
    BY DEF CanonInv, Intersect, Goto
  <1>2. /\ pc' = "sub" /\ cr_inter' = Inter(cr, Mask(input))
        /\ UNCHANGED <<cr, input, cr_sub, size, idx, i, c, d, failures, lost, sortVars>>
    BY DEF Intersect, Goto, Mask
  <1>3. Ready'
    BY <1>1, <1>2 DEF Ready, SortQuiet, sortVars
  <1>4. cr_inter' = Inter(input.set, Mask(input))
    BY <1>1, <1>2 DEF Ready
  <1> QED
    BY <1>1, <1>2, <1>3, <1>4 DEF CanonInv, CanonPhases

LEMMA SubtractStep == ASSUME CanonInv, Subtract PROVE CanonInv'
  <1> DEFINE L == Len(cr_inter)
             none == DoneBelow(input, L, 1, c')
  <1>1. input \in Inputs /\ Ready /\ cr_inter = Inter(input.set, Mask(input))
    BY DEF CanonInv, Subtract, Goto
  <1>2. /\ pc' = "fold" /\ cr_sub' = Minus(cr, Mask(input))
        /\ c' = IF cr_inter = <<>> THEN c ELSE cr_inter[1]
        /\ UNCHANGED <<cr, input, cr_inter, size, idx, i, d, failures, lost, sortVars>>
    BY DEF Subtract, Goto, Mask
  <1>3. Separated' /\ SortQuiet'
    BY <1>1, <1>2 DEF Separated, Ready, SortQuiet, sortVars
  <1>4. /\ L \in Nat /\ L % 2 = 0 /\ cr_inter \in Seq(Nat) /\ Increasing(cr_inter)
        /\ \A x \in Nat : Contains(cr_inter, x) <=> x \in Moved(input)
        /\ \A k \in 1..L : cr_inter[k] \in Nat
    <2>1. /\ L \in Nat /\ L % 2 = 0 /\ cr_inter \in Seq(Nat) /\ Increasing(cr_inter)
          /\ \A x \in Nat : Contains(cr_inter, x) <=> x \in Moved(input)
      BY <1>1, InputFacts DEF CleanSet
    <2> QED
      BY <2>1, ElementOfSeq
  <1>5. c' \in Nat /\ (1 < L => cr_inter[1] <= c' /\ c' < cr_inter[2])
    <2>1. CASE L = 0
      BY <1>1, <1>2, <1>4, <2>1 DEF Ready
    <2>2. CASE L # 0
      <3>1. 1 \in 1..L /\ 2 \in 1..L /\ cr_inter # <<>>
        BY <1>4, <2>2
      <3>2. DOMAIN cr_inter = 1..L
        BY <1>4
      <3>3. cr_inter[1] < cr_inter[2]
        BY <1>4, <3>1, <3>2 DEF Increasing
      <3> QED
        BY <1>2, <1>4, <3>1, <3>3
    <2> QED
      BY <2>1, <2>2
  <1>6. AtCharacter'
    <2>1. i' = 1 /\ idx' = 1 /\ Odd(1)
      BY <1>1, <1>2 DEF Ready, Odd
    <2> QED
      BY <1>2, <1>4, <1>5, <2>1 DEF AtCharacter
  <1>7. none = {}
    <2> SUFFICES ASSUME NEW x \in Moved(input), 1 > L \/ x < c' PROVE FALSE
      BY DEF DoneBelow
    <2>1. x \in Nat /\ Contains(cr_inter, x)
      BY <1>4 DEF Moved
    <2>2. PICK k \in 1..L : cr_inter[k] <= x
      BY <2>1 DEF Contains, In
    <2>3. 1 <= L /\ 1 \in 1..L /\ DOMAIN cr_inter = 1..L /\ cr_inter # <<>>
      BY <1>4, <2>2
    <2>4. cr_inter[1] <= cr_inter[k]
      <3>1. k = 1 \/ 1 < k
        BY <1>4
      <3>2. 1 < k => cr_inter[1] < cr_inter[k]
        BY <2>3, <1>4 DEF Increasing
      <3>3. cr_inter[1] \in Nat /\ cr_inter[k] \in Nat
        BY <1>4, <2>3
      <3> QED
        BY <3>1, <3>2, <3>3
    <2>5. c' = cr_inter[1] /\ cr_inter[1] \in Nat /\ cr_inter[k] \in Nat
      BY <1>2, <1>4, <2>3
    <2> QED
      BY <1>4, <2>1, <2>2, <2>3, <2>4, <2>5
  <1>8. Collected(DoneBelow(input, Len(cr_inter), i, c))'
    <2>1. arr' = <<>> /\ d' = None /\ i' = 1
      BY <1>1, <1>2 DEF Ready, sortVars
    <2>2. arr' \in Seq(Elem) /\ Len(arr') = 0
      BY <2>1
    <2>3. Proper(arr') /\ Covered(arr') = {} /\ Span(d') = {}
      BY <2>1, <2>2 DEF Proper, Covered, Inside, Span
    <2>4. Image({}, {}, input.is_unicode, lost)'
      BY DEF Image, Images
    <2>5. DoneBelow(input, Len(cr_inter), i, c)' = {}
      BY <1>2, <1>7, <2>1
    <2> HIDE DEF none, L
    <2> QED
      BY <2>1, <2>2, <2>3, <2>4, <2>5 DEF Collected
  <1> QED
    BY <1>1, <1>2, <1>3, <1>6, <1>8 DEF CanonInv, CanonPhases

LEMMA FailStep == ASSUME CanonInv, Fail PROVE CanonInv'
  BY DEF CanonInv, Fail, CanonPhases

LEMMA FoldEndsStep == ASSUME CanonInv, FoldEnds PROVE CanonInv'
  <1>1. /\ input \in Inputs /\ Separated /\ SortQuiet /\ i > Len(cr_inter)
        /\ Collected(DoneBelow(input, Len(cr_inter), i, c))
    BY DEF CanonInv, FoldEnds
  <1>2. /\ pc' = "last"
        /\ UNCHANGED <<cr, input, cr_inter, cr_sub, size, idx, i, c, d, failures, lost, sortVars>>
    BY DEF FoldEnds
  <1>3. DoneBelow(input, Len(cr_inter), i, c) = Moved(input)
    BY <1>1 DEF DoneBelow
  <1>4. Collected(Moved(input))'
    BY <1>1, <1>2, <1>3 DEF Collected, sortVars
  <1>5. Separated' /\ SortQuiet'
    BY <1>1, <1>2 DEF Separated, SortQuiet, sortVars
  <1> QED
    BY <1>1, <1>2, <1>4, <1>5 DEF CanonInv, CanonPhases

LEMMA AddLastStep == ASSUME CanonInv, AddLast PROVE CanonInv'
  <1>1. /\ input \in Inputs /\ Separated /\ SortQuiet /\ Collected(Moved(input))
    BY DEF CanonInv, AddLast, Goto
  <1> DEFINE s == IF d = None THEN arr ELSE Append(arr, d)
  <1>2. /\ pc' = "sort" /\ SortCall(s)
        /\ UNCHANGED <<cr, input, cr_inter, cr_sub, size, idx, i, c, d, failures, lost>>
    BY DEF AddLast, Goto
  <1>3. /\ arr \in Seq(Elem) /\ Proper(arr) /\ (d = None \/ (d \in Elem /\ d[1] < d[2]))
        /\ Image(Covered(arr) \cup Span(d), Moved(input), input.is_unicode, lost)
    BY <1>1 DEF Collected
  <1>4. s \in Seq(Elem) /\ Proper(s) /\ Covered(s) = Covered(arr) \cup Span(d)
    <2>1. CASE d = None
      BY <1>3, <2>1 DEF Span
    <2>2. CASE d # None
      BY <1>3, <2>2, CoveredAppend
    <2> QED
      BY <2>1, <2>2
  <1> HIDE DEF s
  <1>5. Called'
    <2>1. /\ arr' = s /\ unsorted' = s
          /\ IF Len(s) < 2
               THEN stack' = <<>> /\ spc' = "sorted"
               ELSE stack' = <<Segment(0, Len(s), 0)>> /\ spc' = "pop"
          /\ UNCHANGED <<ptr, nmemb, depth, plt, pi, pj, pgt, r>>
      BY <1>2 DEF SortCall
    <2> QED
      BY <1>1, <1>4, <2>1 DEF Called, SortQuiet
  <1>6. SortInv'
    BY <1>5, CalledInv, PTL
  <1>7. Separated' /\ unsorted' = s
    BY <1>1, <1>2 DEF Separated, SortCall
  <1> QED
    BY <1>1, <1>2, <1>3, <1>4, <1>6, <1>7 DEF CanonInv, CanonPhases

LEMMA SortingStep == ASSUME CanonInv, SortStep, UNCHANGED canonVars PROVE CanonInv'
  <1>1. spc # "idle"
    BY DEF SortStep, Pop, Partition, Up, Down, Gather, Insertion, Insert, Heapsort, Heapify, Extract,
           Sift, Sink
  <1>2. input \in Inputs /\ pc \in {"sort", "failed"}
    BY <1>1 DEF CanonInv, CanonPhases, Ready, SortQuiet
  <1>3. UNCHANGED <<cr, input, cr_inter, cr_sub, size, idx, i, c, d, failures, lost, pc>>
    BY DEF canonVars
  <1>4. CASE pc = "failed"
    BY <1>2, <1>3, <1>4 DEF CanonInv, CanonPhases
  <1>5. CASE pc = "sort"
    <2>1. /\ Separated /\ SortInv /\ Proper(unsorted)
          /\ Image(Covered(unsorted), Moved(input), input.is_unicode, lost)
      BY <1>5 DEF CanonInv
    <2>2. SortInv'
      BY <2>1, SortStepInv
    <2>3. unsorted' = unsorted
      BY GivenKept
    <2>4. Separated'
      BY <1>3, <2>1 DEF Separated
    <2> QED
      BY <1>2, <1>3, <1>5, <2>1, <2>2, <2>3, <2>4 DEF CanonInv, CanonPhases
  <1> QED
    BY <1>2, <1>4, <1>5

LEMMA SameElementsIn ==
  ASSUME NEW s \in Seq(Elem), NEW t \in Seq(Elem), \A e : Count(s, e) = Count(t, e),
         NEW n \in 1..Len(s)
  PROVE  \E m \in 1..Len(t) : t[m] = s[n]
  <1> DEFINE S == {k \in 1..Len(s) : s[k] = s[n]}
             T == {k \in 1..Len(t) : t[k] = s[n]}
  <1> SUFFICES ASSUME T = {} PROVE FALSE
    OBVIOUS
  <1>1. DOMAIN s = 1..Len(s) /\ DOMAIN t = 1..Len(t) /\ Len(s) \in Nat
    OBVIOUS
  <1>2. Cardinality(S) = Cardinality(T)
    BY <1>1 DEF Count
  <1>3. Cardinality(T) = 0
    BY FS_EmptySet
  <1>4. IsFiniteSet(S)
    <2>1. IsFiniteSet(1..Len(s))
      BY <1>1, FS_Interval
    <2>2. S \subseteq 1..Len(s)
      OBVIOUS
    <2> QED
      BY <2>1, <2>2, FS_Subset
  <1>5. S = {}
    BY <1>2, <1>3, <1>4, FS_EmptySet
  <1>6. n \in S
    OBVIOUS
  <1> QED
    BY <1>5, <1>6

\* Sorting keeps the intervals.
LEMMA SortedIntervals ==
  ASSUME SortInv, Proper(unsorted)
  PROVE  arr \in Seq(Elem) /\ Proper(arr) /\ Covered(arr) = Covered(unsorted)
  <1>1. arr \in Seq(Elem) /\ unsorted \in Seq(Elem)
    BY DEF SortInv, SortTypeOK
  <1>2. \A e : Count(arr, e) = Count(unsorted, e)
    BY DEF SortInv, Whole, SameElements
  <1>3. \A n \in 1..Len(arr) : \E m \in 1..Len(unsorted) : unsorted[m] = arr[n]
    BY <1>1, <1>2, SameElementsIn
  <1>4. \A n \in 1..Len(unsorted) : \E m \in 1..Len(arr) : arr[m] = unsorted[n]
    BY <1>1, <1>2, SameElementsIn
  <1>5. Proper(arr)
    BY <1>3 DEF Proper
  <1>6. \A x : Inside(arr, Len(arr), x) <=> Inside(unsorted, Len(unsorted), x)
    BY <1>3, <1>4 DEF Inside
  <1> QED
    BY <1>1, <1>5, <1>6 DEF Covered

LEMMA RemoveOverlapStep == ASSUME CanonInv, RemoveOverlap PROVE CanonInv'
  <1>1. /\ input \in Inputs /\ Separated /\ SortInv /\ Proper(unsorted)
        /\ Image(Covered(unsorted), Moved(input), input.is_unicode, lost)
    BY DEF CanonInv, RemoveOverlap, Goto
  <1>2. /\ pc' = "union" /\ spc = "sorted" /\ arr' = WithoutOverlap(arr) /\ spc' = "idle"
        /\ UNCHANGED <<cr, input, cr_inter, cr_sub, size, idx, i, c, d, failures, lost>>
        /\ UNCHANGED <<unsorted, stack, ptr, nmemb, depth, plt, pi, pj, pgt, r>>
    BY DEF RemoveOverlap, Goto
  <1>3. arr \in Seq(Elem) /\ Proper(arr) /\ Covered(arr) = Covered(unsorted)
    BY <1>1, SortedIntervals
  <1>4. \A n \in 2..Len(arr) : arr[n - 1][1] <= arr[n][1]
    BY <1>1, <1>2, SortInvCorrect DEF SortCorrect
  <1>5. United(arr, Len(arr), arr')
    BY <1>2, <1>3, <1>4, WithoutOverlapFacts
  <1>6. arr' \in Seq(Elem) /\ Proper(arr') /\ Separate(arr') /\ Covered(arr') = Covered(unsorted)
    BY <1>3, <1>5 DEF United, Covered
  <1>7. SortQuiet'
    BY <1>1, <1>2 DEF SortQuiet, SortInv, SortTypeOK
  <1>8. Separated'
    BY <1>1, <1>2 DEF Separated
  <1> QED
    BY <1>1, <1>2, <1>6, <1>7, <1>8 DEF CanonInv, CanonPhases

LEMMA UniteStep == ASSUME CanonInv, Unite PROVE CanonInv'
  <1> DEFINE kept == {x \in Nat : Contains(cr_sub, x)}
             u == input.is_unicode
  <1>1. /\ input \in Inputs /\ Separated /\ SortQuiet
        /\ arr \in Seq(Elem) /\ Proper(arr) /\ Separate(arr)
        /\ Image(Covered(arr), Moved(input), u, lost)
    BY DEF CanonInv, Unite, Goto
  <1>2. /\ pc' = "done" /\ cr' = Union(Flat(arr), cr_sub)
        /\ UNCHANGED <<input, cr_inter, cr_sub, size, idx, i, c, d, failures, lost, sortVars>>
    BY DEF Unite, Goto
  <1>3. cr_sub = Minus(input.set, Mask(input)) /\ CleanSet(cr_sub) /\ PointSet(cr_sub)
    BY <1>1, InputFacts, CleanIsPointSet DEF Separated
  <1>4. /\ PointSet(Flat(arr))
        /\ \A x \in Int : Contains(Flat(arr), x) <=> Inside(arr, Len(arr), x)
    BY <1>1, FlatFacts
  <1>5. /\ CleanSet(cr')
        /\ \A x \in Int : Contains(cr', x) <=> Contains(Flat(arr), x) \/ Contains(cr_sub, x)
    BY <1>2, <1>3, <1>4, UnionFacts
  <1>6. PointSet(cr') /\ Elements(cr') = {x \in Nat : Contains(cr', x)}
    BY <1>5, CleanIsPointSet, ElementsAre
  <1>7. Elements(cr') = Covered(arr) \cup kept
    BY <1>4, <1>5, <1>6 DEF Covered
  <1>8. Images(Elements(input.set), u) = Images(Moved(input), u) \cup kept
    BY <1>1, <1>3, FormsOf
  <1>9. CanonicalForms' = Images(Elements(input.set), u)
    BY <1>2 DEF CanonicalForms, Images
  <1> HIDE DEF kept, u
  <1>10. Elements(cr') \subseteq CanonicalForms' /\ CanonicalForms' \subseteq Elements(cr') \cup lost'
    BY <1>1, <1>2, <1>7, <1>8, <1>9 DEF Image
  <1>11. Increasing(cr')
    BY <1>5 DEF CleanSet
  <1>12. CanonExact'
    BY <1>2, <1>10, <1>11 DEF CanonExact
  <1>13. SortQuiet'
    BY <1>1, <1>2 DEF SortQuiet, sortVars
  <1> QED
    BY <1>1, <1>2, <1>12, <1>13 DEF CanonInv, CanonPhases

LEMMA CanonStutter == ASSUME CanonInv, UNCHANGED <<canonVars, sortVars>> PROVE CanonInv'
  <1>1. /\ UNCHANGED <<cr, input, cr_inter, cr_sub, size, idx, i, c, d, failures, lost, pc>>
        /\ UNCHANGED <<arr, unsorted, stack, ptr, nmemb, depth, plt, pi, pj, pgt, r, spc>>
        /\ UNCHANGED sortVars
    BY DEF canonVars, sortVars
  <1>2. SortInv => SortInv'
    BY <1>1, SortStepInv
  <1>3. Ready' <=> Ready
    BY <1>1 DEF Ready, SortQuiet
  <1>4. (SortQuiet' <=> SortQuiet) /\ (Separated' <=> Separated) /\ (AtCharacter' <=> AtCharacter)
    BY <1>1 DEF SortQuiet, Separated, AtCharacter
  <1>5. /\ Collected(DoneBelow(input, Len(cr_inter), i, c))'
             <=> Collected(DoneBelow(input, Len(cr_inter), i, c))
        /\ Collected(Moved(input))' <=> Collected(Moved(input))
    BY <1>1 DEF Collected
  <1>6. CanonExact' <=> CanonExact
    BY <1>1 DEF CanonExact, EntryFrom, CanonicalForms
  <1> QED
    BY <1>1, <1>2, <1>3, <1>4, <1>5, <1>6 DEF CanonInv

LEMMA CanonNextInv == CanonInv /\ [CanonNext]_<<canonVars, sortVars>> => CanonInv'
  <1> SUFFICES ASSUME CanonInv, [CanonNext]_<<canonVars, sortVars>> PROVE CanonInv'
    OBVIOUS
  <1>1. CASE Intersect
    BY <1>1, IntersectStep
  <1>2. CASE Subtract
    BY <1>2, SubtractStep
  <1>3. CASE Fail
    BY <1>3, FailStep
  <1>4. CASE Fold
    BY <1>4, FoldStep
  <1>5. CASE FoldEnds
    BY <1>5, FoldEndsStep
  <1>6. CASE AddLast
    BY <1>6, AddLastStep
  <1>7. CASE RemoveOverlap
    BY <1>7, RemoveOverlapStep
  <1>8. CASE Unite
    BY <1>8, UniteStep
  <1>9. CASE SortStep /\ UNCHANGED canonVars
    BY <1>9, SortingStep
  <1>10. CASE UNCHANGED <<canonVars, sortVars>>
    BY <1>10, CanonStutter
  <1> QED
    BY <1>1, <1>2, <1>3, <1>4, <1>5, <1>6, <1>7, <1>8, <1>9, <1>10 DEF CanonNext, CanonStep

--------------------------------------------------------------------------------
\* The set becomes that of the canonical forms of its characters, each found on its
\* own by halving, for every set and both flags, but for what is lost when memory
\* runs out; it is in the form the lookups need; and there is always an entry with
\* the character that is folded.  (cr_regexp_canonicalize)
THEOREM CanonicalSetIsExact == CanonSpec => []CanonExact
  <1>1. CanonInit => CanonInv
    BY CanonInitInv
  <1>2. CanonInv /\ [CanonNext]_<<canonVars, sortVars>> => CanonInv'
    BY CanonNextInv
  <1>3. CanonInv => CanonExact
    <2> SUFFICES ASSUME CanonInv PROVE CanonExact
      OBVIOUS
    <2>1. pc = "fold" /\ i < Len(cr_inter) => EntryFrom(idx) # {}
      BY EntryAhead
    <2>2. pc = "done" => CanonExact
      BY DEF CanonInv
    <2> QED
      BY <2>1, <2>2 DEF CanonExact
  <1> QED
    BY <1>1, <1>2, <1>3, PTL DEF CanonSpec

================================================================================
