---------------------------- MODULE JsRegExp_proofs ----------------------------
(***************************************************************************)
(* The methods of a RegExp object give what the reference gives, for every *)
(* subject and pattern, and whatever is done to last_index in between.     *)
(*                                                                         *)
(* The methods count in bytes, the reference in units.  The first part     *)
(* translates: exec finds the next match of the reference from the unit    *)
(* that last_index stands for, and one further last_index stands for the   *)
(* next character.  The second part gives the reference's recursive lists  *)
(* as equations.  On these rest, one part each, the types and who is in    *)
(* control; match and search; the iterations of match_all, which refine    *)
(* GlobalScan; replace and replace_all; and split.  In all of them a loop  *)
(* keeps the same fact: what it has collected, followed by what the        *)
(* reference has from here on, is what the reference has of the subject.   *)
(* When the replacement function moves last_index, this is lost; what is   *)
(* kept of each piece by itself has a part of its own.                     *)
(***************************************************************************)
EXTENDS JsRegExp, SequenceTheorems, WellFoundedInduction, TLAPS

LEMMA Least ==
  ASSUME NEW S \in SUBSET Nat, S # {}
  PROVE  \E p \in S : \A n \in S : p <= n
  <1> DEFINE R == {ss \in Nat \X Nat : ss[1] < ss[2]}
  <1>1. IsWellFoundedOn(R, Nat)
    BY NatLessThanWellFounded DEF OpToRel
  <1>2. PICK p \in S : \A n \in S : ~(<<n, p>> \in R)
    <2> HIDE DEF R
    <2> QED
      BY <1>1, WFMin
  <1>3. \A n \in S : ~(n < p)
    BY <1>2
  <1> QED
    BY <1>3

\* What holds of L, and of k whenever it holds of k + 1, holds of 0.
LEMMA Descent ==
  ASSUME NEW D \in SUBSET Nat, NEW L \in D, \A k \in Nat : k + 1 \in D => k \in D
  PROVE  0 \in D
  <1>1. PICK n \in D : \A x \in D : n <= x
    BY Least
  <1>2. SUFFICES ASSUME n # 0 PROVE FALSE
    BY <1>1
  <1>3. n - 1 \in Nat /\ n - 1 + 1 = n
    BY <1>2
  <1>4. n - 1 \in D
    BY <1>3
  <1> QED
    BY <1>1, <1>3, <1>4

--------------------------------------------------------------------------------
(***************************************************************************)
(* Bytes and units of a subject S.                                         *)
(***************************************************************************)
LEMMA StringFacts ==
  ASSUME NEW S, JsStringOK(S)
  PROVE  /\ S.len \in Nat /\ S.blen \in Nat /\ S.len <= S.blen
         /\ S.bounds \subseteq 0..S.len /\ 0 \in S.bounds /\ S.len \in S.bounds
         /\ \A u \in S.bounds : ByteOf(S, u) \in 0..S.blen
         /\ \A u, v \in S.bounds : u < v => ByteOf(S, u) < ByteOf(S, v)
         /\ ByteOf(S, 0) = 0 /\ ByteOf(S, S.len) = S.blen
  <1>1. /\ S.len \in Nat /\ S.blen \in Nat /\ S.len <= S.blen
        /\ S.bounds \subseteq 0..S.len /\ 0 \in S.bounds /\ S.len \in S.bounds
    BY DEF JsStringOK
  <1>2. CASE S.wide
    <2>1. TablesOK(S)
      BY <1>2 DEF JsStringOK
    <2>2. \A u \in S.bounds : u \in 0..S.blen
      BY <1>1
    <2> QED
      BY <1>1, <1>2, <2>1, <2>2 DEF TablesOK, ByteOf
  <1>3. CASE ~S.wide
    <2>1. S.len = S.blen
      BY <1>3 DEF JsStringOK
    <2> QED
      BY <1>1, <1>3, <2>1 DEF ByteOf
  <1> QED
    BY <1>2, <1>3

\* What a byte is translated to: the first boundary of a character there or later.
LEMMA TranslatedTo ==
  ASSUME NEW S, JsStringOK(S), NEW l \in Nat, l > 0, NEW v \in S.bounds, v # 0,
         l <= ByteOf(S, v),
         \A w \in S.bounds : ByteOf(S, w) < l \/ v <= w
  PROVE  TranslateLastIndex(S, l) = v
  <1>1. /\ S.len \in Nat /\ S.blen \in Nat /\ S.len <= S.blen
        /\ S.bounds \subseteq 0..S.len
        /\ \A u \in S.bounds : ByteOf(S, u) \in 0..S.blen
        /\ \A u, w \in S.bounds : u < w => ByteOf(S, u) < ByteOf(S, w)
    BY StringFacts
  <1>2. CASE ~S.wide
    <2>1. S.bounds = 0..S.len
      BY <1>2 DEF JsStringOK
    <2>2. \A w \in S.bounds : ByteOf(S, w) = w
      BY <1>2 DEF ByteOf
    <2>3. l <= v /\ v <= S.len
      BY <1>1, <2>2
    <2>4. l \in S.bounds
      BY <1>1, <2>1, <2>3
    <2>5. v <= l
      BY <2>2, <2>4
    <2> QED
      BY <1>1, <1>2, <2>3, <2>5 DEF TranslateLastIndex
  <1>3. CASE S.wide
    <2> DEFINE b == S.indices[v]
    <2>1. TablesOK(S)
      BY <1>3 DEF JsStringOK
    <2>2. ByteOf(S, v) = b /\ \A w \in S.bounds : ByteOf(S, w) = S.indices[w]
      BY <1>3 DEF ByteOf
    <2>3. b \in Nat /\ l <= b /\ b <= S.blen /\ S.rev[b] = v
      BY <1>1, <2>1, <2>2 DEF TablesOK
    <2>4. IsNextValid(S, l, b)
      <3>1. \A p \in l..(b - 1) : S.rev[p] = 0
        <4>1. SUFFICES ASSUME NEW p \in l..(b - 1), S.rev[p] # 0 PROVE FALSE
          OBVIOUS
        <4>2. p \in 1..S.blen
          BY <1>1, <2>3
        <4>3. S.rev[p] \in S.bounds /\ S.indices[S.rev[p]] = p
          BY <2>1, <4>1, <4>2 DEF TablesOK
        <4>4. v <= S.rev[p] /\ S.rev[p] \in Int /\ v \in Int
          BY <1>1, <2>2, <4>3
        <4>5. ~(v < S.rev[p]) /\ S.rev[p] # v
          BY <1>1, <2>2, <2>3, <4>3
        <4> QED
          BY <4>4, <4>5
      <3> QED
        BY <2>3, <3>1 DEF IsNextValid
    <2>5. ASSUME NEW r \in l..S.blen, IsNextValid(S, l, r)
          PROVE  r = b
      <3>1. ~(b < r)
        BY <2>3, <2>5 DEF IsNextValid
      <3>2. ~(r < b)
        BY <1>1, <2>3, <2>4, <2>5 DEF IsNextValid
      <3> QED
        BY <2>3, <3>1, <3>2
    <2>6. (CHOOSE r \in l..S.blen : IsNextValid(S, l, r)) = b
      <3>1. b \in l..S.blen
        BY <1>1, <2>3
      <3> HIDE DEF b
      <3> QED
        BY <2>4, <2>5, <3>1
    <2>7. l \in 1..S.blen
      BY <1>1, <2>3
    <2> QED
      BY <1>3, <2>3, <2>6, <2>7 DEF TranslateLastIndex
  <1> QED
    BY <1>2, <1>3

\* The unit at which the search for a match begins.
StartUnit(S, l) ==
  LET u == TranslateLastIndex(S, l) IN IF u > S.len THEN S.len + 1 ELSE u

LEMMA StartFacts ==
  ASSUME NEW S, JsStringOK(S), NEW l \in Nat
  PROVE  /\ TranslateLastIndex(S, 0) = 0 /\ StartUnit(S, 0) = 0
         /\ TranslateLastIndex(S, l) \in Nat
         /\ TranslateLastIndex(S, l) <= S.len =>
              TranslateLastIndex(S, l) \in S.bounds /\ StartUnit(S, l) = TranslateLastIndex(S, l)
         /\ TranslateLastIndex(S, l) > S.len => StartUnit(S, l) = S.len + 1
         /\ l > S.blen => TranslateLastIndex(S, l) > S.len
  <1>1. /\ S.len \in Nat /\ S.blen \in Nat /\ S.len <= S.blen
        /\ S.bounds \subseteq 0..S.len /\ 0 \in S.bounds /\ S.len \in S.bounds
    BY StringFacts
  <1>2. TranslateLastIndex(S, 0) = 0
    BY <1>1 DEF TranslateLastIndex
  <1>3. ~(S.wide /\ l \in 1..S.blen) =>
          TranslateLastIndex(S, l) = l /\ (l <= S.len => l \in S.bounds)
    <2>1. CASE ~S.wide
      BY <1>1, <2>1 DEF TranslateLastIndex, JsStringOK
    <2>2. CASE l \notin 1..S.blen
      <3>1. l <= S.len => l = 0
        BY <1>1, <2>2
      <3> QED
        BY <1>1, <2>2, <3>1 DEF TranslateLastIndex
    <2> QED
      BY <2>1, <2>2
  <1>4. S.wide /\ l \in 1..S.blen => TranslateLastIndex(S, l) \in S.bounds
    <2>1. SUFFICES ASSUME S.wide, l \in 1..S.blen PROVE TranslateLastIndex(S, l) \in S.bounds
      OBVIOUS
    <2> DEFINE T == {x \in l..S.blen : x = S.blen \/ S.rev[x] # 0}
    <2>2. T \in SUBSET Nat /\ T # {}
      <3>1. S.blen \in T
        BY <1>1, <2>1
      <3> QED
        BY <1>1, <3>1
    <2>3. PICK r \in T : \A x \in T : r <= x
      <3> HIDE DEF T
      <3> QED
        BY <2>2, Least
    <2>4. r \in l..S.blen /\ (r = S.blen \/ S.rev[r] # 0)
      OBVIOUS
    <2>5. \A x \in l..(r - 1) : S.rev[x] = 0
      <3>1. SUFFICES ASSUME NEW x \in l..(r - 1), S.rev[x] # 0 PROVE FALSE
        OBVIOUS
      <3>2. x \in T /\ x < r
        BY <1>1, <2>4, <3>1
      <3> QED
        BY <1>1, <2>3, <2>4, <3>2
    <2>6. IsNextValid(S, l, r)
      BY <2>4, <2>5 DEF IsNextValid
    <2> DEFINE q == CHOOSE x \in l..S.blen : IsNextValid(S, l, x)
    <2>7. q \in l..S.blen /\ (q = S.blen \/ S.rev[q] # 0)
      <3>1. q \in l..S.blen /\ IsNextValid(S, l, q)
        BY <2>4, <2>6
      <3> QED
        BY <3>1 DEF IsNextValid
    <2>8. TranslateLastIndex(S, l) = S.rev[q]
      BY <2>1 DEF TranslateLastIndex
    <2> HIDE DEF q
    <2>9. TablesOK(S)
      BY <2>1 DEF JsStringOK
    <2>10. q \in 1..S.blen
      BY <1>1, <2>1, <2>7
    <2>11. S.rev[q] \in S.bounds
      BY <1>1, <2>7, <2>9, <2>10 DEF TablesOK
    <2> QED
      BY <2>8, <2>11
  <1>5. TranslateLastIndex(S, l) \in Nat
    BY <1>1, <1>3, <1>4
  <1>6. TranslateLastIndex(S, l) <= S.len => TranslateLastIndex(S, l) \in S.bounds
    BY <1>3, <1>4
  <1>7. l > S.blen => TranslateLastIndex(S, l) > S.len
    BY <1>1, <1>3
  <1> QED
    BY <1>1, <1>2, <1>5, <1>6, <1>7 DEF StartUnit

\* The next character is the one the reference advances to.
LEMMA AdvanceFacts ==
  ASSUME NEW S, JsStringOK(S), NEW u \in Nat, u < S.len
  PROVE  /\ Reference!Advance(S, u) \in S.bounds
         /\ u < Reference!Advance(S, u)
         /\ \A w \in S.bounds : u < w => Reference!Advance(S, u) <= w
  <1>1. /\ S.len \in Nat /\ S.bounds \subseteq 0..S.len /\ S.len \in S.bounds
    BY StringFacts
  <1> DEFINE T == {w \in S.bounds : u < w}
  <1>2. T \in SUBSET Nat /\ T # {}
    <2>1. S.len \in T
      BY <1>1
    <2> QED
      BY <1>1, <2>1
  <1>3. PICK v \in T : \A w \in T : v <= w
    <2> HIDE DEF T
    <2> QED
      BY <1>2, Least
  <1>4. v \in S.bounds /\ u < v /\ \A w \in S.bounds : u < w => v <= w
    BY <1>3
  <1>5. ~(u >= S.len)
    BY <1>1
  <1>6. Reference!Advance(S, u) = CHOOSE x \in S.bounds : u < x /\ \A w \in S.bounds : u < w => x <= w
    BY <1>5 DEF Reference!Advance
  <1> QED
    BY <1>4, <1>6

\* Where the search goes on after a match from u to e.
LEMMA GoesOn ==
  ASSUME NEW S, JsStringOK(S), NEW u \in S.bounds, NEW e \in S.bounds, u <= e
  PROVE  /\ ByteOf(S, u) = ByteOf(S, e) <=> u = e
         /\ ByteOf(S, u) <= ByteOf(S, e)
         /\ StartUnit(S, IF u = e THEN ByteOf(S, e) + 1 ELSE ByteOf(S, e)) =
              Reference!AfterMatch(S, <<u, e>>)
  <1>1. /\ S.len \in Nat /\ S.blen \in Nat
        /\ S.bounds \subseteq 0..S.len /\ S.len \in S.bounds
        /\ \A w \in S.bounds : ByteOf(S, w) \in 0..S.blen
        /\ \A w, x \in S.bounds : w < x => ByteOf(S, w) < ByteOf(S, x)
        /\ ByteOf(S, S.len) = S.blen
    BY StringFacts
  <1>2. u \in Nat /\ e \in Nat /\ ByteOf(S, u) \in Nat /\ ByteOf(S, e) \in Nat
    BY <1>1
  <1>3. \A w, x \in S.bounds : ByteOf(S, w) < ByteOf(S, x) \/ x <= w
    BY <1>1
  <1>4. CASE u < e
    <2>1. ByteOf(S, u) < ByteOf(S, e)
      BY <1>1, <1>4
    <2>2. TranslateLastIndex(S, ByteOf(S, e)) = e
      <3>1. ByteOf(S, e) > 0 /\ ByteOf(S, e) <= ByteOf(S, e) /\ e # 0
        BY <1>2, <1>4, <2>1
      <3> QED
        BY <1>2, <1>3, <3>1, TranslatedTo
    <2>3. e <= S.len
      BY <1>1
    <2>4. StartUnit(S, ByteOf(S, e)) = e
      BY <1>1, <1>2, <2>2, <2>3, StartFacts
    <2>5. Reference!AfterMatch(S, <<u, e>>) = e
      BY <1>2, <1>4 DEF Reference!AfterMatch
    <2> QED
      BY <1>2, <1>4, <2>1, <2>4, <2>5
  <1>5. CASE u = e
    <2> DEFINE l == ByteOf(S, e) + 1
               v == Reference!Advance(S, e)
    <2>1. Reference!AfterMatch(S, <<u, e>>) = v
      BY <1>5 DEF Reference!AfterMatch
    <2>2. l \in Nat /\ l > 0
      BY <1>2
    <2>3. CASE e < S.len
      <3>1. v \in S.bounds /\ e < v /\ \A w \in S.bounds : e < w => v <= w
        BY <1>2, <2>3, AdvanceFacts
      <3>2. l <= ByteOf(S, v)
        <4> HIDE DEF v
        <4>1. ByteOf(S, e) < ByteOf(S, v) /\ ByteOf(S, v) \in Nat
          BY <1>1, <3>1
        <4> QED
          BY <1>2, <4>1
      <3>3. \A w \in S.bounds : ByteOf(S, w) < l \/ v <= w
        <4> TAKE w \in S.bounds
        <4>1. w <= e \/ e < w
          BY <1>1
        <4>2. w <= e => ByteOf(S, w) <= ByteOf(S, e) /\ ByteOf(S, w) \in Nat
          BY <1>1
        <4> QED
          BY <1>2, <3>1, <4>1, <4>2
      <3>4. v # 0 /\ v <= S.len
        BY <1>1, <1>2, <3>1
      <3> HIDE DEF l, v
      <3>5. TranslateLastIndex(S, l) = v
        BY <2>2, <3>1, <3>2, <3>3, <3>4, TranslatedTo
      <3>6. StartUnit(S, l) = v
        BY <2>2, <3>4, <3>5, StartFacts
      <3> QED
        BY <1>2, <1>5, <2>1, <3>6 DEF l, v
    <2>4. CASE e = S.len
      <3>1. v = S.len + 1
        BY <1>1, <2>4 DEF Reference!Advance
      <3>2. l > S.blen
        BY <1>1, <2>4
      <3>3. StartUnit(S, l) = S.len + 1
        <4> HIDE DEF l
        <4> QED
          BY <1>1, <2>2, <3>2, StartFacts
      <3> QED
        BY <1>2, <1>5, <2>1, <3>1, <3>3
    <2> QED
      BY <1>1, <2>3, <2>4
  <1> QED
    BY <1>2, <1>4, <1>5

\* Boundaries before the unit at which a search begins lie before its byte.
LEMMA BeforeStart ==
  ASSUME NEW S, JsStringOK(S), NEW l \in Nat, NEW v \in S.bounds, v < StartUnit(S, l)
  PROVE  ByteOf(S, v) < l
  <1> DEFINE b == ByteOf(S, v)
             T == {w \in S.bounds : l <= ByteOf(S, w)}
  <1>1. /\ S.len \in Nat /\ S.blen \in Nat /\ S.bounds \subseteq 0..S.len
        /\ \A w \in S.bounds : ByteOf(S, w) \in 0..S.blen
        /\ \A w, x \in S.bounds : w < x => ByteOf(S, w) < ByteOf(S, x)
    BY StringFacts
  <1>2. SUFFICES ASSUME l <= b PROVE FALSE
    BY <1>1
  <1>3. l > 0
    BY <1>1, <1>2, StartFacts
  <1>4. PICK x \in T : \A y \in T : x <= y
    <2>1. v \in T /\ T \subseteq 0..S.len
      BY <1>1, <1>2
    <2> HIDE DEF T
    <2> QED
      BY <1>1, <2>1, Least
  <1>5. x \in S.bounds /\ l <= ByteOf(S, x) /\ x <= v /\ x \in Nat
    BY <1>1, <1>2, <1>4
  <1>6. x # 0
    BY <1>1, <1>3, <1>5, StringFacts
  <1>7. \A w \in S.bounds : ByteOf(S, w) < l \/ x <= w
    <2> TAKE w \in S.bounds
    <2>1. ByteOf(S, w) \in Nat
      BY <1>1
    <2> QED
      BY <1>4, <2>1
  <1>8. TranslateLastIndex(S, l) = x
    BY <1>3, <1>5, <1>6, <1>7, TranslatedTo
  <1>9. StartUnit(S, l) = x
    BY <1>1, <1>5, <1>8, StartFacts
  <1> QED
    BY <1>1, <1>5, <1>9

LEMMA StartOfByte ==
  ASSUME NEW S, JsStringOK(S), NEW u \in S.bounds
  PROVE  StartUnit(S, ByteOf(S, u)) = u
  <1>1. /\ S.len \in Nat /\ S.bounds \subseteq 0..S.len /\ 0 \in S.bounds
        /\ \A w \in S.bounds : ByteOf(S, w) \in 0..S.blen
        /\ \A w, x \in S.bounds : w < x => ByteOf(S, w) < ByteOf(S, x)
        /\ ByteOf(S, 0) = 0
    BY StringFacts
  <1>2. CASE u = 0
    BY <1>1, <1>2, StartFacts
  <1>3. CASE u # 0
    <2>1. ByteOf(S, u) > 0 /\ ByteOf(S, u) \in Nat /\ ByteOf(S, u) <= ByteOf(S, u)
      <3>1. 0 < u
        BY <1>1, <1>3
      <3> QED
        BY <1>1, <3>1
    <2>2. \A w \in S.bounds : ByteOf(S, w) < ByteOf(S, u) \/ u <= w
      <3> TAKE w \in S.bounds
      <3>1. w < u \/ u <= w
        BY <1>1
      <3> QED
        BY <1>1, <3>1
    <2>3. TranslateLastIndex(S, ByteOf(S, u)) = u
      BY <1>3, <2>1, <2>2, TranslatedTo
    <2>4. u <= S.len
      BY <1>1
    <2> QED
      BY <2>1, <2>3, <2>4, StartFacts
  <1> QED
    BY <1>2, <1>3

--------------------------------------------------------------------------------
(***************************************************************************)
(* What regexp_exec finds, and what the reference finds.                   *)
(***************************************************************************)
Good(S, R) == JsStringOK(S) /\ RegExpOK(R, S)

\* There is at most one next match, and it starts and ends at boundaries.
LEMMA NextMatchFacts ==
  ASSUME NEW S, NEW R, Good(S, R), AlignedOn(R, S), NEW p \in Nat,
         NEW m \in Reference!NextMatches(S, R, p)
  PROVE  /\ m = <<m[1], m[2]>> /\ m[2] = R.ends[m[1]]
         /\ m[1] \in S.bounds /\ m[2] \in S.bounds /\ m[1] <= m[2]
         /\ p <= m[1] /\ m[1] \in 0..S.len /\ m[2] \in 0..S.len
         /\ Reference!NextMatches(S, R, p) = {m}
  <1>1. /\ S.len \in Nat /\ S.bounds \subseteq 0..S.len
    BY StringFacts DEF Good
  <1>2. /\ \A u \in 0..S.len : R.ends[u] # NoMatch => u <= R.ends[u]
        /\ \A u \in 0..S.len : R.ends[u] # NoMatch => u \in S.bounds /\ R.ends[u] \in S.bounds
    BY DEF Good, RegExpOK, AlignedOn
  <1>3. \A x \in Reference!NextMatches(S, R, p) :
          /\ x[1] \in 0..S.len /\ R.ends[x[1]] # NoMatch /\ x = <<x[1], R.ends[x[1]]>>
          /\ p <= x[1]
          /\ \A v \in p..(x[1] - 1) : R.ends[v] = NoMatch
    BY DEF Reference!NextMatches, Reference!IsNext, Reference!Spans
  <1>4. m = <<m[1], m[2]>> /\ m[2] = R.ends[m[1]]
    BY <1>3
  <1>5. ASSUME NEW x \in Reference!NextMatches(S, R, p)
        PROVE  x = m
    <2>1. ~(x[1] < m[1])
      BY <1>1, <1>3
    <2>2. ~(m[1] < x[1])
      BY <1>1, <1>3
    <2>3. x[1] \in 0..S.len /\ m[1] \in 0..S.len
      BY <1>3
    <2>4. x[1] = m[1]
      BY <1>1, <2>1, <2>2, <2>3
    <2> QED
      BY <1>3, <2>4
  <1>6. m[1] \in S.bounds /\ m[2] \in S.bounds /\ m[1] <= m[2] /\ m[1] \in 0..S.len
    BY <1>2, <1>3, <1>4
  <1> QED
    BY <1>1, <1>3, <1>4, <1>5, <1>6

LEMMA NoneLeft ==
  ASSUME NEW S, NEW R, Good(S, R), NEW p \in Nat, p > S.len
  PROVE  Reference!NextMatches(S, R, p) = {}
  <1>1. S.len \in Nat
    BY StringFacts DEF Good
  <1>2. \A x \in Reference!NextMatches(S, R, p) : x[1] \in 0..S.len /\ p <= x[1]
    BY DEF Reference!NextMatches, Reference!IsNext, Reference!Spans
  <1> QED
    BY <1>1, <1>2

Begins(S, R, l) == IF Indexed(R) THEN l ELSE 0

ResultOf(S, R, m) ==
  [found |-> TRUE, from |-> ByteOf(S, m[1]), to |-> ByteOf(S, m[2]),
   last |-> StoredIndex(R, ByteOf(S, m[1]), ByteOf(S, m[2])), ok |-> TRUE]

\* exec finds what the reference finds from the unit of last_index on.
LEMMA ExecIsNext ==
  ASSUME NEW S, NEW R, Good(S, R), AlignedOn(R, S), NEW l \in Nat
  PROVE  LET hits == Reference!NextMatches(S, R, StartUnit(S, Begins(S, R, l)))
         IN /\ hits = {} => Exec(R, S, l) = NoResult
            /\ \A m \in hits : Exec(R, S, l) = ResultOf(S, R, m)
  <1> DEFINE start == IF Indexed(R) THEN TranslateLastIndex(S, l) ELSE 0
             p == StartUnit(S, Begins(S, R, l))
             hits == Reference!NextMatches(S, R, p)
             found == Matches(R, S, start)
  <1>1. /\ S.len \in Nat /\ S.bounds \subseteq 0..S.len
    BY StringFacts DEF Good
  <1>2. /\ start \in Nat
        /\ start <= S.len => start \in S.bounds /\ p = start
        /\ start > S.len => p = S.len + 1
    <2>1. CASE Indexed(R)
      BY <2>1, StartFacts DEF Good, Begins
    <2>2. CASE ~Indexed(R)
      BY <1>1, <2>2, StartFacts, StringFacts DEF Good, Begins
    <2> QED
      BY <2>1, <2>2
  <1> HIDE DEF start, p
  <1>3. CASE start > S.len
    <2>1. hits = {}
      BY <1>1, <1>2, <1>3, NoneLeft
    <2>2. Exec(R, S, l) = NoResult
      BY <1>3 DEF Exec, start
    <2> QED
      BY <2>1, <2>2 DEF p
  <1>4. CASE start <= S.len
    <2>1. EngineStart(R, S, start) = start /\ p = start
      BY <1>2, <1>4 DEF EngineStart
    <2>2. \A u \in 0..S.len : u \in found <=> <<u, R.ends[u]>> \in hits
      <3> TAKE u \in 0..S.len
      <3>1. u \in found <=>
              /\ u \in start..S.len
              /\ R.ends[u] # NoMatch
              /\ IF R.sticky THEN u = start ELSE \A v \in start..(u - 1) : R.ends[v] = NoMatch
        BY <2>1 DEF Matches, IsMatchAt
      <3>2. <<u, R.ends[u]>> \in hits <=>
              /\ R.ends[u] # NoMatch
              /\ start <= u
              /\ \A v \in start..(u - 1) : R.ends[v] = NoMatch
              /\ R.sticky => u = start
        BY <2>1 DEF Reference!NextMatches, Reference!IsNext, Reference!Spans
      <3>3. u \in start..S.len <=> start <= u
        BY <1>1, <1>2
      <3>4. u = start => \A v \in start..(u - 1) : R.ends[v] = NoMatch
        BY <1>1, <1>2
      <3> QED
        BY <3>1, <3>2, <3>3, <3>4
    <2>3. \A m \in hits : m[1] \in 0..S.len /\ m = <<m[1], R.ends[m[1]]>>
      BY DEF Reference!NextMatches, Reference!Spans
    <2>4. found \subseteq 0..S.len
      BY DEF Matches
    <2>5. CASE hits = {}
      <3>1. found = {}
        BY <2>2, <2>4, <2>5
      <3> HIDE DEF found
      <3>2. Exec(R, S, l) = NoResult
        BY <3>1 DEF Exec, start, found
      <3> QED
        BY <2>5, <3>2 DEF p
    <2>6. ASSUME NEW m \in hits
          PROVE  Exec(R, S, l) = ResultOf(S, R, m)
      <3>1. /\ m = <<m[1], m[2]>> /\ m[2] = R.ends[m[1]] /\ hits = {m}
            /\ m[1] \in S.bounds /\ m[2] \in S.bounds /\ m[1] <= m[2]
        <4>1. p \in Nat
          BY <1>1, <1>2, <2>1
        <4> QED
          BY <4>1, <2>6, NextMatchFacts
      <3>2. found = {m[1]}
        <4>1. m[1] \in found
          BY <2>2, <2>3, <2>6
        <4>2. \A u \in found : u = m[1]
          <5> TAKE u \in found
          <5>1. <<u, R.ends[u]>> \in hits
            BY <2>2, <2>4
          <5>2. <<u, R.ends[u]>> = m
            BY <3>1, <5>1
          <5> QED
            BY <5>2
        <4> QED
          BY <4>1, <4>2
      <3>3. (CHOOSE x \in found : TRUE) = m[1]
        BY <3>2
      <3>4. ByteOf(S, m[1]) <= ByteOf(S, m[2])
        BY <3>1, GoesOn DEF Good
      <3>5. ~(start > S.len \/ found = {})
        BY <1>1, <1>2, <1>4, <3>2
      <3> HIDE DEF found, hits
      <3>6. Exec(R, S, l) =
              [found |-> TRUE, from |-> ByteOf(S, m[1]), to |-> ByteOf(S, R.ends[m[1]]),
               last |-> StoredIndex(R, ByteOf(S, m[1]), ByteOf(S, R.ends[m[1]])),
               ok |-> ByteOf(S, m[1]) <= ByteOf(S, R.ends[m[1]])]
        BY <3>3, <3>5 DEF Exec, start, found
      <3> QED
        BY <3>1, <3>4, <3>6 DEF ResultOf
    <2> QED
      BY <2>5, <2>6 DEF p
  <1> QED
    BY <1>1, <1>2, <1>3, <1>4

--------------------------------------------------------------------------------
(***************************************************************************)
(* The matches of the reference from a unit on.  Each is sought behind the *)
(* last one, so that there is a function that lists them: it is extended   *)
(* unit by unit from the end of the subject.                               *)
(***************************************************************************)
Hits(S, R, u) == Reference!NextMatches(S, R, u)
TheHit(S, R, u) == CHOOSE x \in Hits(S, R, u) : TRUE
Behind(S, R, u) == Reference!AfterMatch(S, TheHit(S, R, u))

LEMMA BehindFacts ==
  ASSUME NEW S, NEW R, Good(S, R), AlignedOn(R, S), NEW u \in Nat, Hits(S, R, u) # {}
  PROVE  /\ TheHit(S, R, u) \in Hits(S, R, u)
         /\ TheHit(S, R, u) \in Reference!Spans(S, R)
         /\ Behind(S, R, u) \in Nat /\ Behind(S, R, u) > u
  <1> DEFINE m == TheHit(S, R, u)
  <1>1. m \in Hits(S, R, u)
    BY DEF TheHit
  <1> HIDE DEF m
  <1>2. m \in Reference!Spans(S, R)
    BY <1>1 DEF Hits, Reference!NextMatches
  <1>3. /\ m[1] \in S.bounds /\ m[2] \in S.bounds /\ m[1] <= m[2] /\ u <= m[1]
    BY <1>1, NextMatchFacts DEF Hits
  <1>4. S.len \in Nat /\ S.bounds \subseteq 0..S.len
    BY StringFacts DEF Good
  <1>5. Reference!AfterMatch(S, m) \in Nat /\ Reference!AfterMatch(S, m) > u
    <2>1. CASE m[1] # m[2]
      BY <1>3, <1>4, <2>1 DEF Reference!AfterMatch
    <2>2. CASE m[1] = m[2] /\ m[2] < S.len
      <3>1. Reference!Advance(S, m[2]) \in S.bounds /\ m[2] < Reference!Advance(S, m[2])
        BY <1>3, <1>4, <2>2, AdvanceFacts DEF Good
      <3>2. Reference!AfterMatch(S, m) = Reference!Advance(S, m[2])
        BY <2>2 DEF Reference!AfterMatch
      <3> QED
        BY <1>3, <1>4, <3>1, <3>2
    <2>3. CASE m[1] = m[2] /\ m[2] >= S.len
      <3>1. Reference!AfterMatch(S, m) = S.len + 1
        BY <2>3 DEF Reference!AfterMatch, Reference!Advance
      <3> QED
        BY <1>3, <1>4, <3>1
    <2> QED
      BY <1>3, <1>4, <2>1, <2>2, <2>3
  <1> QED
    BY <1>1, <1>2, <1>5 DEF Behind, m

Listed(S, R, f, u) ==
  IF Hits(S, R, u) = {} THEN <<>> ELSE <<TheHit(S, R, u)>> \o f[Behind(S, R, u)]

From(n) == {u \in Nat : u >= n}

Lists(S, R, n, f) ==
  /\ f = [u \in From(n) |-> f[u]]
  /\ \A u \in From(n) : f[u] = Listed(S, R, f, u)

LEMMA ListsDown ==
  ASSUME NEW S, NEW R, Good(S, R), AlignedOn(R, S), NEW n \in Nat, NEW f, Lists(S, R, n + 1, f)
  PROVE  \E g : Lists(S, R, n, g)
  <1> DEFINE v == Listed(S, R, f, n)
             g == [u \in From(n) |-> IF u = n THEN v ELSE f[u]]
  <1>1. \A u \in From(n) : u = n \/ u \in From(n + 1)
    BY DEF From
  <1>2. \A u \in From(n + 1) : u \in From(n) /\ u # n
    BY DEF From
  <1> HIDE DEF v
  <1>3. \A u \in From(n + 1) : g[u] = f[u]
    BY <1>2
  <1>4. g[n] = v
    BY DEF From
  <1>5. g = [u \in From(n) |-> g[u]]
    OBVIOUS
  <1> HIDE DEF g
  <1>6. ASSUME NEW u \in From(n)
        PROVE  g[u] = Listed(S, R, g, u)
    <2>1. u \in Nat /\ u >= n
      BY DEF From
    <2>2. g[u] = Listed(S, R, f, u)
      BY <1>1, <1>3, <1>4 DEF Lists, v
    <2>3. CASE Hits(S, R, u) = {}
      BY <2>2, <2>3 DEF Listed
    <2>4. CASE Hits(S, R, u) # {}
      <3>1. Behind(S, R, u) \in Nat /\ Behind(S, R, u) > u
        BY <2>1, <2>4, BehindFacts
      <3>2. Behind(S, R, u) \in From(n + 1)
        BY <2>1, <3>1 DEF From
      <3> QED
        BY <1>3, <2>2, <2>4, <3>2 DEF Listed
    <2> QED
      BY <2>3, <2>4
  <1> QED
    BY <1>5, <1>6 DEF Lists

LEMMA ListsExist ==
  ASSUME NEW S, NEW R, Good(S, R), AlignedOn(R, S)
  PROVE  \E f : Lists(S, R, 0, f)
  <1> DEFINE L == S.len + 1
             D == {n \in Nat : \E f : Lists(S, R, n, f)}
  <1>1. L \in Nat
    BY StringFacts DEF Good
  <1>2. L \in D
    <2> DEFINE f == [u \in From(L) |-> <<>>]
    <2>1. \A u \in From(L) : Hits(S, R, u) = {}
      BY <1>1, NoneLeft, StringFacts DEF From, Hits, Good
    <2>2. Lists(S, R, L, f)
      BY <2>1 DEF Lists, Listed
    <2> QED
      BY <1>1, <2>2
  <1>3. ASSUME NEW k \in Nat, k + 1 \in D PROVE k \in D
    <2>1. PICK f : Lists(S, R, k + 1, f)
      BY <1>3
    <2>2. \E g : Lists(S, R, k, g)
      BY <2>1, ListsDown
    <2> QED
      BY <2>2
  <1>4. D \in SUBSET Nat
    OBVIOUS
  <1> HIDE DEF D, L
  <1>5. 0 \in D
    BY <1>2, <1>3, <1>4, Descent
  <1> QED
    BY <1>5 DEF D

LEMMA ScanEquation ==
  ASSUME NEW S, NEW R, Good(S, R), AlignedOn(R, S), NEW u \in Nat
  PROVE  /\ Hits(S, R, u) = {} => Reference!ScanFrom(S, R, u) = <<>>
         /\ Hits(S, R, u) # {} =>
              Reference!ScanFrom(S, R, u) =
                <<TheHit(S, R, u)>> \o Reference!ScanFrom(S, R, Behind(S, R, u))
         /\ Reference!ScanFrom(S, R, u) \in Seq(Reference!Spans(S, R))
  <1> DEFINE scan == CHOOSE f : f = [x \in Nat |-> Listed(S, R, f, x)]
             L == S.len + 1
             Q == Seq(Reference!Spans(S, R))
  <1>1. From(0) = Nat
    BY DEF From
  <1>2. scan = [x \in Nat |-> Listed(S, R, scan, x)]
    <2>1. PICK f : Lists(S, R, 0, f)
      BY ListsExist
    <2>2. f = [x \in Nat |-> f[x]] /\ \A x \in Nat : f[x] = Listed(S, R, f, x)
      BY <1>1, <2>1 DEF Lists
    <2>3. f = [x \in Nat |-> Listed(S, R, f, x)]
      BY <2>2
    <2> QED
      BY <2>3
  <1>3. \A x \in Nat : Reference!ScanFrom(S, R, x) = scan[x]
    BY DEF Reference!ScanFrom, Listed, Hits, TheHit, Behind
  <1> HIDE DEF scan
  <1>4. \A x \in Nat : scan[x] = Listed(S, R, scan, x)
    BY <1>2
  <1>0. <<>> \in Q
    BY EmptySeq
  <1>5. \A x \in Nat : scan[x] \in Q
    <2> DEFINE D == {n \in Nat : \A x \in From(n) : scan[x] \in Q}
    <2>1. L \in D
      <3>1. L \in Nat
        BY StringFacts DEF Good
      <3>2. \A x \in From(L) : Hits(S, R, x) = {} /\ x \in Nat
        BY <3>1, NoneLeft, StringFacts DEF From, Hits, Good
      <3>3. \A x \in From(L) : scan[x] = <<>>
        BY <1>4, <3>2 DEF Listed
      <3> QED
        BY <1>0, <3>1, <3>3
    <2>2. ASSUME NEW k \in Nat, k + 1 \in D PROVE k \in D
      <3>1. scan[k] \in Q
        <4>1. CASE Hits(S, R, k) = {}
          <5>1. scan[k] = <<>>
            BY <1>4, <4>1 DEF Listed
          <5> QED
            BY <1>0, <5>1
        <4>2. CASE Hits(S, R, k) # {}
          <5>1. /\ TheHit(S, R, k) \in Reference!Spans(S, R)
                /\ Behind(S, R, k) \in Nat /\ Behind(S, R, k) > k
            BY <4>2, BehindFacts
          <5>2. Behind(S, R, k) \in From(k + 1)
            BY <5>1 DEF From
          <5>3. scan[Behind(S, R, k)] \in Q
            BY <2>2, <5>2
          <5>4. <<TheHit(S, R, k)>> \in Q
            BY <5>1
          <5>5. <<TheHit(S, R, k)>> \o scan[Behind(S, R, k)] \in Q
            BY <5>3, <5>4, ConcatProperties
          <5> QED
            BY <1>4, <4>2, <5>5 DEF Listed
        <4> QED
          BY <4>1, <4>2
      <3>2. \A x \in From(k) : x = k \/ x \in From(k + 1)
        BY DEF From
      <3> QED
        BY <2>2, <3>1, <3>2
    <2>3. D \in SUBSET Nat
      OBVIOUS
    <2> HIDE DEF D, L
    <2>4. 0 \in D
      BY <2>1, <2>2, <2>3, Descent
    <2> QED
      BY <1>1, <2>4 DEF D
  <1>6. Hits(S, R, u) # {} => Behind(S, R, u) \in Nat
    BY BehindFacts
  <1> QED
    BY <1>3, <1>4, <1>5, <1>6 DEF Listed

--------------------------------------------------------------------------------
(***************************************************************************)
(* The types, and who is in control.                                       *)
(***************************************************************************)
\* Whatever the pattern does, the bytes of a result are bytes of the subject.
LEMMA ExecTypes ==
  ASSUME NEW S, NEW R, Good(S, R), NEW l \in Nat
  PROVE  LET r == Exec(R, S, l)
         IN /\ r.found \in BOOLEAN /\ r.ok \in BOOLEAN
            /\ r.from \in 0..S.blen /\ r.to \in 0..S.blen /\ r.last \in 0..S.blen
            /\ ~r.found => r.ok
  <1> DEFINE start == IF Indexed(R) THEN TranslateLastIndex(S, l) ELSE 0
             found == Matches(R, S, start)
             u == CHOOSE x \in found : TRUE
             from == ByteOf(S, u)
             to == ByteOf(S, R.ends[u])
  <1>1. S.len \in Nat /\ S.blen \in Nat /\ S.len <= S.blen
    BY StringFacts DEF Good
  <1>2. \A x \in 0..S.len : ByteOf(S, x) \in 0..S.blen
    <2>1. CASE S.wide
      <3>1. S.indices \in [0..S.blen -> 0..S.blen]
        BY <2>1 DEF Good, JsStringOK, TablesOK
      <3>2. \A x \in 0..S.len : x \in 0..S.blen
        BY <1>1
      <3> QED
        BY <2>1, <3>1, <3>2 DEF ByteOf
    <2>2. CASE ~S.wide
      BY <1>1, <2>2 DEF ByteOf
    <2> QED
      BY <2>1, <2>2
  <1>3. CASE start > S.len \/ found = {}
    <2>1. Exec(R, S, l) = NoResult
      BY <1>3 DEF Exec
    <2>2. 0 \in 0..S.blen
      BY <1>1
    <2> QED
      BY <2>1, <2>2 DEF NoResult
  <1>4. CASE ~(start > S.len \/ found = {})
    <2>1. u \in found
      BY <1>4
    <2>2. u \in 0..S.len /\ R.ends[u] # NoMatch
      BY <2>1 DEF Matches, IsMatchAt
    <2>3. R.ends[u] \in 0..S.len
      BY <2>2 DEF Good, RegExpOK
    <2>4. from \in 0..S.blen /\ to \in 0..S.blen
      BY <1>2, <2>2, <2>3
    <2>5. Exec(R, S, l) = [found |-> TRUE, from |-> from, to |-> to,
                           last |-> StoredIndex(R, from, to), ok |-> from <= to]
      BY <1>4 DEF Exec
    <2> HIDE DEF from, to
    <2>6. StoredIndex(R, from, to) \in 0..S.blen
      BY <1>1, <2>4 DEF StoredIndex
    <2> QED
      BY <2>4, <2>5, <2>6
  <1> QED
    BY <1>3, <1>4

Pieces == {"kept", "replaced"} \X Nat \X (0..js.blen)

Locals ==
  [op : Methods \cup {"none"}, phase : {"idle", "loop", "callback", "done", "raised"},
   li2 : Nat, found : Seq(SpansOfSubject), out : SUBSET Pieces,
   prev : 0..js.blen, cur : Nat, callback : BOOLEAN, limit : Nat, turn : {0, 1},
   alone : BOOLEAN]

Shape ==
  /\ Good(js, re)
  /\ li \in Nat
  /\ running \in Threads \cup {NoThread}
  /\ th \in [Threads -> Locals]

Loops == {"match", "match_all_list", "split", "replace_all"}
Replaces == {"replace", "replace_all"}

Control ==
  \A t \in Threads :
    /\ running = t => th[t].phase = "loop" /\ th[t].op \in Loops
    /\ th[t].phase = "callback" => th[t].op \in Replaces

JInv == Shape /\ Control

\* What every method does in a step: of the locals only its own.
Moves(t, local) ==
  /\ Fixed /\ li' \in Nat
  /\ local \in Locals
  /\ th' = [th EXCEPT ![t] = local]
  /\ running \in {t, NoThread} /\ running' \in {t, NoThread}
  /\ running' = t => local.phase = "loop" /\ local.op \in Loops
  /\ local.phase = "callback" => local.op \in Replaces

LEMMA MovesKeep ==
  ASSUME JInv, NEW t \in Threads, NEW local, Moves(t, local)
  PROVE  JInv'
  <1>1. /\ th \in [Threads -> Locals] /\ local \in Locals
        /\ th' = [th EXCEPT ![t] = local]
        /\ js' = js /\ re' = re /\ li' \in Nat
        /\ running \in {t, NoThread} /\ running' \in {t, NoThread}
    BY DEF JInv, Shape, Moves, Fixed
  <1>2. th' \in [Threads -> Locals] /\ th'[t] = local /\ \A x \in Threads : x # t => th'[x] = th[x]
    BY <1>1
  <1>3. Locals' = Locals
    BY <1>1 DEF Locals, SpansOfSubject, Pieces
  <1>4. Shape'
    BY <1>1, <1>2, <1>3 DEF JInv, Shape, Good
  <1>5. Control'
    BY <1>1, <1>2, NoThreadAssumption DEF JInv, Control, Moves
  <1> QED
    BY <1>4, <1>5 DEF JInv

LEMMA FreshType == ASSUME JInv, NEW m \in Methods \cup {"none"} PROVE Fresh(m) \in Locals
  <1>1. 0 \in 0..js.blen
    BY StringFacts DEF JInv, Shape, Good
  <1>2. <<>> \in Seq(SpansOfSubject)
    BY EmptySeq
  <1> QED
    BY <1>1, <1>2 DEF Fresh, Locals

\* The steps of a method of which the locals are types.
LEMMA EndsMoves ==
  ASSUME JInv, NEW t \in Threads, NEW local \in Locals, Ends(t, local),
         running \in {t, NoThread}, Fixed, li' \in Nat,
         local.phase = "callback" => local.op \in Replaces
  PROVE  Moves(t, [local EXCEPT !.turn = 0])
  <1> DEFINE new == [local EXCEPT !.turn = 0]
  <1>1. /\ new \in Locals
        /\ new.phase = local.phase /\ new.op = local.op
    BY DEF Locals
  <1>2. th' = [th EXCEPT ![t] = new] /\ running' = NoThread
    BY DEF Ends
  <1> HIDE DEF new
  <1>3. NoThread # t
    BY NoThreadAssumption
  <1> QED
    BY <1>1, <1>2, <1>3 DEF Moves, new

LEMMA ContinuesMoves ==
  ASSUME JInv, NEW t \in Threads, NEW local \in Locals, Continues(t, local),
         running = t, Fixed, li' \in Nat,
         local.phase = "loop", local.op = th[t].op
  PROVE  Moves(t, [local EXCEPT !.turn = 1 - @])
  <1> DEFINE new == [local EXCEPT !.turn = 1 - @]
  <1>1. /\ new \in Locals
        /\ new.phase = local.phase /\ new.op = local.op
    <2>1. 1 - local.turn \in {0, 1}
      BY DEF Locals
    <2> QED
      BY <2>1 DEF Locals
  <1>2. th' = [th EXCEPT ![t] = new] /\ running' = t
    BY DEF Continues
  <1> HIDE DEF new
  <1>3. local.op \in Loops
    BY DEF JInv, Control, Loops
  <1> QED
    BY <1>1, <1>2, <1>3 DEF Moves, new

LEMMA ResultTypes ==
  ASSUME JInv, NEW R, R = re \/ R = [re EXCEPT !.sticky = TRUE], NEW l \in Nat, NEW r,
         r = Exec(R, js, l)
  PROVE  /\ r.found \in BOOLEAN /\ r.ok \in BOOLEAN
         /\ r.from \in 0..js.blen /\ r.to \in 0..js.blen /\ r.last \in 0..js.blen
         /\ r.from \in Nat /\ r.to \in Nat /\ r.last \in Nat /\ PastEmpty(r) \in Nat
         /\ Span(r) \in SpansOfSubject
         /\ Replaced(r) \in SUBSET Pieces
         /\ \A x \in Nat : Kept(x, r.from) \in SUBSET Pieces /\ Kept(x, js.blen) \in SUBSET Pieces
  <1>1. js.blen \in Nat
    BY StringFacts DEF JInv, Shape, Good
  <1>2. Good(js, R)
    <2>1. R.ends = re.ends /\ R \in [global : BOOLEAN, sticky : BOOLEAN, unicode : BOOLEAN,
                                    ends : [0..js.len -> (0..js.len) \cup {NoMatch}]]
      BY DEF JInv, Shape, Good, RegExpOK
    <2> QED
      BY <2>1 DEF JInv, Shape, Good, RegExpOK
  <1>3. /\ r.found \in BOOLEAN /\ r.ok \in BOOLEAN
        /\ r.from \in 0..js.blen /\ r.to \in 0..js.blen /\ r.last \in 0..js.blen
    BY <1>2, ExecTypes
  <1>4. r.from \in Nat /\ r.to \in Nat /\ r.last \in Nat /\ js.blen \in 0..js.blen
    BY <1>1, <1>3
  <1>5. PastEmpty(r) \in Nat
    BY <1>4 DEF PastEmpty
  <1>6. Span(r) \in SpansOfSubject
    BY <1>3 DEF Span, SpansOfSubject
  <1>7. Replaced(r) \in SUBSET Pieces
    BY <1>3, <1>4 DEF Replaced, Pieces
  <1>8. \A x \in Nat : Kept(x, r.from) \in SUBSET Pieces /\ Kept(x, js.blen) \in SUBSET Pieces
    BY <1>3, <1>4 DEF Kept, Pieces
  <1> QED
    BY <1>3, <1>4, <1>5, <1>6, <1>7, <1>8

LEMMA StartsMove ==
  ASSUME JInv, NEW t \in Threads,
         \/ StartMatch(t) \/ StartMatchAll(t) \/ StartSplit(t) \/ StartReplaceAll(t)
  PROVE  \E local : Moves(t, local)
  <1>1. li \in Nat /\ 0 \in Nat
    BY DEF JInv, Shape
  <1>2. CASE StartMatch(t)
    <2>1. Moves(t, Fresh("match"))
      <3>1. Fresh("match") \in Locals
        BY <1>2, FreshType DEF StartMatch, Calls
      <3> QED
        BY <1>1, <1>2, <3>1 DEF StartMatch, Calls, Moves, Fresh, Loops
    <2> QED
      BY <2>1
  <1>3. CASE StartMatchAll(t)
    <2>1. CASE Calls(t, "match_all") /\ Ends(t, [Fresh("match_all") EXCEPT !.li2 = li])
      <3> DEFINE local == [Fresh("match_all") EXCEPT !.li2 = li]
      <3>1. Fresh("match_all") \in Locals
        BY <2>1, FreshType DEF Calls
      <3>2. local \in Locals /\ local.op = "match_all" /\ local.phase = "loop"
        BY <1>1, <3>1 DEF Locals, Fresh
      <3>3. running = NoThread /\ Ends(t, local) /\ Fixed /\ li' = li
        BY <1>3, <2>1 DEF StartMatchAll, Calls
      <3> HIDE DEF local
      <3>4. Moves(t, [local EXCEPT !.turn = 0])
        BY <1>1, <3>2, <3>3, EndsMoves
      <3> QED
        BY <3>4
    <2>2. CASE /\ Calls(t, "match_all_list")
               /\ th' = [th EXCEPT ![t] = [Fresh("match_all_list") EXCEPT !.li2 = li]]
               /\ running' = t
      <3> DEFINE local == [Fresh("match_all_list") EXCEPT !.li2 = li]
      <3>1. Fresh("match_all_list") \in Locals
        BY <2>2, FreshType DEF Calls
      <3>2. local \in Locals /\ local.op = "match_all_list" /\ local.phase = "loop"
        BY <1>1, <3>1 DEF Locals, Fresh
      <3>3. running = NoThread /\ th' = [th EXCEPT ![t] = local] /\ Fixed /\ li' = li
        BY <1>3, <2>2 DEF StartMatchAll, Calls
      <3> HIDE DEF local
      <3>4. Moves(t, local)
        BY <1>1, <2>2, <3>2, <3>3 DEF Moves, Loops
      <3> QED
        BY <3>4
    <2> QED
      BY <1>3, <2>1, <2>2 DEF StartMatchAll
  <1>4. CASE StartSplit(t)
    <2>1. PICK limit \in Limits :
            LET local == [Fresh("split") EXCEPT !.limit = limit]
            IN IF limit = 0 THEN Ends(t, [local EXCEPT !.phase = "done"])
                            ELSE th' = [th EXCEPT ![t] = local] /\ running' = t
      BY <1>4 DEF StartSplit
    <2> DEFINE local == [Fresh("split") EXCEPT !.limit = limit]
               end == [local EXCEPT !.phase = "done"]
    <2>2. Fresh("split") \in Locals
      BY <1>4, FreshType DEF StartSplit, Calls
    <2>3. /\ local \in Locals /\ local.op = "split" /\ local.phase = "loop"
          /\ end \in Locals /\ end.op = "split" /\ end.phase = "done"
      BY <2>2, IndicesAssumption DEF Locals, Fresh
    <2>4. running = NoThread /\ Fixed /\ li' = li
      BY <1>4 DEF StartSplit, Calls
    <2>5. \/ Ends(t, end)
          \/ th' = [th EXCEPT ![t] = local] /\ running' = t
      BY <2>1
    <2> HIDE DEF local, end
    <2>6. CASE Ends(t, end)
      <3>1. Moves(t, [end EXCEPT !.turn = 0])
        BY <1>1, <2>3, <2>4, <2>6, EndsMoves
      <3> QED
        BY <3>1
    <2>7. CASE th' = [th EXCEPT ![t] = local] /\ running' = t
      <3>1. Moves(t, local)
        BY <1>1, <2>3, <2>4, <2>7 DEF Moves, Loops
      <3> QED
        BY <3>1
    <2> QED
      BY <2>5, <2>6, <2>7
  <1>5. CASE StartReplaceAll(t)
    <2>1. PICK callback \in BOOLEAN :
            th' = [th EXCEPT ![t] = [Fresh("replace_all") EXCEPT !.callback = callback]]
      BY <1>5 DEF StartReplaceAll
    <2> DEFINE local == [Fresh("replace_all") EXCEPT !.callback = callback]
    <2>2. Fresh("replace_all") \in Locals
      BY <1>5, FreshType DEF StartReplaceAll, Calls
    <2>3. local \in Locals /\ local.op = "replace_all" /\ local.phase = "loop"
      BY <2>2 DEF Locals, Fresh
    <2>4. running = NoThread /\ running' = t /\ Fixed /\ li' = 0 /\ th' = [th EXCEPT ![t] = local]
      BY <1>5, <2>1 DEF StartReplaceAll, Calls
    <2> HIDE DEF local
    <2>5. Moves(t, local)
      BY <1>1, <2>3, <2>4 DEF Moves, Loops
    <2> QED
      BY <2>5
  <1> QED
    BY <1>2, <1>3, <1>4, <1>5

\* search and replace of a RegExp that is not global are done in one step.
LEMMA OnceMove ==
  ASSUME JInv, NEW t \in Threads, Search(t) \/ SearchRaises(t) \/ StartReplace(t)
  PROVE  \E local : Moves(t, local)
  <1>1. li \in Nat /\ 0 \in Nat
    BY DEF JInv, Shape
  <1> DEFINE r == Exec(re, js, 0)
  <1>2. /\ r.from \in Nat /\ r.to \in Nat /\ r.last \in Nat
        /\ Span(r) \in SpansOfSubject
        /\ Replaced(r) \in SUBSET Pieces
        /\ \A x \in Nat : Kept(x, r.from) \in SUBSET Pieces /\ Kept(x, js.blen) \in SUBSET Pieces
    BY <1>1, ResultTypes
  <1> HIDE DEF r
  <1>3. CASE Search(t)
    <2> DEFINE f == IF r.found THEN <<Span(r)>> ELSE <<>>
               good == [[Fresh("search") EXCEPT !.found = f] EXCEPT !.phase = "done"]
               bad == [[Fresh("search") EXCEPT !.found = f] EXCEPT !.phase = "raised", !.found = <<>>]
    <2>1. f \in Seq(SpansOfSubject) /\ <<>> \in Seq(SpansOfSubject)
      <3>1. <<Span(r)>> \in Seq(SpansOfSubject)
        BY <1>2
      <3> QED
        BY <3>1, EmptySeq
    <2>2. /\ running = NoThread /\ Fixed
          /\ \/ Ends(t, good) /\ li' = li
             \/ Ends(t, bad) /\ li' = r.last
      BY <1>3 DEF Search, Calls, SearchExec, r
    <2>3. Fresh("search") \in Locals
      BY <1>3, FreshType DEF Search, Calls
    <2> HIDE DEF f
    <2>4. /\ good \in Locals /\ good.op = "search" /\ good.phase = "done"
          /\ bad \in Locals /\ bad.op = "search" /\ bad.phase = "raised"
      BY <2>1, <2>3 DEF Locals, Fresh
    <2> HIDE DEF good, bad
    <2>5. CASE Ends(t, good) /\ li' = li
      <3>1. Moves(t, [good EXCEPT !.turn = 0])
        BY <1>1, <2>2, <2>4, <2>5, EndsMoves
      <3> QED
        BY <3>1
    <2>6. CASE Ends(t, bad) /\ li' = r.last
      <3>1. Moves(t, [bad EXCEPT !.turn = 0])
        BY <1>2, <2>2, <2>4, <2>6, EndsMoves
      <3> QED
        BY <3>1
    <2> QED
      BY <2>2, <2>5, <2>6
  <1>4. CASE SearchRaises(t)
    <2> DEFINE bad == [Fresh("search") EXCEPT !.phase = "raised"]
    <2>1. Fresh("search") \in Locals
      BY <1>4, FreshType DEF SearchRaises, Calls
    <2>2. bad \in Locals /\ bad.op = "search" /\ bad.phase = "raised"
      BY <2>1 DEF Locals, Fresh
    <2>3. running = NoThread /\ Fixed /\ Ends(t, bad) /\ li' = 0
      BY <1>4 DEF SearchRaises, Calls
    <2> HIDE DEF bad
    <2>4. Moves(t, [bad EXCEPT !.turn = 0])
      BY <1>1, <2>2, <2>3, EndsMoves
    <2> QED
      BY <2>4
  <1>5. CASE StartReplace(t)
    <2>1. PICK callback \in BOOLEAN :
            LET s == [Fresh("replace") EXCEPT !.callback = callback, !.cur = r.to]
                head == Kept(0, r.from) \cup Replaced(r)
            IN \/ /\ ~r.found
                  /\ Ends(t, [s EXCEPT !.out = Kept(0, js.blen), !.phase = "done"])
               \/ /\ ~r.ok
                  /\ Ends(t, [s EXCEPT !.phase = "raised"])
               \/ /\ r.found /\ r.ok
                  /\ IF callback
                       THEN Ends(t, [s EXCEPT !.out = head, !.phase = "callback"])
                       ELSE Ends(t, [s EXCEPT !.out = head \cup Kept(r.to, js.blen),
                                              !.phase = "done"])
      BY <1>5 DEF StartReplace, r
    <2> DEFINE s == [Fresh("replace") EXCEPT !.callback = callback, !.cur = r.to]
               head == Kept(0, r.from) \cup Replaced(r)
    <2>2. running = NoThread /\ Fixed /\ li' = r.last
      BY <1>5 DEF StartReplace, Calls, r
    <2>3. Fresh("replace") \in Locals
      BY <1>5, FreshType DEF StartReplace, Calls
    <2>4. s \in Locals /\ s.op = "replace"
      BY <1>2, <2>3 DEF Locals, Fresh
    <2>5. head \in SUBSET Pieces /\ Kept(0, js.blen) \in SUBSET Pieces /\ Kept(r.to, js.blen) \in SUBSET Pieces
      BY <1>1, <1>2
    <2>6. \E out \in SUBSET Pieces, phase \in {"done", "raised", "callback"} :
             Ends(t, [s EXCEPT !.out = out, !.phase = phase])
      <3>0. [s EXCEPT !.phase = "raised"] = [s EXCEPT !.out = s.out, !.phase = "raised"] /\ s.out \in SUBSET Pieces
        BY <2>4 DEF Locals
      <3>1. head \cup Kept(r.to, js.blen) \in SUBSET Pieces
        BY <2>5
      <3> HIDE DEF s, head
      <3> QED
        BY <2>1, <2>5, <3>0, <3>1 DEF s, head
    <2>7. PICK out \in SUBSET Pieces, phase \in {"done", "raised", "callback"} :
             Ends(t, [s EXCEPT !.out = out, !.phase = phase])
      BY <2>6
    <2> HIDE DEF s
    <2> DEFINE new == [s EXCEPT !.out = out, !.phase = phase]
    <2>8. new \in Locals /\ new.op = "replace"
      BY <2>4 DEF Locals
    <2>9. Ends(t, new)
      BY <2>7
    <2> HIDE DEF new
    <2>10. Moves(t, [new EXCEPT !.turn = 0])
      BY <1>2, <2>2, <2>8, <2>9, EndsMoves DEF Replaces
    <2> QED
      BY <2>10
  <1> QED
    BY <1>3, <1>4, <1>5

LEMMA AppendType ==
  ASSUME NEW f \in Seq(SpansOfSubject), NEW x \in SpansOfSubject
  PROVE  Append(f, x) \in Seq(SpansOfSubject)
  OBVIOUS

LEMMA ClosureType ==
  ASSUME JInv, NEW local \in Locals
  PROVE  /\ AfterClosure(local) \in Locals
         /\ AfterClosure(local).op = local.op
         /\ AfterClosure(local).phase \in {"done", "loop", "raised"}
  <1> DEFINE r == Exec(re, js, local.li2)
             pass == IF local.phase = "done" THEN <<>> ELSE local.found
             f == IF r.found /\ r.ok THEN Append(pass, Span(r)) ELSE pass
             ph == IF ~r.found THEN "done" ELSE IF r.ok THEN "loop" ELSE "raised"
             l == PastEmpty(r)
  <1>1. local.li2 \in Nat /\ local.found \in Seq(SpansOfSubject)
    BY DEF Locals
  <1>2. l \in Nat /\ Span(r) \in SpansOfSubject
    BY <1>1, ResultTypes
  <1>3. pass \in Seq(SpansOfSubject)
    <2>1. <<>> \in Seq(SpansOfSubject)
      BY EmptySeq
    <2> QED
      BY <1>1, <2>1
  <1>4. f \in Seq(SpansOfSubject)
    <2> HIDE DEF pass, r
    <2>1. Append(pass, Span(r)) \in Seq(SpansOfSubject)
      BY <1>2, <1>3, AppendType
    <2> QED
      BY <1>3, <2>1
  <1>5. ph \in {"done", "loop", "raised"}
    OBVIOUS
  <1>6. AfterClosure(local) = [local EXCEPT !.li2 = l, !.found = f, !.phase = ph]
    BY DEF AfterClosure
  <1> HIDE DEF f, ph, l
  <1> QED
    BY <1>2, <1>4, <1>5, <1>6 DEF Locals

LEMMA StepsMove ==
  ASSUME JInv, NEW t \in Threads, Step(t)
  PROVE  \E local : Moves(t, local)
  <1> DEFINE s == th[t]
  <1>1. /\ s \in Locals /\ li \in Nat /\ running = t
        /\ s.phase = "loop" /\ s.op \in Loops
        /\ s.found \in Seq(SpansOfSubject) /\ s.out \in SUBSET Pieces
        /\ s.li2 \in Nat /\ s.prev \in 0..js.blen /\ s.cur \in Nat
    <2>1. running = t
      BY DEF Step, MatchStep, ListStep, SplitStep, ReplaceAllStep
    <2>2. s \in Locals /\ li \in Nat
      BY DEF JInv, Shape
    <2>3. s.phase = "loop" /\ s.op \in Loops
      BY <2>1 DEF JInv, Control
    <2> HIDE DEF s
    <2> QED
      BY <2>1, <2>2, <2>3 DEF Locals
  <1>2. js.blen \in Nat /\ js.blen \in 0..js.blen /\ 0 \in 0..js.blen
    BY StringFacts DEF JInv, Shape, Good
  <1>3. CASE MatchStep(t)
    <2> DEFINE r == Exec(re, js, li)
    <2>1. r.last \in Nat /\ PastEmpty(r) \in Nat /\ Span(r) \in SpansOfSubject
      BY <1>1, ResultTypes
    <2> HIDE DEF r
    <2>2. /\ Fixed /\ li' = PastEmpty(r)
          /\ \/ Ends(t, [s EXCEPT !.phase = "done"])
             \/ Continues(t, [s EXCEPT !.found = Append(@, Span(r))])
             \/ Ends(t, [s EXCEPT !.phase = "raised"])
      BY <1>3 DEF MatchStep, r
    <2> HIDE DEF s
    <2>3. ASSUME NEW ph \in {"done", "raised"}, Ends(t, [s EXCEPT !.phase = ph])
          PROVE  \E local : Moves(t, local)
      <3> DEFINE new == [s EXCEPT !.phase = ph]
      <3>1. new \in Locals /\ new.op = s.op /\ new.phase = ph
        BY <1>1 DEF Locals
      <3>2. Ends(t, new)
        BY <2>3
      <3> HIDE DEF new
      <3>3. Moves(t, [new EXCEPT !.turn = 0])
        BY <1>1, <2>1, <2>2, <3>1, <3>2, EndsMoves
      <3> QED
        BY <3>3
    <2>4. CASE Continues(t, [s EXCEPT !.found = Append(@, Span(r))])
      <3> DEFINE new == [s EXCEPT !.found = Append(s.found, Span(r))]
      <3>1. Append(s.found, Span(r)) \in Seq(SpansOfSubject)
        BY <1>1, <2>1, AppendType
      <3>2. new \in Locals /\ new.op = s.op /\ new.phase = s.phase
        BY <1>1, <3>1 DEF Locals
      <3>3. Continues(t, new)
        BY <2>4
      <3> HIDE DEF new
      <3>4. Moves(t, [new EXCEPT !.turn = 1 - @])
        BY <1>1, <2>1, <2>2, <3>2, <3>3, ContinuesMoves DEF s
      <3> QED
        BY <3>4
    <2> QED
      BY <2>2, <2>3, <2>4
  <1>4. CASE ListStep(t)
    <2> DEFINE new == AfterClosure(s)
    <2> HIDE DEF s
    <2>1. new \in Locals /\ new.op = s.op /\ new.phase \in {"done", "loop", "raised"}
      BY <1>1, ClosureType
    <2>2. /\ Fixed /\ li' = li
          /\ IF new.phase = "loop" THEN Continues(t, new) ELSE Ends(t, new)
      BY <1>4 DEF ListStep, s
    <2> HIDE DEF new
    <2>3. CASE new.phase = "loop"
      <3>1. Moves(t, [new EXCEPT !.turn = 1 - @])
        BY <1>1, <2>1, <2>2, <2>3, ContinuesMoves DEF s
      <3> QED
        BY <3>1
    <2>4. CASE new.phase # "loop"
      <3>1. Moves(t, [new EXCEPT !.turn = 0])
        BY <1>1, <2>1, <2>2, <2>4, EndsMoves
      <3> QED
        BY <3>1
    <2> QED
      BY <2>3, <2>4
  <1>5. CASE SplitStep(t)
    <2> DEFINE r == Exec([re EXCEPT !.sticky = TRUE], js, s.li2)
               next == IF r.found THEN PieceEnded(s, r) ELSE NoPiece(s)
    <2> HIDE DEF s
    <2>1. r.from \in 0..js.blen /\ r.last \in 0..js.blen /\ r.last \in Nat
      BY <1>1, ResultTypes
    <2> HIDE DEF r
    <2>2. next \in Locals /\ next.op = s.op /\ next.phase = s.phase
      <3>1. CASE r.found
        <4> DEFINE f == IF s.prev < r.from \/ r.from < r.to THEN Append(s.found, <<s.prev, r.from>>)
                                                            ELSE s.found
        <4>1. <<s.prev, r.from>> \in SpansOfSubject
          BY <1>1, <2>1 DEF SpansOfSubject
        <4>2. f \in Seq(SpansOfSubject)
          <5>1. Append(s.found, <<s.prev, r.from>>) \in Seq(SpansOfSubject)
            BY <1>1, <4>1, AppendType
          <5> QED
            BY <1>1, <5>1
        <4>3. next = [s EXCEPT !.found = f, !.prev = r.last, !.li2 = r.last]
          BY <3>1 DEF PieceEnded
        <4> HIDE DEF f, next
        <4> QED
          BY <1>1, <2>1, <4>2, <4>3 DEF Locals
      <3>2. CASE ~r.found
        <4>1. next = [s EXCEPT !.li2 = s.li2 + 1] /\ s.li2 + 1 \in Nat
          BY <1>1, <3>2 DEF NoPiece
        <4> HIDE DEF next
        <4> QED
          BY <1>1, <4>1 DEF Locals
      <3> QED
        BY <3>1, <3>2
    <2>3. /\ Fixed /\ li' = li
          /\ \/ Ends(t, [s EXCEPT !.phase = "raised"])
             \/ Ends(t, [s EXCEPT !.phase = "done"])
             \/ Ends(t, [next EXCEPT !.found = Append(@, <<next.prev, js.blen>>), !.phase = "done"])
             \/ Continues(t, next)
      BY <1>5 DEF SplitStep, r, s
    <2> HIDE DEF next
    <2>4. ASSUME NEW ph \in {"done", "raised"}, Ends(t, [s EXCEPT !.phase = ph])
          PROVE  \E local : Moves(t, local)
      <3> DEFINE new == [s EXCEPT !.phase = ph]
      <3>1. new \in Locals /\ new.op = s.op /\ new.phase = ph
        BY <1>1 DEF Locals
      <3>2. Ends(t, new)
        BY <2>4
      <3> HIDE DEF new
      <3>3. Moves(t, [new EXCEPT !.turn = 0])
        BY <1>1, <2>3, <3>1, <3>2, EndsMoves
      <3> QED
        BY <3>3
    <2>5. CASE Ends(t, [next EXCEPT !.found = Append(@, <<next.prev, js.blen>>), !.phase = "done"])
      <3> DEFINE f == Append(next.found, <<next.prev, js.blen>>)
                 new == [next EXCEPT !.found = f, !.phase = "done"]
      <3>1. f \in Seq(SpansOfSubject)
        <4>1. next.prev \in 0..js.blen /\ next.found \in Seq(SpansOfSubject)
          BY <2>2 DEF Locals
        <4>2. <<next.prev, js.blen>> \in SpansOfSubject
          BY <1>2, <4>1 DEF SpansOfSubject
        <4> QED
          BY <4>1, <4>2, AppendType
      <3>2. Ends(t, new)
        BY <2>5
      <3> HIDE DEF f
      <3>3. new \in Locals /\ new.op = next.op /\ new.phase = "done"
        BY <2>2, <3>1 DEF Locals
      <3> HIDE DEF new
      <3>4. Moves(t, [new EXCEPT !.turn = 0])
        BY <1>1, <2>2, <2>3, <3>2, <3>3, EndsMoves
      <3> QED
        BY <3>4
    <2>6. CASE Continues(t, next)
      <3>1. Moves(t, [next EXCEPT !.turn = 1 - @])
        BY <1>1, <2>2, <2>3, <2>6, ContinuesMoves DEF s
      <3> QED
        BY <3>1
    <2> QED
      BY <2>3, <2>4, <2>5, <2>6
  <1>6. CASE ReplaceAllStep(t)
    <2> DEFINE r == Exec(re, js, li)
    <2>1. /\ r.last \in Nat /\ Replaced(r) \in SUBSET Pieces
          /\ \A x \in Nat : Kept(x, r.from) \in SUBSET Pieces /\ Kept(x, js.blen) \in SUBSET Pieces
      BY <1>1, ResultTypes
    <2> HIDE DEF r
    <2> DEFINE next == Substituted(s, r)
    <2>2. /\ Fixed /\ li' = r.last /\ s.op = "replace_all"
          /\ \/ Ends(t, [s EXCEPT !.out = @ \cup Kept(s.cur, js.blen), !.phase = "done"])
             \/ Ends(t, [s EXCEPT !.phase = "raised"])
             \/ Ends(t, [next EXCEPT !.phase = "callback"])
             \/ Continues(t, next)
      BY <1>6 DEF ReplaceAllStep, r
    <2> HIDE DEF s
    <2>3. next \in Locals /\ next.op = s.op /\ next.phase = s.phase
      <3> DEFINE o == s.out \cup Kept(li, r.from) \cup Replaced(r)
      <3>1. o \in SUBSET Pieces
        BY <1>1, <2>1
      <3>2. next = [s EXCEPT !.cur = r.last, !.out = o]
        BY DEF Substituted
      <3> HIDE DEF o, next
      <3> QED
        BY <1>1, <2>1, <3>1, <3>2 DEF Locals
    <2> HIDE DEF next
    <2>4. CASE Ends(t, [s EXCEPT !.out = @ \cup Kept(s.cur, js.blen), !.phase = "done"])
      <3> DEFINE o == s.out \cup Kept(s.cur, js.blen)
                 new == [s EXCEPT !.out = o, !.phase = "done"]
      <3>1. o \in SUBSET Pieces
        BY <1>1, <2>1
      <3>2. Ends(t, new)
        BY <2>4
      <3> HIDE DEF o
      <3>3. new \in Locals /\ new.op = s.op /\ new.phase = "done"
        BY <1>1, <3>1 DEF Locals
      <3> HIDE DEF new
      <3>4. Moves(t, [new EXCEPT !.turn = 0])
        BY <1>1, <2>1, <2>2, <3>2, <3>3, EndsMoves
      <3> QED
        BY <3>4
    <2>5. CASE Ends(t, [s EXCEPT !.phase = "raised"])
      <3> DEFINE new == [s EXCEPT !.phase = "raised"]
      <3>1. new \in Locals /\ new.op = s.op /\ new.phase = "raised"
        BY <1>1 DEF Locals
      <3>2. Ends(t, new)
        BY <2>5
      <3> HIDE DEF new
      <3>3. Moves(t, [new EXCEPT !.turn = 0])
        BY <1>1, <2>1, <2>2, <3>1, <3>2, EndsMoves
      <3> QED
        BY <3>3
    <2>6. CASE Ends(t, [next EXCEPT !.phase = "callback"])
      <3> DEFINE new == [next EXCEPT !.phase = "callback"]
      <3>1. new \in Locals /\ new.op = s.op /\ new.phase = "callback"
        BY <2>3 DEF Locals
      <3>2. Ends(t, new)
        BY <2>6
      <3> HIDE DEF new
      <3>3. s.op \in Replaces
        BY <2>2 DEF Replaces, s
      <3>4. Moves(t, [new EXCEPT !.turn = 0])
        BY <1>1, <2>1, <2>2, <3>1, <3>2, <3>3, EndsMoves
      <3> QED
        BY <3>4
    <2>7. CASE Continues(t, next)
      <3>1. Moves(t, [next EXCEPT !.turn = 1 - @])
        BY <1>1, <2>1, <2>2, <2>3, <2>7, ContinuesMoves DEF s
      <3> QED
        BY <3>1
    <2> QED
      BY <2>2, <2>4, <2>5, <2>6, <2>7
  <1> QED
    BY <1>3, <1>4, <1>5, <1>6 DEF Step

LEMMA OthersMove ==
  ASSUME JInv, NEW t \in Threads, CallClosure(t) \/ CallbackReturns(t) \/ Raises(t)
  PROVE  \E local : Moves(t, local)
  <1> DEFINE s == th[t]
  <1>1. s \in Locals /\ li \in Nat /\ t # NoThread
    BY NoThreadAssumption DEF JInv, Shape
  <1>2. CASE CallClosure(t)
    <2> DEFINE new == AfterClosure(s)
    <2>1. /\ running = NoThread /\ s.op = "match_all" /\ Fixed /\ UNCHANGED <<li, running>>
          /\ th' = [th EXCEPT ![t] = new]
      BY <1>2 DEF CallClosure
    <2>2. new \in Locals /\ new.op = s.op /\ new.phase \in {"done", "loop", "raised"}
      <3> HIDE DEF s
      <3> QED
        BY <1>1, ClosureType
    <2> HIDE DEF new
    <2>3. Moves(t, new)
      BY <1>1, <2>1, <2>2 DEF Moves
    <2> QED
      BY <2>3
  <1>3. CASE CallbackReturns(t)
    <2>1. running = NoThread /\ s.phase = "callback" /\ Fixed /\ li' = li
      BY <1>3 DEF CallbackReturns
    <2>2. s.op \in Replaces
      BY <2>1 DEF JInv, Control
    <2>3. CASE s.op = "replace_all"
      <3> DEFINE a == s.alone /\ li = s.cur
                 new == [s EXCEPT !.phase = "loop", !.alone = a]
      <3>1. th' = [th EXCEPT ![t] = new] /\ running' = t
        BY <1>3, <2>3 DEF CallbackReturns
      <3>2. new \in Locals /\ new.op = "replace_all" /\ new.phase = "loop"
        BY <1>1, <2>3 DEF Locals
      <3> HIDE DEF new
      <3>3. Moves(t, new)
        BY <1>1, <2>1, <3>1, <3>2 DEF Moves, Loops
      <3> QED
        BY <3>3
    <2>4. CASE s.op # "replace_all"
      <3> DEFINE o == s.out \cup Kept(s.cur, js.blen)
                 new == [s EXCEPT !.out = o, !.phase = "done"]
      <3>1. Ends(t, new)
        BY <1>3, <2>4 DEF CallbackReturns
      <3>2. o \in SUBSET Pieces
        <4>1. s.out \in SUBSET Pieces /\ s.cur \in Nat
          BY <1>1 DEF Locals
        <4> QED
          BY <1>1, <4>1, ResultTypes
      <3> HIDE DEF o
      <3>3. new \in Locals /\ new.op = s.op /\ new.phase = "done"
        BY <1>1, <3>2 DEF Locals
      <3> HIDE DEF new, s
      <3>4. Moves(t, [new EXCEPT !.turn = 0])
        BY <1>1, <2>1, <3>1, <3>3, EndsMoves
      <3> QED
        BY <3>4
    <2> QED
      BY <2>3, <2>4
  <1>4. CASE Raises(t)
    <2> DEFINE new == [s EXCEPT !.phase = "raised"]
    <2>1. running \in {t, NoThread} /\ Ends(t, new) /\ Fixed /\ li' = li
      BY <1>4 DEF Raises
    <2>2. new \in Locals /\ new.phase = "raised"
      BY <1>1 DEF Locals
    <2> HIDE DEF new
    <2>3. Moves(t, [new EXCEPT !.turn = 0])
      BY <1>1, <2>1, <2>2, EndsMoves
    <2> QED
      BY <2>3
  <1> QED
    BY <1>2, <1>3, <1>4

\* What user code does.
UserStep == running = NoThread /\ li' \in Nat /\ Fixed /\ UNCHANGED <<th, running>>

LEMMA UserMoves ==
  ASSUME JInv, SetLastIndex \/ ExecCall
  PROVE  UserStep
  <1>1. CASE SetLastIndex
    BY <1>1, IndicesAssumption DEF SetLastIndex, UserStep
  <1>2. CASE ExecCall
    <2>1. li \in Nat
      BY DEF JInv, Shape
    <2>2. Exec(re, js, li).last \in Nat
      BY <2>1, ResultTypes
    <2> QED
      BY <1>2, <2>2 DEF ExecCall, UserStep
  <1> QED
    BY <1>1, <1>2

LEMMA UserKeeps ==
  ASSUME JInv, UserStep
  PROVE  JInv'
  <1>1. js' = js /\ re' = re /\ li' \in Nat /\ running' = running /\ th' = th
    BY DEF UserStep, Fixed
  <1>2. Locals' = Locals
    BY <1>1 DEF Locals, SpansOfSubject, Pieces
  <1> QED
    BY <1>1, <1>2 DEF JInv, Shape, Control, Good, Finished

LEMMA InitJInv == Init => JInv
  <1>1. SUFFICES ASSUME Init PROVE JInv
    OBVIOUS
  <1> DEFINE idle == [Fresh("none") EXCEPT !.phase = "idle"]
  <1>2. Good(js, re)
    BY <1>1, InputsAssumption DEF Init, Good
  <1>3. idle \in Locals /\ idle.phase = "idle"
    <2>1. 0 \in 0..js.blen
      BY <1>2, StringFacts DEF Good
    <2>2. <<>> \in Seq(SpansOfSubject)
      BY EmptySeq
    <2>3. "none" \in Methods \cup {"none"}
      OBVIOUS
    <2> HIDE DEF idle
    <2>4. Fresh("none") \in Locals
      BY <2>1, <2>2, <2>3 DEF Fresh, Locals
    <2> QED
      BY <2>4 DEF Locals, idle
  <1>4. th = [t \in Threads |-> idle] /\ li = 0 /\ running = NoThread
    BY <1>1 DEF Init
  <1> HIDE DEF idle
  <1>5. th \in [Threads -> Locals] /\ \A t \in Threads : th[t].phase = "idle"
    BY <1>3, <1>4
  <1>6. Shape
    BY <1>2, <1>4, <1>5 DEF Shape
  <1>7. Control
    BY <1>4, <1>5, NoThreadAssumption DEF Control
  <1> QED
    BY <1>6, <1>7 DEF JInv

LEMMA NextIs ==
  ASSUME JInv, Next
  PROVE  UserStep \/ \E t \in Threads, local \in Locals : Moves(t, local)
  <1>1. CASE SetLastIndex \/ ExecCall
    BY <1>1, UserMoves
  <1>2. ASSUME NEW t \in Threads,
               \/ StartMatch(t) \/ StartMatchAll(t) \/ Search(t) \/ SearchRaises(t)
               \/ StartSplit(t) \/ StartReplaceAll(t) \/ StartReplace(t)
               \/ Step(t) \/ CallClosure(t) \/ CallbackReturns(t) \/ Raises(t)
        PROVE  \E local \in Locals : Moves(t, local)
    <2>1. \E local : Moves(t, local)
      BY <1>2, StartsMove, OnceMove, StepsMove, OthersMove
    <2> QED
      BY <2>1 DEF Moves
  <1> QED
    BY <1>1, <1>2 DEF Next

LEMMA NextJInv ==
  ASSUME JInv, [Next]_vars
  PROVE  JInv'
  <1>1. CASE UNCHANGED vars
    <2>1. js' = js /\ re' = re /\ li' = li /\ th' = th /\ running' = running
      BY <1>1 DEF vars
    <2>2. Locals' = Locals
      BY <2>1 DEF Locals, SpansOfSubject, Pieces
    <2> QED
      BY <2>1, <2>2 DEF JInv, Shape, Good, Control, Finished
  <1>2. CASE Next
    <2>1. CASE UserStep
      BY <2>1, UserKeeps
    <2>2. CASE \E t \in Threads, local \in Locals : Moves(t, local)
      BY <2>2, MovesKeep
    <2> QED
      BY <1>2, <2>1, <2>2, NextIs
  <1> QED
    BY <1>1, <1>2

--------------------------------------------------------------------------------
\* The type invariant of the methods: whatever the order of calls, returns and
\* errors, the indices a method keeps and the pieces it puts out lie in the
\* subject.  (jsregexp.lua)
THEOREM TypeCorrect == Spec => []TypeOK
  <1>1. JInv => TypeOK
    <2>1. SUFFICES ASSUME JInv, NEW t \in Threads
          PROVE  /\ th[t].op \in Methods \cup {"none"}
                 /\ th[t].phase \in {"idle", "loop", "callback", "done", "raised"}
                 /\ th[t].li2 \in Nat /\ th[t].prev \in Nat /\ th[t].cur \in Nat
                 /\ th[t].found \in Seq(SpansOfSubject)
                 /\ th[t].out \subseteq {"kept", "replaced"} \X Nat \X (0..js.blen)
                 /\ th[t].callback \in BOOLEAN /\ th[t].alone \in BOOLEAN
                 /\ th[t].limit \in Nat /\ th[t].turn \in {0, 1}
      BY DEF JInv, Shape, TypeOK
    <2>2. th[t] \in Locals
      BY <2>1 DEF JInv, Shape
    <2> QED
      BY <2>2 DEF Locals, Pieces
  <1> QED
    BY <1>1, InitJInv, NextJInv, PTL DEF Spec

--------------------------------------------------------------------------------
(***************************************************************************)
(* What match and search find, when matches start and end at boundaries.   *)
(***************************************************************************)
AllSpans == Reference!ScanFrom(js, re, 0)

\* f are the matches before last_index l, from the first one on.
Matching(l, f) ==
  \E d \in Seq(Reference!Spans(js, re)) :
    /\ f = ToBytes(d)
    /\ AllSpans = d \o Reference!ScanFrom(js, re, StartUnit(js, l))

Bytes(m) == <<ByteOf(js, m[1]), ByteOf(js, m[2])>>

LEMMA BytesType ==
  ASSUME NEW T, NEW d \in Seq(T)
  PROVE  /\ ToBytes(d) \in Seq({Bytes(m) : m \in T})
         /\ Len(ToBytes(d)) = Len(d)
         /\ \A k \in 1..Len(d) : ToBytes(d)[k] = Bytes(d[k])
  <1>1. ToBytes(d) = [k \in 1..Len(d) |-> Bytes(d[k])]
    BY DEF ToBytes, Bytes
  <1>2. Len(d) \in Nat /\ \A k \in 1..Len(d) : d[k] \in T
    OBVIOUS
  <1> QED
    BY <1>1, <1>2

LEMMA BytesAppend ==
  ASSUME NEW T, NEW d \in Seq(T), NEW m \in T
  PROVE  /\ ToBytes(<<>>) = <<>>
         /\ ToBytes(Append(d, m)) = Append(ToBytes(d), Bytes(m))
  <1> DEFINE W == {Bytes(x) : x \in T}
             e == Append(d, m)
             s == ToBytes(d)
             f == Append(s, Bytes(m))
  <1>1. /\ e \in Seq(T) /\ Len(d) \in Nat /\ Len(e) = Len(d) + 1
        /\ \A k \in 1..Len(d) : e[k] = d[k]
        /\ e[Len(d) + 1] = m
    BY AppendProperties
  <1> HIDE DEF e
  <1>2. /\ s \in Seq(W) /\ Len(s) = Len(d) /\ \A k \in 1..Len(d) : s[k] = Bytes(d[k])
        /\ ToBytes(e) \in Seq(W) /\ Len(ToBytes(e)) = Len(e)
        /\ \A k \in 1..Len(e) : ToBytes(e)[k] = Bytes(e[k])
    BY <1>1, BytesType
  <1>3. Bytes(m) \in W
    OBVIOUS
  <1> HIDE DEF W, s
  <1>4. /\ f \in Seq(W) /\ Len(f) = Len(s) + 1
        /\ \A k \in 1..Len(s) : f[k] = s[k]
        /\ f[Len(s) + 1] = Bytes(m)
    BY <1>2, <1>3, AppendProperties
  <1> HIDE DEF f
  <1>5. \A k \in 1..Len(e) : ToBytes(e)[k] = f[k]
    <2> TAKE k \in 1..Len(e)
    <2>1. CASE k = Len(d) + 1
      BY <1>1, <1>2, <1>4, <2>1
    <2>2. CASE k # Len(d) + 1
      <3>1. k \in 1..Len(d)
        BY <1>1, <2>2
      <3> QED
        BY <1>1, <1>2, <1>4, <3>1
    <2> QED
      BY <2>1, <2>2
  <1>6. ToBytes(e) = f
    BY <1>1, <1>2, <1>4, <1>5, SeqEqual
  <1>7. ToBytes(<<>>) = <<>>
    BY DEF ToBytes
  <1> QED
    BY <1>6, <1>7 DEF e, f, s

\* What exec finds from last_index on, and where a method looks next.
LEMMA FoundIsNext ==
  ASSUME JInv, Aligned, Indexed(re), NEW l \in Nat, NEW r, r = Exec(re, js, l)
  PROVE  LET hits == Hits(js, re, StartUnit(js, l))
         IN /\ StartUnit(js, l) \in 0..(js.len + 1)
            /\ hits = {} => r = NoResult
            /\ \A m \in hits :
                 /\ r.ok /\ r.found /\ Span(r) = Bytes(m)
                 /\ m \in Reference!Spans(js, re)
                 /\ m = <<m[1], m[2]>> /\ m[1] \in js.bounds /\ m[2] \in js.bounds
                 /\ m[1] <= m[2] /\ r = ResultOf(js, re, m)
                 /\ r.from = ByteOf(js, m[1]) /\ r.to = ByteOf(js, m[2])
                 /\ r.last = ByteOf(js, m[2])
                 /\ StartUnit(js, PastEmpty(r)) = Reference!AfterMatch(js, m)
  <1> DEFINE u == StartUnit(js, l)
  <1>1. Good(js, re) /\ JsStringOK(js) /\ AlignedOn(re, js)
    BY DEF JInv, Shape, Aligned, Good
  <1>2. u \in 0..(js.len + 1) /\ u \in Nat /\ Begins(js, re, l) = l
    <2>1. js.len \in Nat
      BY <1>1, StringFacts
    <2> QED
      BY <1>1, <2>1, StartFacts DEF Begins
  <1>3. /\ Hits(js, re, u) = {} => r = NoResult
        /\ \A x \in Hits(js, re, u) : r = ResultOf(js, re, x)
    BY <1>1, <1>2, ExecIsNext DEF Hits
  <1>4. ASSUME NEW m \in Hits(js, re, u)
        PROVE  /\ r.ok /\ r.found /\ Span(r) = Bytes(m)
               /\ m \in Reference!Spans(js, re)
               /\ m = <<m[1], m[2]>> /\ m[1] \in js.bounds /\ m[2] \in js.bounds
               /\ m[1] <= m[2] /\ r = ResultOf(js, re, m)
               /\ r.from = ByteOf(js, m[1]) /\ r.to = ByteOf(js, m[2])
               /\ r.last = ByteOf(js, m[2])
               /\ StartUnit(js, PastEmpty(r)) = Reference!AfterMatch(js, m)
    <2>1. /\ m = <<m[1], m[2]>> /\ m[1] \in js.bounds /\ m[2] \in js.bounds /\ m[1] <= m[2]
      <3> HIDE DEF u
      <3> QED
        BY <1>1, <1>2, <1>4, NextMatchFacts DEF Hits
    <2>2. m \in Reference!Spans(js, re)
      BY <1>4 DEF Hits, Reference!NextMatches
    <2> HIDE DEF u
    <2>3. /\ r.ok /\ r.found /\ r.from = ByteOf(js, m[1]) /\ r.to = ByteOf(js, m[2])
          /\ r.last = ByteOf(js, m[2])
      BY <1>3, <1>4 DEF ResultOf, StoredIndex
    <2>4. PastEmpty(r) = IF m[1] = m[2] THEN ByteOf(js, m[2]) + 1 ELSE ByteOf(js, m[2])
      <3>1. ByteOf(js, m[1]) = ByteOf(js, m[2]) <=> m[1] = m[2]
        BY <1>1, <2>1, GoesOn
      <3> QED
        BY <2>3, <3>1 DEF PastEmpty
    <2>5. StartUnit(js, PastEmpty(r)) = Reference!AfterMatch(js, <<m[1], m[2]>>)
      BY <1>1, <2>1, <2>4, GoesOn
    <2>6. r = ResultOf(js, re, m)
      BY <1>3, <1>4
    <2> QED
      BY <2>1, <2>2, <2>3, <2>5, <2>6 DEF Span, Bytes
  <1> QED
    BY <1>2, <1>3, <1>4

LEMMA MatchGoesOn ==
  ASSUME JInv, Aligned, Indexed(re), NEW l \in Nat, NEW f, Matching(l, f), NEW r, r = Exec(re, js, l)
  PROVE  /\ r.ok
         /\ ~r.found => f = ToBytes(AllSpans)
         /\ r.found => Matching(PastEmpty(r), Append(f, Span(r)))
  <1> DEFINE u == StartUnit(js, l)
             Spans == Reference!Spans(js, re)
             m == TheHit(js, re, u)
             rest == Reference!ScanFrom(js, re, Behind(js, re, u))
  <1>1. Good(js, re) /\ AlignedOn(re, js)
    BY DEF JInv, Shape, Aligned
  <1>2. u \in Nat
    <2>1. js.len \in Nat
      BY <1>1, StringFacts DEF Good
    <2> QED
      BY <2>1, FoundIsNext
  <1>3. PICK d \in Seq(Spans) :
          f = ToBytes(d) /\ AllSpans = d \o Reference!ScanFrom(js, re, u)
    BY DEF Matching
  <1>4. CASE Hits(js, re, u) = {}
    <2>1. Reference!ScanFrom(js, re, u) = <<>>
      BY <1>1, <1>2, <1>4, ScanEquation
    <2>2. AllSpans = d
      BY <1>3, <2>1, ConcatEmptySeq
    <2>3. r = NoResult
      BY <1>4, FoundIsNext
    <2> QED
      BY <1>3, <2>2, <2>3 DEF NoResult
  <1>5. CASE Hits(js, re, u) # {}
    <2>1. m \in Hits(js, re, u) /\ m \in Spans /\ Behind(js, re, u) \in Nat
      BY <1>1, <1>2, <1>5, BehindFacts
    <2>2. /\ Reference!ScanFrom(js, re, u) = <<m>> \o rest
          /\ rest \in Seq(Spans)
      BY <1>1, <1>2, <1>5, <2>1, ScanEquation
    <2>3. /\ r.ok /\ r.found /\ Span(r) = Bytes(m)
          /\ StartUnit(js, PastEmpty(r)) = Behind(js, re, u)
      BY <2>1, FoundIsNext DEF Behind
    <2> HIDE DEF u, rest, m
    <2>4. Append(d, m) \in Seq(Spans) /\ Append(d, m) = d \o <<m>>
      <3> HIDE DEF Spans
      <3> QED
        BY <2>1, AppendIsConcat
    <2>5. AllSpans = Append(d, m) \o rest
      <3>1. <<m>> \in Seq(Spans)
        BY <2>1
      <3>2. d \o (<<m>> \o rest) = (d \o <<m>>) \o rest
        BY SMTT(30), <2>2, <3>1, ConcatAssociative
      <3> QED
        BY <1>3, <2>2, <2>4, <3>2
    <2>6. Append(f, Span(r)) = ToBytes(Append(d, m))
      <3> HIDE DEF Spans
      <3> QED
        BY <1>3, <2>1, <2>3, BytesAppend
    <2>7. Matching(PastEmpty(r), Append(f, Span(r)))
      BY <2>3, <2>4, <2>5, <2>6 DEF Matching, rest
    <2> QED
      BY <2>3, <2>7
  <1> QED
    BY <1>4, <1>5

LEMMA MatchBegins ==
  ASSUME JInv, Aligned
  PROVE  Matching(0, <<>>)
  <1>1. Good(js, re) /\ JsStringOK(js) /\ AlignedOn(re, js)
    BY DEF JInv, Shape, Aligned, Good
  <1>2. StartUnit(js, 0) = 0
    BY <1>1, StartFacts
  <1>3. AllSpans \in Seq(Reference!Spans(js, re))
    BY <1>1, ScanEquation DEF AllSpans
  <1>4. AllSpans = <<>> \o AllSpans
    BY <1>3, ConcatEmptySeq
  <1>5. <<>> \in Seq(Reference!Spans(js, re))
    BY EmptySeq
  <1>6. ToBytes(<<>>) = <<>>
    BY DEF ToBytes
  <1> QED
    BY <1>2, <1>4, <1>5, <1>6 DEF Matching, AllSpans

\* What is true of the locals of a call of match or search.
RightFor(local) ==
  /\ local.op = "match" => re.global
  /\ local.op = "match" /\ local.phase = "done" => local.found = AllMatches
  /\ local.op = "search" /\ local.phase = "done" =>
       local.found = SubSeq(AllMatches, 1, IF AllMatches = <<>> THEN 0 ELSE 1)

\* The call of match in control has collected what lies before last_index.
OnTrack(t) == running = t /\ th[t].op = "match" => Matching(li, th[t].found)

MInv == Aligned => \A t \in Threads : RightFor(th[t]) /\ OnTrack(t)

LEMMA MovesRight ==
  ASSUME JInv, MInv, NEW t \in Threads, NEW local, Moves(t, local),
         Aligned => RightFor(local)
                    /\ (running' = t /\ local.op = "match" => Matching(li', local.found))
  PROVE  MInv'
  <1>1. /\ th' = [th EXCEPT ![t] = local] /\ th \in [Threads -> Locals]
        /\ js' = js /\ re' = re /\ running' \in {t, NoThread}
    BY DEF JInv, Shape, Moves, Fixed
  <1>2. th'[t] = local /\ \A x \in Threads : x # t => th'[x] = th[x]
    BY <1>1
  <1>3. Aligned' <=> Aligned
    BY <1>1 DEF Aligned
  <1>4. AllSpans' = AllSpans
    BY <1>1 DEF AllSpans
  <1>5. AllMatches' = AllMatches
    BY <1>1 DEF AllMatches, ToBytes
  <1>6. \A x \in Threads : RightFor(th[x])' <=> RightFor(th'[x])
    BY <1>1, <1>5 DEF RightFor
  <1>7. Matching(li, th[t].found)' <=> Matching(li', local.found)
    BY <1>1, <1>2, <1>4 DEF Matching, ToBytes
  <1>8. \A x \in Threads : x # t => OnTrack(x)'
    <2>1. \A x \in Threads : x # t => running' # x
      BY <1>1, NoThreadAssumption
    <2> QED
      BY <2>1 DEF OnTrack
  <1>9. Aligned => OnTrack(t)'
    BY <1>2, <1>7 DEF OnTrack
  <1>10. Aligned => \A x \in Threads : RightFor(th'[x])
    BY <1>2 DEF MInv
  <1> QED
    BY <1>3, <1>6, <1>8, <1>9, <1>10 DEF MInv

\* Which method the locals are of after a step.
Named(t) ==
  /\ StartMatch(t) \/ MatchStep(t) => th'[t].op = "match"
  /\ Search(t) => th'[t].op = "search"
  /\ SearchRaises(t) => th'[t].op = "search" /\ th'[t].phase = "raised"
  /\ StartMatchAll(t) => th'[t].op \in {"match_all", "match_all_list"}
  /\ ListStep(t) => th'[t].op = "match_all_list"
  /\ CallClosure(t) => th'[t].op = "match_all"
  /\ StartSplit(t) \/ SplitStep(t) => th'[t].op = "split"
  /\ StartReplaceAll(t) \/ ReplaceAllStep(t) => th'[t].op = "replace_all"
  /\ StartReplace(t) => th'[t].op = "replace"
  /\ CallbackReturns(t) => th'[t].op = th[t].op /\ th'[t].op \in Replaces
  /\ Raises(t) => th'[t].op = th[t].op /\ th'[t].phase = "raised"

LEMMA NameKept ==
  ASSUME NEW t \in Threads, th \in [Threads -> Locals], NEW local,
         "op" \in DOMAIN local, Ends(t, local) \/ Continues(t, local)
  PROVE  th'[t].op = local.op
  BY DEF Ends, Continues

LEMMA Names ==
  ASSUME JInv, NEW t \in Threads
  PROVE  Named(t)
  <1>0. th \in [Threads -> Locals] /\ th[t] \in Locals
    BY DEF JInv, Shape
  <1>1. StartMatch(t) => th'[t].op = "match"
    BY <1>0 DEF StartMatch, Fresh
  <1>2. ASSUME MatchStep(t) PROVE th'[t].op = "match"
    <2> DEFINE s == th[t]
               f == Append(s.found, Span(Exec(re, js, li)))
    <2>1. /\ s.op = "match"
          /\ \/ Ends(t, [s EXCEPT !.phase = "done"])
             \/ Ends(t, [s EXCEPT !.phase = "raised"])
             \/ Continues(t, [s EXCEPT !.found = f])
      BY <1>2 DEF MatchStep
    <2>2. "op" \in DOMAIN s
      BY <1>0 DEF Locals
    <2>3. \E local : /\ "op" \in DOMAIN local /\ local.op = "match"
                     /\ Ends(t, local) \/ Continues(t, local)
      <3> HIDE DEF f, s
      <3> QED
        BY <2>1, <2>2
    <2> QED
      BY <1>0, <2>3, NameKept
  <1>3. ASSUME Search(t) PROVE th'[t].op = "search"
    <2> DEFINE f == IF SearchExec.found THEN <<Span(SearchExec)>> ELSE <<>>
    <2>1. \/ Ends(t, [[Fresh("search") EXCEPT !.found = f] EXCEPT !.phase = "done"])
          \/ Ends(t, [[Fresh("search") EXCEPT !.found = f] EXCEPT !.phase = "raised", !.found = <<>>])
      BY <1>3 DEF Search
    <2> HIDE DEF f
    <2> QED
      BY <1>0, <2>1 DEF Ends, Fresh
  <1>4. SearchRaises(t) => th'[t].op = "search" /\ th'[t].phase = "raised"
    BY <1>0 DEF SearchRaises, Ends, Fresh
  <1>5. ASSUME StartMatchAll(t) PROVE th'[t].op \in {"match_all", "match_all_list"}
    <2>1. \/ Ends(t, [Fresh("match_all") EXCEPT !.li2 = li])
          \/ th' = [th EXCEPT ![t] = [Fresh("match_all_list") EXCEPT !.li2 = li]]
      BY <1>5 DEF StartMatchAll
    <2>2. CASE Ends(t, [Fresh("match_all") EXCEPT !.li2 = li])
      BY <1>0, <2>2 DEF Ends, Fresh
    <2>3. CASE th' = [th EXCEPT ![t] = [Fresh("match_all_list") EXCEPT !.li2 = li]]
      BY <1>0, <2>3 DEF Fresh
    <2> QED
      BY <2>1, <2>2, <2>3
  <1>6. ASSUME ListStep(t) PROVE th'[t].op = "match_all_list"
    <2> DEFINE new == AfterClosure(th[t])
    <2>1. new.op = "match_all_list" /\ new \in Locals
      BY <1>0, <1>6, ClosureType DEF ListStep
    <2>2. Ends(t, new) \/ Continues(t, new)
      BY <1>6 DEF ListStep
    <2> HIDE DEF new
    <2> QED
      BY <1>0, <2>1, <2>2 DEF Ends, Continues, Locals
  <1>7. ASSUME CallClosure(t) PROVE th'[t].op = "match_all"
    <2>1. th'[t] = AfterClosure(th[t]) /\ th[t].op = "match_all"
      BY <1>0, <1>7 DEF CallClosure
    <2> QED
      BY <1>0, <2>1, ClosureType
  <1>8. StartSplit(t) => th'[t].op = "split"
    BY <1>0 DEF StartSplit, Ends, Fresh
  <1>9. ASSUME SplitStep(t) PROVE th'[t].op = "split"
    <2> DEFINE s == th[t]
               r == Exec([re EXCEPT !.sticky = TRUE], js, s.li2)
               next == IF r.found THEN PieceEnded(s, r) ELSE NoPiece(s)
    <2>1. /\ s.op = "split"
          /\ \/ Ends(t, [s EXCEPT !.phase = "raised"])
             \/ Ends(t, [s EXCEPT !.phase = "done"])
             \/ Ends(t, [next EXCEPT !.found = Append(@, <<next.prev, js.blen>>), !.phase = "done"])
             \/ Continues(t, next)
      BY <1>9 DEF SplitStep
    <2> HIDE DEF r
    <2> DEFINE f == IF s.prev < r.from \/ r.from < r.to THEN Append(s.found, <<s.prev, r.from>>)
                                                        ELSE s.found
    <2>2. \/ next = [s EXCEPT !.found = f, !.prev = r.last, !.li2 = r.last]
          \/ next = [s EXCEPT !.li2 = s.li2 + 1]
      BY DEF PieceEnded, NoPiece
    <2> HIDE DEF f, next
    <2>3. "op" \in DOMAIN s /\ "op" \in DOMAIN next /\ next.op = "split"
      BY <1>0, <2>1, <2>2 DEF Locals
    <2>4. \E local : /\ "op" \in DOMAIN local /\ local.op = "split"
                     /\ Ends(t, local) \/ Continues(t, local)
      <3> DEFINE g == Append(next.found, <<next.prev, js.blen>>)
      <3>1. \/ Ends(t, [s EXCEPT !.phase = "raised"])
            \/ Ends(t, [s EXCEPT !.phase = "done"])
            \/ Ends(t, [next EXCEPT !.found = g, !.phase = "done"])
            \/ Continues(t, next)
        BY <2>1
      <3> HIDE DEF g, s
      <3> QED
        BY <2>1, <2>3, <3>1
    <2> QED
      BY <1>0, <2>4, NameKept
  <1>10. StartReplaceAll(t) => th'[t].op = "replace_all"
    BY <1>0 DEF StartReplaceAll, Fresh
  <1>11. ASSUME ReplaceAllStep(t) PROVE th'[t].op = "replace_all"
    <2> DEFINE s == th[t]
               r == Exec(re, js, li)
               o == s.out \cup Kept(li, r.from) \cup Replaced(r)
               next == Substituted(s, r)
    <2>1. /\ s.op = "replace_all"
          /\ \/ Ends(t, [s EXCEPT !.out = @ \cup Kept(s.cur, js.blen), !.phase = "done"])
             \/ Ends(t, [s EXCEPT !.phase = "raised"])
             \/ Ends(t, [next EXCEPT !.phase = "callback"])
             \/ Continues(t, next)
      BY <1>11 DEF ReplaceAllStep
    <2>2. next = [s EXCEPT !.cur = r.last, !.out = o]
      BY DEF Substituted
    <2> HIDE DEF o, next, r
    <2>3. "op" \in DOMAIN s /\ "op" \in DOMAIN next /\ next.op = "replace_all"
      BY <1>0, <2>1, <2>2 DEF Locals
    <2>4. \E local : /\ "op" \in DOMAIN local /\ local.op = "replace_all"
                     /\ Ends(t, local) \/ Continues(t, local)
      <3> DEFINE g == s.out \cup Kept(s.cur, js.blen)
      <3>1. \/ Ends(t, [s EXCEPT !.out = g, !.phase = "done"])
            \/ Ends(t, [s EXCEPT !.phase = "raised"])
            \/ Ends(t, [next EXCEPT !.phase = "callback"])
            \/ Continues(t, next)
        BY <2>1
      <3> HIDE DEF g, s
      <3> QED
        BY <2>1, <2>3, <3>1
    <2> QED
      BY <1>0, <2>4, NameKept
  <1>12. ASSUME StartReplace(t) PROVE th'[t].op = "replace"
    <2> DEFINE r == Exec(re, js, 0)
    <2> HIDE DEF r
    <2>1. \E callback \in BOOLEAN : \E out, phase :
             LET s == [Fresh("replace") EXCEPT !.callback = callback, !.cur = r.to]
             IN \/ Ends(t, [s EXCEPT !.out = out, !.phase = phase])
                \/ Ends(t, [s EXCEPT !.phase = phase])
      BY <1>12 DEF StartReplace, r
    <2> QED
      BY <1>0, <2>1 DEF Ends, Fresh
  <1>13. ASSUME CallbackReturns(t) PROVE th'[t].op = th[t].op /\ th'[t].op \in Replaces
    <2> DEFINE s == th[t]
               g == s.out \cup Kept(s.cur, js.blen)
               a == s.alone /\ li = s.cur
    <2>1. th[t].op \in Replaces
      BY <1>13 DEF CallbackReturns, JInv, Control
    <2>2. "op" \in DOMAIN s
      BY <1>0 DEF Locals
    <2>3. \/ th' = [th EXCEPT ![t] = [s EXCEPT !.phase = "loop", !.alone = a]]
          \/ Ends(t, [s EXCEPT !.out = g, !.phase = "done"])
      BY <1>13 DEF CallbackReturns
    <2> HIDE DEF g, a
    <2> QED
      BY <1>0, <2>1, <2>2, <2>3 DEF Ends
  <1>14. Raises(t) => th'[t].op = th[t].op /\ th'[t].phase = "raised"
    BY <1>0 DEF Raises, Ends, Locals
  <1> QED
    BY <1>1, <1>2, <1>3, <1>4, <1>5, <1>6, <1>7, <1>8, <1>9, <1>10, <1>11, <1>12, <1>13, <1>14
       DEF Named

\* A step that is none of match, nor a search that succeeds.
Elsewhere(t) ==
  \/ th'[t].op \notin {"match", "search"}
  \/ th'[t].phase = "raised" /\ (th'[t].op = "match" => th[t].op = "match")

LEMMA MatchStepRight ==
  ASSUME JInv, MInv, NEW t \in Threads, MatchStep(t)
  PROVE  MInv'
  <1>1. PICK local \in Locals : Moves(t, local)
    <2>1. \E local : Moves(t, local)
      BY StepsMove DEF Step
    <2> QED
      BY <2>1 DEF Moves
  <1>2. /\ th \in [Threads -> Locals] /\ th[t] \in Locals /\ th'[t] = local /\ li \in Nat
        /\ running = t /\ th[t].op = "match" /\ th[t].phase = "loop"
    BY <1>1 DEF Moves, JInv, Shape, Control, MatchStep
  <1> DEFINE r == Exec(re, js, li)
             s == th[t]
  <1>3. /\ li' = PastEmpty(r)
        /\ \/ ~r.found /\ Ends(t, [s EXCEPT !.phase = "done"])
           \/ r.found /\ r.ok /\ Continues(t, [s EXCEPT !.found = Append(@, Span(r))])
           \/ ~r.ok /\ Ends(t, [s EXCEPT !.phase = "raised"])
    BY DEF MatchStep
  <1>4. Aligned => /\ r.ok /\ re.global
                   /\ ~r.found => s.found = AllMatches
                   /\ r.found => Matching(PastEmpty(r), Append(s.found, Span(r)))
    <2>1. SUFFICES ASSUME Aligned
                   PROVE  /\ r.ok /\ re.global
                          /\ ~r.found => s.found = AllMatches
                          /\ r.found => Matching(PastEmpty(r), Append(s.found, Span(r)))
      OBVIOUS
    <2>2. re.global /\ Matching(li, s.found)
      BY <1>2, <2>1 DEF MInv, RightFor, OnTrack
    <2>3. Indexed(re)
      BY <2>2 DEF Indexed
    <2> HIDE DEF r, s
    <2> QED
      BY <1>2, <2>1, <2>2, <2>3, MatchGoesOn DEF r, AllMatches, AllSpans
  <1> HIDE DEF r
  <1>5. CASE ~r.found /\ Ends(t, [s EXCEPT !.phase = "done"])
    <2>1. local.op = "match" /\ local.found = s.found /\ running' # t
      BY <1>2, <1>5, NoThreadAssumption DEF Ends, Locals
    <2>2. Aligned => RightFor(local)
      BY <1>4, <1>5, <2>1 DEF RightFor
    <2> QED
      BY <1>1, <2>1, <2>2, MovesRight
  <1>6. CASE r.found /\ r.ok /\ Continues(t, [s EXCEPT !.found = Append(@, Span(r))])
    <2> DEFINE f == Append(s.found, Span(r))
    <2>1. Continues(t, [s EXCEPT !.found = f])
      BY <1>6
    <2>2. local.op = "match" /\ local.phase = "loop" /\ local.found = f
      <3> HIDE DEF f
      <3> QED
        BY <1>2, <2>1 DEF Continues, Locals
    <2> HIDE DEF f
    <2>3. Aligned => RightFor(local) /\ Matching(li', local.found)
      BY <1>3, <1>4, <1>6, <2>2 DEF RightFor, f
    <2> QED
      BY <1>1, <2>3, MovesRight
  <1>7. CASE ~r.ok
    <2>1. ~Aligned
      BY <1>4, <1>7
    <2> QED
      BY <1>1, <2>1, MovesRight
  <1> QED
    BY <1>3, <1>5, <1>6, <1>7

LEMMA StartMatchRight ==
  ASSUME JInv, MInv, NEW t \in Threads, StartMatch(t)
  PROVE  MInv'
  <1>1. PICK local \in Locals : Moves(t, local)
    <2>1. \E local : Moves(t, local)
      BY StartsMove
    <2> QED
      BY <2>1 DEF Moves
  <1>2. th \in [Threads -> Locals] /\ th'[t] = local
    BY <1>1 DEF Moves, JInv, Shape
  <1>3. local.op = "match" /\ local.phase = "loop" /\ local.found = <<>> /\ li' = 0 /\ re.global
    BY <1>2 DEF StartMatch, Fresh
  <1>4. Aligned => RightFor(local) /\ Matching(li', local.found)
    BY <1>3, MatchBegins DEF RightFor
  <1> QED
    BY <1>1, <1>4, MovesRight

\* The search from the start of the subject finds the first match of all, if any.
LEMMA FirstFound ==
  ASSUME JInv, Aligned, NEW r, r = Exec(re, js, 0)
  PROVE  /\ r.ok
         /\ ~r.found => AllMatches = <<>>
         /\ r.found => /\ AllMatches # <<>> /\ AllMatches[1] = Span(r)
                       /\ SubSeq(AllMatches, 1, 1) = <<Span(r)>>
  <1>1. Good(js, re) /\ JsStringOK(js) /\ AlignedOn(re, js)
    BY DEF JInv, Shape, Aligned, Good
  <1> DEFINE Spans == Reference!Spans(js, re)
             m == TheHit(js, re, 0)
             rest == Reference!ScanFrom(js, re, Behind(js, re, 0))
  <1>2. StartUnit(js, Begins(js, re, 0)) = 0
    BY <1>1, StartFacts DEF Begins
  <1>3. /\ Hits(js, re, 0) = {} => r = NoResult
        /\ \A x \in Hits(js, re, 0) : r = ResultOf(js, re, x)
    BY <1>1, <1>2, ExecIsNext DEF Hits
  <1>4. CASE Hits(js, re, 0) = {}
    <2>1. AllSpans = <<>>
      BY <1>1, <1>4, ScanEquation DEF AllSpans
    <2>2. AllMatches = <<>>
      BY <2>1 DEF AllMatches, AllSpans, ToBytes
    <2>3. r.ok /\ ~r.found
      BY <1>3, <1>4 DEF NoResult
    <2> QED
      BY <2>2, <2>3
  <1>5. CASE Hits(js, re, 0) # {}
    <2>1. m \in Hits(js, re, 0) /\ m \in Spans /\ Behind(js, re, 0) \in Nat
      BY <1>1, <1>5, BehindFacts
    <2>2. r = ResultOf(js, re, m)
      BY <1>3, <2>1
    <2>3. AllSpans = <<m>> \o rest /\ rest \in Seq(Spans)
      BY <1>1, <1>5, <2>1, ScanEquation DEF AllSpans
    <2> HIDE DEF m, rest, Spans
    <2>4. r.ok /\ r.found /\ Span(r) = Bytes(m)
      BY <2>2 DEF ResultOf, Span, Bytes
    <2>5. AllSpans \in Seq(Spans) /\ Len(AllSpans) >= 1 /\ AllSpans[1] = m
      BY <2>1, <2>3
    <2> DEFINE W == {Bytes(x) : x \in Spans}
    <2>6. AllMatches \in Seq(W) /\ Len(AllMatches) >= 1 /\ AllMatches[1] = Bytes(m)
      <3>1. AllMatches = ToBytes(AllSpans)
        BY DEF AllMatches, AllSpans
      <3>2. ToBytes(AllSpans) \in Seq(W)
        BY <2>5, BytesType
      <3>3. Len(ToBytes(AllSpans)) = Len(AllSpans) /\ ToBytes(AllSpans)[1] = Bytes(AllSpans[1])
        <4>1. 1 \in 1..Len(AllSpans)
          BY <2>5
        <4> QED
          BY <2>5, <4>1, BytesType
      <3> QED
        BY <2>5, <3>1, <3>2, <3>3
    <2> HIDE DEF W
    <2>7. AllMatches # <<>> /\ SubSeq(AllMatches, 1, 1) = <<AllMatches[1]>>
      <3> DEFINE a == AllMatches
                 sub == SubSeq(a, 1, 1)
      <3>1. a \in Seq(W) /\ a[1] \in W /\ a # <<>>
        BY <2>6
      <3> HIDE DEF a
      <3>2. sub \in Seq(W) /\ Len(sub) = 1 /\ sub[1] = a[1]
        <4>1. \A i \in 1..1 : a[i] \in W
          BY <3>1
        <4> QED
          BY <4>1, SubSeqProperties
      <3> HIDE DEF sub
      <3>3. <<a[1]>> \in Seq(W) /\ Len(<<a[1]>>) = 1 /\ <<a[1]>>[1] = a[1]
        BY <3>1
      <3>4. sub = <<a[1]>>
        BY <3>2, <3>3, SeqEqual
      <3> QED
        BY <3>1, <3>4 DEF a, sub
    <2> QED
      BY <2>4, <2>6, <2>7
  <1> QED
    BY <1>4, <1>5

LEMMA SearchRight ==
  ASSUME JInv, MInv, NEW t \in Threads, Search(t)
  PROVE  MInv'
  <1>1. PICK local \in Locals : Moves(t, local)
    <2>1. \E local : Moves(t, local)
      BY OnceMove
    <2> QED
      BY <2>1 DEF Moves
  <1>2. th \in [Threads -> Locals] /\ th'[t] = local
    BY <1>1 DEF Moves, JInv, Shape
  <1> DEFINE r == Exec(re, js, 0)
             f == IF r.found THEN <<Span(r)>> ELSE <<>>
  <1>3. /\ r.ok => Ends(t, [[Fresh("search") EXCEPT !.found = f] EXCEPT !.phase = "done"])
        /\ running' = NoThread
    BY DEF Search, SearchExec, Ends
  <1>4. r.ok => local.op = "search" /\ local.found = f
    <2> HIDE DEF f, r
    <2> QED
      BY <1>2, <1>3 DEF Ends, Fresh
  <1>5. ASSUME Aligned PROVE r.ok /\ f = SubSeq(AllMatches, 1, IF AllMatches = <<>> THEN 0 ELSE 1)
    <2>1. /\ r.ok
          /\ ~r.found => AllMatches = <<>>
          /\ r.found => AllMatches # <<>> /\ SubSeq(AllMatches, 1, 1) = <<Span(r)>>
      <3> HIDE DEF r
      <3> QED
        BY <1>5, FirstFound DEF r
    <2>2. SubSeq(<<>>, 1, 0) = <<>>
      OBVIOUS
    <2> HIDE DEF r
    <2> QED
      BY <2>1, <2>2
  <1> HIDE DEF f, r
  <1>6. Aligned => RightFor(local)
    BY <1>4, <1>5 DEF RightFor
  <1>7. running' # t
    BY <1>3, NoThreadAssumption
  <1> QED
    BY <1>1, <1>6, <1>7, MovesRight

LEMMA ElsewhereRight ==
  ASSUME JInv, MInv, NEW t \in Threads, NEW local, Moves(t, local), Elsewhere(t)
  PROVE  MInv'
  <1>1. th'[t] = local
    BY DEF Moves, JInv, Shape
  <1>2. running' = t => local.phase = "loop"
    BY DEF Moves
  <1>3. Aligned => RightFor(local) /\ (running' = t /\ local.op = "match" => FALSE)
    BY <1>1, <1>2 DEF Elsewhere, RightFor, MInv
  <1> QED
    BY <1>3, MovesRight

LEMMA UserRight == ASSUME JInv, MInv, UserStep PROVE MInv'
  <1>1. js' = js /\ re' = re /\ th' = th /\ running = NoThread /\ running' = NoThread
    BY DEF UserStep, Fixed
  <1>2. AllMatches' = AllMatches /\ (Aligned' <=> Aligned)
    BY <1>1 DEF AllMatches, ToBytes, Aligned
  <1>3. \A t \in Threads : Aligned => RightFor(th[t])'
    BY <1>1, <1>2 DEF MInv, RightFor
  <1>4. \A t \in Threads : OnTrack(t)'
    BY <1>1, NoThreadAssumption DEF OnTrack
  <1> QED
    BY <1>2, <1>3, <1>4 DEF MInv

LEMMA NextMInv == ASSUME JInv, MInv, [Next]_vars PROVE MInv'
  <1>1. CASE UNCHANGED vars
    <2>1. js' = js /\ re' = re /\ li' = li /\ th' = th /\ running' = running
      BY <1>1 DEF vars
    <2> QED
      BY ZenonT(30), <2>1 DEF MInv, Aligned, RightFor, OnTrack, Matching, AllMatches, AllSpans, ToBytes
  <1>2. CASE SetLastIndex \/ ExecCall
    BY <1>2, UserMoves, UserRight
  <1>3. ASSUME NEW t \in Threads,
               \/ StartMatch(t) \/ StartMatchAll(t) \/ Search(t) \/ SearchRaises(t)
               \/ StartSplit(t) \/ StartReplaceAll(t) \/ StartReplace(t)
               \/ Step(t) \/ CallClosure(t) \/ CallbackReturns(t) \/ Raises(t)
        PROVE  MInv'
    <2>1. CASE StartMatch(t)
      BY <2>1, StartMatchRight
    <2>2. CASE MatchStep(t)
      BY <2>2, MatchStepRight
    <2>3. CASE Search(t)
      BY <2>3, SearchRight
    <2>4. CASE ListStep(t) \/ SplitStep(t) \/ ReplaceAllStep(t)
      <3>1. \E local : Moves(t, local)
        BY <2>4, StepsMove DEF Step
      <3> QED
        BY <2>4, <3>1, Names, ElsewhereRight DEF Named, Elsewhere
    <2>5. CASE \/ StartMatchAll(t) \/ SearchRaises(t) \/ StartSplit(t) \/ StartReplaceAll(t)
               \/ StartReplace(t) \/ CallClosure(t) \/ CallbackReturns(t) \/ Raises(t)
      <3>1. \E local : Moves(t, local)
        BY <2>5, StartsMove, OnceMove, OthersMove
      <3> QED
        BY <2>5, <3>1, Names, ElsewhereRight DEF Named, Elsewhere, Replaces
    <2> QED
      BY <1>3, <2>1, <2>2, <2>3, <2>4, <2>5 DEF Step
  <1> QED
    BY <1>1, <1>2, <1>3 DEF Next

LEMMA InitMInv == Init => MInv
  <1>1. SUFFICES ASSUME Init PROVE MInv
    OBVIOUS
  <1>2. \A t \in Threads : th[t].op = "none"
    BY <1>1 DEF Init, Fresh
  <1> QED
    BY <1>2 DEF MInv, RightFor, OnTrack

\* Whatever last_index was, and whichever iterations and replacements are half
\* done, match lists the matches of the whole subject.  (jsregexp.lua:9-32)
THEOREM MatchIsComplete == Spec => []MatchListsAll
  <1>1. MInv => MatchListsAll
    BY DEF MInv, MatchListsAll, RightFor, Finished
  <1> QED
    BY <1>1, InitJInv, NextJInv, InitMInv, NextMInv, PTL DEF Spec

\* search reports the first match of the whole subject, wherever last_index is.
\* (jsregexp.lua:64-74)
THEOREM SearchIsFirst == Spec => []SearchFindsFirst
  <1>1. MInv => SearchFindsFirst
    BY DEF MInv, SearchFindsFirst, RightFor, Finished
  <1> QED
    BY <1>1, InitJInv, NextJInv, InitMInv, NextMInv, PTL DEF Spec

--------------------------------------------------------------------------------
(***************************************************************************)
(* An iteration of match_all implements the scan of the reference.         *)
(***************************************************************************)
Units(b) == <<UnitOf(b[1]), UnitOf(b[2])>>
InUnits(f) == [k \in 1..Len(f) |-> Units(f[k])]

LEMMA UnitsAppend ==
  ASSUME NEW T, NEW f \in Seq(T), NEW b \in T
  PROVE  /\ InUnits(<<>>) = <<>>
         /\ InUnits(Append(f, b)) = Append(InUnits(f), Units(b))
  <1> DEFINE W == {Units(x) : x \in T}
             e == Append(f, b)
             s == InUnits(f)
             g == Append(s, Units(b))
  <1>1. /\ e \in Seq(T) /\ Len(f) \in Nat /\ Len(e) = Len(f) + 1
        /\ \A k \in 1..Len(f) : e[k] = f[k] /\ f[k] \in T
        /\ e[Len(f) + 1] = b
    BY AppendProperties
  <1>2. s = [k \in 1..Len(f) |-> Units(f[k])]
    BY DEF InUnits
  <1> HIDE DEF e
  <1>3. /\ s \in Seq(W) /\ Len(s) = Len(f) /\ \A k \in 1..Len(f) : s[k] = Units(f[k])
    BY <1>1, <1>2
  <1>4. \A k \in 1..Len(e) : e[k] \in T
    BY <1>1
  <1>5. InUnits(e) = [k \in 1..Len(e) |-> Units(e[k])]
    BY DEF InUnits
  <1>6. /\ InUnits(e) \in Seq(W) /\ Len(InUnits(e)) = Len(e)
        /\ \A k \in 1..Len(e) : InUnits(e)[k] = Units(e[k])
    BY <1>1, <1>4, <1>5
  <1>7. Units(b) \in W
    OBVIOUS
  <1> HIDE DEF W, s
  <1>8. /\ g \in Seq(W) /\ Len(g) = Len(s) + 1
        /\ \A k \in 1..Len(s) : g[k] = s[k]
        /\ g[Len(s) + 1] = Units(b)
    BY <1>3, <1>7, AppendProperties
  <1> HIDE DEF g
  <1>9. \A k \in 1..Len(e) : InUnits(e)[k] = g[k]
    <2> TAKE k \in 1..Len(e)
    <2>1. CASE k = Len(f) + 1
      BY <1>1, <1>3, <1>6, <1>8, <2>1
    <2>2. CASE k # Len(f) + 1
      <3>1. k \in 1..Len(f)
        BY <1>1, <2>2
      <3> QED
        BY <1>1, <1>3, <1>6, <1>8, <3>1
    <2> QED
      BY <2>1, <2>2
  <1>10. InUnits(e) = g
    BY <1>1, <1>3, <1>6, <1>8, <1>9, SeqEqual
  <1>11. InUnits(<<>>) = <<>>
    BY DEF InUnits
  <1> QED
    BY <1>10, <1>11 DEF e, g, s

\* Bytes of boundaries are translated back.
LEMMA UnitsBack ==
  ASSUME JInv, NEW m, m = <<m[1], m[2]>>, m[1] \in js.bounds, m[2] \in js.bounds
  PROVE  Units(Bytes(m)) = m
  <1>1. \A u \in js.bounds : UnitOf(ByteOf(js, u)) = u
    <2>1. CASE js.wide
      <3>1. TablesOK(js)
        BY <2>1 DEF JInv, Shape, Good, JsStringOK
      <3> QED
        BY <2>1, <3>1 DEF UnitOf, ByteOf, TablesOK
    <2>2. CASE ~js.wide
      BY <2>2 DEF UnitOf, ByteOf
    <2> QED
      BY <2>1, <2>2
  <1>2. Units(Bytes(m)) = <<UnitOf(ByteOf(js, m[1])), UnitOf(ByteOf(js, m[2]))>>
    BY DEF Units, Bytes
  <1> QED
    BY <1>1, <1>2

\* An iteration is of a global RegExp, and starts over once it has ended.
IterInv ==
  \A t \in Threads :
    Iterates(t) =>
      re.global /\ (th[t].phase = "done" => th[t].li2 = 0)

\* The scan as the locals of its thread show it.
LEMMA ScanIs ==
  ASSUME NEW t \in Threads
  PROVE  /\ ~Iterates(t) => ScanPhase(t) = "off" /\ ScanPos(t) = 0 /\ ScanOut(t) = <<>>
         /\ Iterates(t) => /\ ScanPhase(t) = IF th[t].phase = "loop" THEN "on" ELSE "done"
                           /\ ScanPos(t) = StartUnit(js, th[t].li2)
                           /\ ScanOut(t) = InUnits(th[t].found)
  <1>1. ScanPhase(t) = IF ~Iterates(t) THEN "off" ELSE IF th[t].phase = "loop" THEN "on" ELSE "done"
    BY DEF ScanPhase
  <1>2. ScanPos(t) = IF ~Iterates(t) THEN 0 ELSE StartUnit(js, th[t].li2)
    BY DEF ScanPos, StartUnit
  <1>3. ScanOut(t) = IF ~Iterates(t) THEN <<>> ELSE InUnits(th[t].found)
    BY DEF ScanOut, InUnits, Units
  <1> QED
    BY <1>1, <1>2, <1>3

LEMMA ScanIsNext ==
  ASSUME NEW t \in Threads
  PROVE  /\ ~Iterates(t)' => ScanPhase(t)' = "off" /\ ScanPos(t)' = 0 /\ ScanOut(t)' = <<>>
         /\ Iterates(t)' /\ js' = js =>
              /\ ScanPhase(t)' = IF th'[t].phase = "loop" THEN "on" ELSE "done"
              /\ ScanPos(t)' = StartUnit(js, th'[t].li2)
              /\ ScanOut(t)' = InUnits(th'[t].found)
  <1>1. ScanPhase(t)' = IF ~Iterates(t)' THEN "off" ELSE IF th'[t].phase = "loop" THEN "on" ELSE "done"
    BY DEF ScanPhase
  <1>2. ScanPos(t)' = IF ~Iterates(t)' THEN 0 ELSE StartUnit(js', th'[t].li2)
    BY DEF ScanPos, StartUnit
  <1>3. ~Iterates(t)' => ScanOut(t)' = <<>>
    BY DEF ScanOut
  <1>4. Iterates(t)' /\ js' = js => ScanOut(t)' = InUnits(th'[t].found)
    BY DEF ScanOut, InUnits, Units, UnitOf
  <1> QED
    BY <1>1, <1>2, <1>3, <1>4

LEMMA InitScans ==
  ASSUME Init, NEW t \in Threads
  PROVE  IterInv /\ Scan(t)!Init
  <1>1. \A x \in Threads : th[x].op = "none"
    BY DEF Init, Fresh
  <1>2. \A x \in Threads : ~Iterates(x)
    BY <1>1 DEF Iterates
  <1>3. Scan(t)!Init
    BY <1>2, ScanIs DEF Scan!Init
  <1> QED
    BY <1>2, <1>3 DEF IterInv

\* A call of the closure.
LEMMA ClosureScans ==
  ASSUME JInv, IterInv, Aligned, NEW t \in Threads, CallClosure(t)
  PROVE  /\ Scan(t)!Next
         /\ th'[t].phase = "done" => th'[t].li2 = 0
  <1> DEFINE s == th[t]
             r == Exec(re, js, s.li2)
             u == StartUnit(js, s.li2)
             pass == IF s.phase = "done" THEN <<>> ELSE s.found
  <1>1. /\ s \in Locals /\ s.li2 \in Nat /\ s.found \in Seq(SpansOfSubject) /\ th \in [Threads -> Locals]
        /\ s.op = "match_all" /\ s.phase \in {"loop", "done"} /\ Iterates(t)
        /\ js' = js /\ re' = re
    BY DEF JInv, Shape, CallClosure, Locals, Iterates, Fixed
  <1>2. re.global /\ Indexed(re) /\ (s.phase = "done" => s.li2 = 0)
    BY <1>1 DEF IterInv, Indexed
  <1>3. /\ u \in 0..(js.len + 1)
        /\ Hits(js, re, u) = {} => r = NoResult
        /\ \A m \in Hits(js, re, u) :
             /\ r.ok /\ r.found /\ Span(r) = Bytes(m)
             /\ m = <<m[1], m[2]>> /\ m[1] \in js.bounds /\ m[2] \in js.bounds
             /\ StartUnit(js, PastEmpty(r)) = Reference!AfterMatch(js, m)
    <2> HIDE DEF s
    <2> QED
      BY <1>1, <1>2, FoundIsNext
  <1>4. Span(r) \in SpansOfSubject /\ StartUnit(js, 0) = 0
    <2>1. Span(r) \in SpansOfSubject
      BY <1>1, ResultTypes
    <2> QED
      BY <2>1, StartFacts DEF JInv, Shape, Good
  <1>5. /\ th'[t] = AfterClosure(s)
        /\ AfterClosure(s) = [s EXCEPT !.li2 = PastEmpty(r),
                                       !.found = IF r.found /\ r.ok THEN Append(pass, Span(r)) ELSE pass,
                                       !.phase = IF ~r.found THEN "done" ELSE IF r.ok THEN "loop" ELSE "raised"]
    BY <1>1 DEF CallClosure, AfterClosure
  <1>6. /\ th'[t].li2 = PastEmpty(r)
        /\ th'[t].found = IF r.found /\ r.ok THEN Append(pass, Span(r)) ELSE pass
        /\ th'[t].phase = IF ~r.found THEN "done" ELSE IF r.ok THEN "loop" ELSE "raised"
        /\ th'[t].op = "match_all"
    <2> HIDE DEF r, pass, s
    <2> QED
      BY <1>1, <1>5 DEF Locals
  <1> HIDE DEF r
  <1>7. /\ ScanPhase(t) = IF s.phase = "loop" THEN "on" ELSE "done"
        /\ ScanPos(t) = u
        /\ ScanOut(t) = InUnits(s.found)
    BY <1>1, ScanIs
  <1>8. /\ pass \in Seq(SpansOfSubject) /\ InUnits(<<>>) = <<>>
        /\ InUnits(Append(pass, Span(r))) = Append(InUnits(pass), Units(Span(r)))
    <2>1. <<>> \in Seq(SpansOfSubject)
      BY EmptySeq
    <2>2. pass \in Seq(SpansOfSubject)
      BY <1>1, <2>1
    <2> HIDE DEF pass
    <2> QED
      BY <1>4, <2>2, UnitsAppend
  <1>9. CASE Hits(js, re, u) = {}
    <2>1. r = NoResult
      BY <1>3, <1>9
    <2>2. th'[t].li2 = 0 /\ th'[t].found = pass /\ th'[t].phase = "done"
      <3> HIDE DEF pass
      <3> QED
        BY <1>6, <2>1 DEF NoResult, PastEmpty
    <2>3. Iterates(t)'
      BY <1>6, <2>2 DEF Iterates
    <2>4. ScanPhase(t)' = "done" /\ ScanPos(t)' = 0 /\ ScanOut(t)' = InUnits(pass)
      <3> HIDE DEF pass
      <3> QED
        BY <1>1, <1>4, <2>2, <2>3, ScanIsNext
    <2>5. Reference!NextMatches(js, re, u) = {}
      BY <1>9 DEF Hits
    <2>6. CASE s.phase = "loop"
      <3>1. Scan(t)!Finish
        BY <1>1, <1>7, <2>4, <2>5, <2>6
           DEF Scan!Finish, Scan!Fixed, Scan!NextMatches, Scan!IsNext, Scan!Spans,
               Reference!NextMatches, Reference!IsNext, Reference!Spans
      <3> QED
        BY <2>2, <3>1 DEF Scan!Next
    <2>7. CASE s.phase = "done"
      <3>1. u = 0
        BY <1>2, <1>4, <2>7
      <3>2. Scan(t)!Again
        BY <1>1, <1>7, <1>8, <2>4, <2>5, <2>7, <3>1
           DEF Scan!Again, Scan!Fixed, Scan!NextMatches, Scan!IsNext, Scan!Spans,
               Reference!NextMatches, Reference!IsNext, Reference!Spans
      <3> QED
        BY <2>2, <3>2 DEF Scan!Next
    <2> QED
      BY <1>1, <2>6, <2>7
  <1>10. ASSUME NEW m \in Hits(js, re, u)
         PROVE  /\ Scan(t)!Next
                /\ th'[t].phase = "done" => th'[t].li2 = 0
    <2>1. Units(Span(r)) = m
      BY <1>3, <1>10, UnitsBack
    <2>2. /\ th'[t].li2 = PastEmpty(r) /\ th'[t].found = Append(pass, Span(r))
          /\ th'[t].phase = "loop"
      <3> HIDE DEF pass
      <3> QED
        BY <1>3, <1>6, <1>10
    <2>3. Iterates(t)'
      BY <1>6, <2>2 DEF Iterates
    <2>4. /\ ScanPhase(t)' = "on" /\ ScanPos(t)' = Reference!AfterMatch(js, m)
          /\ ScanOut(t)' = Append(InUnits(pass), m)
      <3> HIDE DEF pass
      <3> QED
        BY <1>1, <1>3, <1>8, <1>10, <2>1, <2>2, <2>3, ScanIsNext
    <2>5. /\ m \in Scan(t)!NextMatches(js, re, u)
          /\ Scan(t)!AfterMatch(js, m) = Reference!AfterMatch(js, m)
      BY <1>10 DEF Hits, Scan!NextMatches, Scan!IsNext, Scan!Spans, Scan!AfterMatch, Scan!Advance,
             Reference!NextMatches, Reference!IsNext, Reference!Spans,
             Reference!AfterMatch, Reference!Advance
    <2>6. CASE s.phase = "loop"
      <3>1. Scan(t)!Produce
        BY <1>1, <1>7, <2>4, <2>5, <2>6 DEF Scan!Produce, Scan!Fixed
      <3> QED
        BY <2>2, <3>1 DEF Scan!Next
    <2>7. CASE s.phase = "done"
      <3>1. u = 0
        BY <1>2, <1>4, <2>7
      <3>2. ScanOut(t)' = <<m>>
        <4>1. pass = <<>> /\ Append(<<>>, m) = <<m>>
          BY <2>7
        <4> QED
          BY <1>8, <2>4, <4>1
      <3>3. Scan(t)!Again
        BY <1>1, <1>7, <2>4, <2>5, <2>7, <3>1, <3>2 DEF Scan!Again, Scan!Fixed
      <3> QED
        BY <2>2, <3>3 DEF Scan!Next
    <2> QED
      BY <1>1, <2>6, <2>7
  <1> QED
    BY <1>9, <1>10

LEMMA StartsScan ==
  ASSUME JInv, NEW t \in Threads, StartMatchAll(t)
  PROVE  /\ Scan(t)!Next
         /\ th'[t].op = "match_all" => re.global /\ th'[t].phase = "loop"
  <1>1. /\ re.global /\ js' = js /\ re' = re /\ li \in Nat
        /\ th \in [Threads -> Locals]
    BY DEF StartMatchAll, Fixed, JInv, Shape
  <1>2. /\ StartUnit(js, li) \in 0..(js.len + 1)
        /\ InUnits(<<>>) = <<>>
    <2>1. js.len \in Nat /\ js.bounds \subseteq 0..js.len
      BY StringFacts DEF JInv, Shape, Good
    <2>2. StartUnit(js, li) \in 0..(js.len + 1)
      BY <1>1, <2>1, StartFacts DEF JInv, Shape, Good
    <2> QED
      BY <2>2 DEF InUnits
  <1>3. CASE Ends(t, [Fresh("match_all") EXCEPT !.li2 = li])
    <2>1. /\ th'[t].op = "match_all" /\ th'[t].phase = "loop"
          /\ th'[t].li2 = li /\ th'[t].found = <<>>
      BY <1>1, <1>3 DEF Ends, Fresh
    <2>2. Iterates(t)'
      BY <2>1 DEF Iterates
    <2>3. ScanPhase(t)' = "on" /\ ScanPos(t)' \in 0..(js.len + 1) /\ ScanOut(t)' = <<>>
      BY <1>1, <1>2, <2>1, <2>2, ScanIsNext
    <2>4. Scan(t)!Begin
      BY <1>1, <2>3 DEF Scan!Begin, Scan!Fixed
    <2> QED
      BY <1>1, <2>1, <2>4 DEF Scan!Next
  <1>4. CASE th' = [th EXCEPT ![t] = [Fresh("match_all_list") EXCEPT !.li2 = li]]
    <2>1. th'[t].op = "match_all_list"
      BY <1>1, <1>4 DEF Fresh
    <2>2. ~Iterates(t)'
      BY <2>1 DEF Iterates
    <2>3. Scan(t)!Abandon
      BY <1>1, <2>2, ScanIsNext DEF Scan!Abandon, Scan!Fixed
    <2> QED
      BY <2>1, <2>3 DEF Scan!Next
  <1> QED
    BY <1>3, <1>4 DEF StartMatchAll

\* What a step does to the iteration of t.
Scans(t) ==
  /\ [Scan(t)!Next]_(Scan(t)!vars)
  /\ Iterates(t)' =>
       re'.global /\ (th'[t].phase = "done" => th'[t].li2 = 0)

LEMMA SameScans ==
  ASSUME JInv, IterInv, NEW t \in Threads, th'[t] = th[t], Fixed
  PROVE  Scans(t)
  <1>1. js' = js /\ re' = re /\ (Iterates(t)' <=> Iterates(t))
    BY DEF Fixed, Iterates
  <1>2. UNCHANGED <<ScanPhase(t), ScanPos(t), ScanOut(t)>>
    BY <1>1, ScanIs, ScanIsNext
  <1>3. UNCHANGED Scan(t)!vars
    BY <1>1, <1>2 DEF Scan!vars
  <1> QED
    BY <1>1, <1>3 DEF Scans, IterInv

LEMMA MovesScan ==
  ASSUME JInv, IterInv, NEW t \in Threads, NEW local, Moves(t, local), NEW x \in Threads,
         x = t => Scans(t)
  PROVE  Scans(x)
  <1>1. x # t => th'[x] = th[x] /\ Fixed
    BY DEF Moves, JInv, Shape
  <1> QED
    BY <1>1, SameScans

NotIterating(t) == th'[t].op = "match_all" => th'[t].phase = "raised"

LEMMA OffScans ==
  ASSUME JInv, NEW t \in Threads, NEW local, Moves(t, local), NotIterating(t)
  PROVE  Scans(t)
  <1>1. ~Iterates(t)' /\ Fixed /\ js' = js /\ re' = re
    BY DEF NotIterating, Iterates, Moves, Fixed
  <1>2. Scan(t)!Abandon
    BY <1>1, ScanIsNext DEF Scan!Abandon, Scan!Fixed
  <1> QED
    BY <1>1, <1>2 DEF Scans, Scan!Next

LEMMA NextScans ==
  ASSUME JInv, IterInv, Aligned, [Next]_vars
  PROVE  \A x \in Threads : Scans(x)
  <1> TAKE x \in Threads
  <1>1. CASE UNCHANGED vars
    BY <1>1, SameScans DEF vars, Fixed
  <1>2. CASE SetLastIndex \/ ExecCall
    BY <1>2, UserMoves, SameScans DEF UserStep
  <1>3. ASSUME NEW t \in Threads,
               \/ StartMatch(t) \/ StartMatchAll(t) \/ Search(t) \/ SearchRaises(t)
               \/ StartSplit(t) \/ StartReplaceAll(t) \/ StartReplace(t)
               \/ Step(t) \/ CallClosure(t) \/ CallbackReturns(t) \/ Raises(t)
        PROVE  Scans(x)
    <2>1. PICK local : Moves(t, local)
      BY <1>3, StartsMove, OnceMove, StepsMove, OthersMove
    <2>2. re' = re
      BY <2>1 DEF Moves, Fixed
    <2>3. CASE StartMatchAll(t)
      <3>1. Scans(t)
        BY <2>2, <2>3, StartsScan DEF Scans, Iterates
      <3> QED
        BY <2>1, <3>1, MovesScan
    <2>4. CASE CallClosure(t)
      <3>1. Iterates(t)
        BY <2>4 DEF CallClosure, Iterates
      <3>2. Scans(t)
        BY <2>2, <2>4, <3>1, ClosureScans DEF Scans, IterInv
      <3> QED
        BY <2>1, <3>2, MovesScan
    <2>5. CASE ~StartMatchAll(t) /\ ~CallClosure(t)
      <3>1. NotIterating(t)
        BY <1>3, <2>5, Names DEF Step, Named, NotIterating, Replaces
      <3>2. Scans(t)
        BY <2>1, <3>1, OffScans
      <3> QED
        BY <2>1, <3>2, MovesScan
    <2> QED
      BY <2>3, <2>4, <2>5
  <1> QED
    BY <1>1, <1>2, <1>3 DEF Next

LEMMA IterKept ==
  ASSUME \A t \in Threads : Scans(t)
  PROVE  IterInv'
  BY DEF Scans, IterInv

LEMMA AlignedStays == ASSUME JInv, Aligned, [Next]_vars PROVE Aligned'
  <1>1. js' = js /\ re' = re
    BY NextIs DEF vars, UserStep, Moves, Fixed
  <1> QED
    BY <1>1 DEF Aligned

\* Of a pattern that matches between boundaries, the closures of match_all give
\* the matches of the reference one by one, and start over after the last one,
\* whatever is done to the RegExp object in between.  (jsregexp.lua:34-54)
THEOREM IteratorsScan == Aligned /\ Spec => IteratorScans
  <1> DEFINE I == JInv /\ IterInv /\ Aligned
  <1>1. Init => IterInv /\ \A t \in Threads : Scan(t)!Init
    <2>1. Init => IterInv
      BY DEF Init, Fresh, IterInv, Iterates
    <2> QED
      BY <2>1, InitScans
  <1>2. I /\ [Next]_vars => I' /\ \A t \in Threads : [Scan(t)!Next]_(Scan(t)!vars)
    BY NextJInv, NextScans, IterKept, AlignedStays DEF Scans
  <1>3. I /\ [Next]_vars => [\A t \in Threads : [Scan(t)!Next]_(Scan(t)!vars)]_vars
    BY <1>2
  <1> QED
    BY <1>1, <1>2, <1>3, InitJInv, PTL DEF Spec, IteratorScans

\* So each of them is a behaviour of the abstract scan.
THEOREM EachIteratorScans ==
  ASSUME NEW t \in Threads
  PROVE  Aligned /\ Spec => Scan(t)!Spec
  <1> DEFINE I == JInv /\ IterInv /\ Aligned
  <1>1. Init => IterInv /\ Scan(t)!Init
    BY InitScans
  <1>2. I /\ [Next]_vars => I' /\ [Scan(t)!Next]_(Scan(t)!vars)
    BY NextJInv, NextScans, IterKept, AlignedStays DEF Scans
  <1> QED
    BY <1>1, <1>2, InitJInv, PTL DEF Spec, Scan!Spec

--------------------------------------------------------------------------------
(***************************************************************************)
(* The pieces of replace_all and replace.                                  *)
(***************************************************************************)
Gap(from, to) == IF from < to THEN {<<from, to>>} ELSE {}

LEMMA PiecesFacts ==
  /\ \A kind : PiecesOf({}, kind) = {}
  /\ \A o, p, kind : PiecesOf(o \cup p, kind) = PiecesOf(o, kind) \cup PiecesOf(p, kind)
  /\ \A from, to : PiecesOf(Kept(from, to), "kept") = Gap(from, to)
                   /\ PiecesOf(Kept(from, to), "replaced") = {}
  /\ \A r : PiecesOf(Replaced(r), "replaced") = {Span(r)} /\ PiecesOf(Replaced(r), "kept") = {}
  <1>1. \A kind : PiecesOf({}, kind) = {}
    BY DEF PiecesOf
  <1>2. \A o, p, kind : PiecesOf(o \cup p, kind) = PiecesOf(o, kind) \cup PiecesOf(p, kind)
    BY DEF PiecesOf
  <1>0. \A a, b : /\ PiecesOf({<<"kept", a, b>>}, "kept") = {<<a, b>>}
                  /\ PiecesOf({<<"kept", a, b>>}, "replaced") = {}
                  /\ PiecesOf({<<"replaced", a, b>>}, "replaced") = {<<a, b>>}
                  /\ PiecesOf({<<"replaced", a, b>>}, "kept") = {}
    <2> TAKE a, b
    <2>1. ASSUME NEW one, NEW kind
          PROVE  /\ one[1] = kind => PiecesOf({one}, kind) = {<<one[2], one[3]>>}
                 /\ one[1] # kind => PiecesOf({one}, kind) = {}
      <3>1. CASE one[1] = kind
        <4>1. {x \in {one} : x[1] = kind} = {one}
          BY <3>1
        <4> QED
          BY <3>1, <4>1 DEF PiecesOf
      <3>2. CASE one[1] # kind
        <4>1. {x \in {one} : x[1] = kind} = {}
          BY <3>2
        <4> QED
          BY <3>2, <4>1 DEF PiecesOf
      <3> QED
        BY <3>1, <3>2
    <2>2. /\ <<"kept", a, b>>[1] = "kept" /\ <<"kept", a, b>>[2] = a /\ <<"kept", a, b>>[3] = b
          /\ <<"replaced", a, b>>[1] = "replaced" /\ <<"replaced", a, b>>[2] = a
          /\ <<"replaced", a, b>>[3] = b
      OBVIOUS
    <2> DEFINE kept == <<"kept", a, b>>
               replaced == <<"replaced", a, b>>
    <2> HIDE DEF kept, replaced
    <2>3. /\ kept[1] = "kept" /\ <<kept[2], kept[3]>> = <<a, b>>
          /\ replaced[1] = "replaced" /\ <<replaced[2], replaced[3]>> = <<a, b>>
      BY <2>2 DEF kept, replaced
    <2>4. /\ PiecesOf({kept}, "kept") = {<<a, b>>} /\ PiecesOf({kept}, "replaced") = {}
          /\ PiecesOf({replaced}, "replaced") = {<<a, b>>} /\ PiecesOf({replaced}, "kept") = {}
      <3>1. "kept" # "replaced"
        OBVIOUS
      <3>2. PiecesOf({kept}, "kept") = {<<kept[2], kept[3]>>} /\ PiecesOf({kept}, "replaced") = {}
        BY <2>1, <2>3, <3>1
      <3>3. /\ PiecesOf({replaced}, "replaced") = {<<replaced[2], replaced[3]>>}
            /\ PiecesOf({replaced}, "kept") = {}
        BY <2>1, <2>3, <3>1
      <3> QED
        BY <2>3, <3>2, <3>3
    <2> QED
      BY <2>4 DEF kept, replaced
  <1>3. \A from, to : PiecesOf(Kept(from, to), "kept") = Gap(from, to)
                      /\ PiecesOf(Kept(from, to), "replaced") = {}
    BY <1>1, <1>0 DEF Kept, Gap
  <1>4. \A r : PiecesOf(Replaced(r), "replaced") = {Span(r)} /\ PiecesOf(Replaced(r), "kept") = {}
    BY <1>0 DEF Replaced, Span
  <1> QED
    BY <1>1, <1>2, <1>3, <1>4

\* Where the k-th of the spans f ends, where the last one does, the gaps before
\* them, and the spans themselves.
EndAt(f, k) == IF k = 0 THEN 0 ELSE f[k][2]
EndOf(f) == EndAt(f, Len(f))
GapAt(f, k) == Gap(EndAt(f, k - 1), f[k][1])
GapsBefore(f) == UNION {GapAt(f, k) : k \in 1..Len(f)}
Members(f) == {f[k] : k \in 1..Len(f)}

LEMMA GapsAppend ==
  ASSUME NEW T, NEW f \in Seq(T), NEW b \in T
  PROVE  /\ EndOf(<<>>) = 0 /\ GapsBefore(<<>>) = {} /\ Members(<<>>) = {}
         /\ EndOf(Append(f, b)) = b[2]
         /\ GapsBefore(Append(f, b)) = GapsBefore(f) \cup Gap(EndOf(f), b[1])
         /\ Members(Append(f, b)) = Members(f) \cup {b}
  <1> DEFINE e == Append(f, b)
             n == Len(f)
  <1>1. /\ n \in Nat /\ Len(e) = n + 1 /\ e[n + 1] = b
        /\ \A k \in 1..n : e[k] = f[k]
    OBVIOUS
  <1>2. EndOf(<<>>) = 0 /\ GapsBefore(<<>>) = {} /\ Members(<<>>) = {}
    BY DEF EndOf, EndAt, GapsBefore, Members
  <1> HIDE DEF e, n
  <1>3. /\ n + 1 \in 1..(n + 1) /\ n + 1 # 0 /\ n + 1 - 1 = n
        /\ \A k \in 1..(n + 1) : k = n + 1 \/ k \in 1..n
        /\ \A k \in 1..n : k \in 1..(n + 1) /\ (k - 1 = 0 \/ k - 1 \in 1..n)
        /\ n = 0 \/ n \in 1..n
    BY <1>1
  <1>4. EndOf(e) = b[2]
    BY <1>1, <1>3 DEF EndOf, EndAt
  <1>5. \A k \in 1..n : EndAt(e, k - 1) = EndAt(f, k - 1) /\ GapAt(e, k) = GapAt(f, k)
    BY <1>1, <1>3 DEF EndAt, GapAt
  <1>6. GapAt(e, n + 1) = Gap(EndOf(f), b[1])
    <2>1. EndAt(e, n) = EndAt(f, n)
      BY <1>1, <1>3 DEF EndAt
    <2> QED
      BY <1>1, <1>3, <2>1 DEF EndOf, GapAt, n
  <1>7. GapsBefore(e) = GapsBefore(f) \cup Gap(EndOf(f), b[1])
    <2>1. GapsBefore(e) = UNION {GapAt(e, k) : k \in 1..(n + 1)}
      BY <1>1 DEF GapsBefore
    <2>2. GapsBefore(f) = UNION {GapAt(f, k) : k \in 1..n}
      BY DEF GapsBefore, n
    <2>3. \A x : x \in GapsBefore(e) <=> \E k \in 1..(n + 1) : x \in GapAt(e, k)
      BY <2>1
    <2>4. \A x : x \in GapsBefore(f) <=> \E k \in 1..n : x \in GapAt(f, k)
      BY <2>2
    <2>5. \A x : x \in GapsBefore(e) <=> x \in GapsBefore(f) \/ x \in Gap(EndOf(f), b[1])
      BY <1>3, <1>5, <1>6, <2>3, <2>4
    <2> QED
      BY <2>5
  <1>8. Members(e) = Members(f) \cup {b}
    <2>1. Members(e) = {e[k] : k \in 1..(n + 1)} /\ Members(f) = {f[k] : k \in 1..n}
      BY <1>1 DEF Members, n
    <2> QED
      BY <1>1, <1>3, <2>1
  <1> QED
    BY <1>2, <1>4, <1>7, <1>8 DEF e

LEMMA GapsAre ==
  ASSUME NEW f, Len(f) \in Nat
  PROVE  Gaps(f) = GapsBefore(f) \cup Gap(EndOf(f), js.blen)
  <1> DEFINE n == Len(f)
             from(k) == IF k = 0 THEN 0 ELSE f[k][2]
             to(k) == IF k = n THEN js.blen ELSE f[k + 1][1]
  <1>1. Gaps(f) = {<<from(k), to(k)>> : k \in {x \in 0..n : from(x) < to(x)}}
    BY DEF Gaps
  <1>2. \A k : from(k) = EndAt(f, k)
    BY DEF EndAt
  <1>3. to(n) = js.blen /\ \A k \in 0..(n - 1) : to(k) = f[k + 1][1]
    OBVIOUS
  <1>4. GapsBefore(f) = UNION {GapAt(f, k) : k \in 1..n}
    BY DEF GapsBefore
  <1> HIDE DEF n, from, to
  <1>5. \A x : x \in Gaps(f) <=> \E k \in 0..n : x \in Gap(from(k), to(k))
    <2>1. \A x : x \in Gaps(f) <=> \E k \in 0..n : from(k) < to(k) /\ x = <<from(k), to(k)>>
      BY <1>1
    <2>2. \A x, k : x \in Gap(from(k), to(k)) <=> from(k) < to(k) /\ x = <<from(k), to(k)>>
      BY DEF Gap
    <2> QED
      BY <2>1, <2>2
  <1>6. /\ n \in Nat /\ n \in 0..n
        /\ \A k \in 0..n : k = n \/ (k \in 0..(n - 1) /\ k + 1 \in 1..n /\ k + 1 - 1 = k)
        /\ \A k \in 1..n : k - 1 \in 0..(n - 1) /\ k - 1 \in 0..n /\ k - 1 + 1 = k
    BY DEF n
  <1>7. \A k \in 1..n : GapAt(f, k) = Gap(from(k - 1), to(k - 1))
    BY <1>2, <1>3, <1>6 DEF GapAt
  <1>8. \A x : x \in GapsBefore(f) <=> \E k \in 1..n : x \in GapAt(f, k)
    BY <1>4
  <1>9. Gap(EndOf(f), js.blen) = Gap(from(n), to(n))
    BY <1>2, <1>3 DEF EndOf, n
  <1>10. \A x : x \in GapsBefore(f) <=> \E k \in 0..(n - 1) : x \in Gap(from(k), to(k))
    <2>1. ASSUME NEW x, x \in GapsBefore(f)
          PROVE  \E k \in 0..(n - 1) : x \in Gap(from(k), to(k))
      BY <1>6, <1>7, <1>8, <2>1
    <2>2. ASSUME NEW x, NEW k \in 0..(n - 1), x \in Gap(from(k), to(k))
          PROVE  x \in GapsBefore(f)
      <3>1. k + 1 \in 1..n /\ k + 1 - 1 = k
        BY <1>6
      <3>2. GapAt(f, k + 1) = Gap(from(k), to(k))
        BY <1>7, <3>1
      <3> QED
        BY <1>8, <2>2, <3>1, <3>2
    <2> QED
      BY <2>1, <2>2
  <1>11. \A x : x \in Gaps(f) <=> x \in GapsBefore(f) \/ x \in Gap(EndOf(f), js.blen)
    BY <1>5, <1>6, <1>9, <1>10
  <1> QED
    BY <1>11

\* The pieces out cover the subject up to byte l as the reference has it.
Covers(l, out) ==
  \E d \in Seq(Reference!Spans(js, re)) :
    /\ AllSpans = d \o Reference!ScanFrom(js, re, StartUnit(js, l))
    /\ l = EndOf(ToBytes(d))
    /\ PiecesOf(out, "replaced") = Members(ToBytes(d))
    /\ PiecesOf(out, "kept") = GapsBefore(ToBytes(d))

\* exec finds the same empty match again and again.
Stuck(l) == Exec(re, js, l).found /\ Exec(re, js, l).ok /\ Exec(re, js, l).last = l

Whole(out, f) == PiecesOf(out, "replaced") = Members(f) /\ PiecesOf(out, "kept") = Gaps(f)

LEMMA CoversAll ==
  ASSUME NEW T, NEW d \in Seq(T), NEW l, l = EndOf(ToBytes(d)), NEW out,
         PiecesOf(out, "replaced") = Members(ToBytes(d)),
         PiecesOf(out, "kept") = GapsBefore(ToBytes(d))
  PROVE  Whole(out \cup Kept(l, js.blen), ToBytes(d))
  <1> DEFINE f == ToBytes(d)
  <1>1. Len(f) \in Nat
    <2>1. Len(f) = Len(d)
      BY BytesType
    <2> QED
      BY <2>1
  <1> HIDE DEF f
  <1>2. Gaps(f) = GapsBefore(f) \cup Gap(l, js.blen)
    BY <1>1, GapsAre DEF f
  <1>3. PiecesOf(out \cup Kept(l, js.blen), "kept") = GapsBefore(f) \cup Gap(l, js.blen)
    BY PiecesFacts DEF f
  <1>4. PiecesOf(out \cup Kept(l, js.blen), "replaced") = Members(f)
    <2>1. /\ PiecesOf(out, "replaced") = Members(f)
          /\ PiecesOf(Kept(l, js.blen), "replaced") = {}
      BY PiecesFacts DEF f
    <2>2. PiecesOf(out \cup Kept(l, js.blen), "replaced") =
            PiecesOf(out, "replaced") \cup PiecesOf(Kept(l, js.blen), "replaced")
      BY PiecesFacts
    <2> QED
      BY <2>1, <2>2
  <1> QED
    BY <1>2, <1>3, <1>4 DEF Whole, f

LEMMA ReplaceGoesOn ==
  ASSUME JInv, Aligned, Indexed(re), NEW l \in Nat, NEW out, Covers(l, out),
         NEW r, r = Exec(re, js, l)
  PROVE  /\ r.ok
         /\ ~r.found => Whole(out \cup Kept(l, js.blen), AllMatches)
         /\ r.found => \/ Stuck(r.last)
                       \/ Covers(r.last, out \cup Kept(l, r.from) \cup Replaced(r))
  <1> DEFINE u == StartUnit(js, l)
             Spans == Reference!Spans(js, re)
             m == TheHit(js, re, u)
             rest == Reference!ScanFrom(js, re, Behind(js, re, u))
             more == out \cup Kept(l, r.from) \cup Replaced(r)
  <1>1. Good(js, re) /\ JsStringOK(js) /\ AlignedOn(re, js)
    BY DEF JInv, Shape, Aligned, Good
  <1>2. u \in Nat
    <2>1. js.len \in Nat
      BY <1>1, StringFacts DEF Good
    <2> QED
      BY <2>1, FoundIsNext
  <1>3. PICK d \in Seq(Spans) :
          /\ AllSpans = d \o Reference!ScanFrom(js, re, u)
          /\ l = EndOf(ToBytes(d))
          /\ PiecesOf(out, "replaced") = Members(ToBytes(d))
          /\ PiecesOf(out, "kept") = GapsBefore(ToBytes(d))
    BY DEF Covers
  <1>4. CASE Hits(js, re, u) = {}
    <2>1. Reference!ScanFrom(js, re, u) = <<>>
      BY <1>1, <1>2, <1>4, ScanEquation
    <2>2. AllSpans = d
      BY <1>3, <2>1, ConcatEmptySeq
    <2>3. r = NoResult
      BY <1>4, FoundIsNext
    <2>4. Whole(out \cup Kept(l, js.blen), ToBytes(d))
      <3> HIDE DEF Spans
      <3> QED
        BY <1>3, CoversAll
    <2> QED
      BY <2>2, <2>3, <2>4 DEF NoResult, AllMatches, AllSpans
  <1>5. CASE Hits(js, re, u) # {}
    <2>1. m \in Hits(js, re, u) /\ m \in Spans /\ Behind(js, re, u) \in Nat
      BY <1>1, <1>2, <1>5, BehindFacts
    <2>2. /\ r.ok /\ r.found /\ Span(r) = Bytes(m)
          /\ m = <<m[1], m[2]>> /\ m[1] \in js.bounds /\ m[2] \in js.bounds /\ m[1] <= m[2]
          /\ r.from = ByteOf(js, m[1]) /\ r.to = ByteOf(js, m[2]) /\ r.last = ByteOf(js, m[2])
          /\ r = ResultOf(js, re, m)
          /\ StartUnit(js, PastEmpty(r)) = Behind(js, re, u)
      BY <2>1, FoundIsNext DEF Behind
    <2>3. ByteOf(js, m[1]) = ByteOf(js, m[2]) <=> m[1] = m[2]
      <3> HIDE DEF m
      <3> QED
        BY <1>1, <2>2, GoesOn
    <2>4. CASE m[1] = m[2]
      <3>1. StartUnit(js, r.last) = m[2]
        <4> HIDE DEF m
        <4> QED
          BY <1>1, <2>2, StartOfByte
      <3>2. m \in Hits(js, re, StartUnit(js, r.last))
        <4>1. m \in Reference!NextMatches(js, re, u)
          BY <2>1 DEF Hits
        <4>2. m[1] <= m[1] /\ \A v \in m[1]..(m[1] - 1) : re.ends[v] = NoMatch
          <5>1. m[1] \in Nat
            BY <1>1, <2>2, StringFacts
          <5> QED
            BY <5>1
        <4>3. m \in Reference!NextMatches(js, re, m[1])
          BY <4>1, <4>2 DEF Reference!NextMatches, Reference!IsNext
        <4> QED
          BY <2>4, <3>1, <4>3 DEF Hits
      <3>3. r.last \in Nat
        BY <1>1, <2>2, StringFacts
      <3>4. Exec(re, js, r.last) = ResultOf(js, re, m)
        <4> HIDE DEF m
        <4> QED
          BY <3>2, <3>3, FoundIsNext
      <3>5. Stuck(r.last)
        BY <2>2, <3>4 DEF Stuck
      <3> QED
        BY <2>2, <3>5
    <2>5. CASE m[1] # m[2]
      <3>1. PastEmpty(r) = r.last
        BY <2>2, <2>3, <2>5 DEF PastEmpty
      <3>2. /\ Reference!ScanFrom(js, re, u) = <<m>> \o rest
            /\ rest \in Seq(Spans)
        BY <1>1, <1>2, <1>5, <2>1, ScanEquation
      <3> HIDE DEF u, rest, m
      <3>3. Append(d, m) \in Seq(Spans) /\ Append(d, m) = d \o <<m>>
        <4> HIDE DEF Spans
        <4> QED
          BY <2>1, AppendIsConcat
      <3>4. AllSpans = Append(d, m) \o rest
        <4>1. <<m>> \in Seq(Spans)
          BY <2>1
        <4>2. d \o (<<m>> \o rest) = (d \o <<m>>) \o rest
          BY SMTT(30), <3>2, <4>1, ConcatAssociative
        <4> QED
          BY <1>3, <3>2, <3>3, <4>2
      <3> DEFINE f == ToBytes(d)
                 g == ToBytes(Append(d, m))
                 b == Bytes(m)
                 W == {Bytes(x) : x \in Spans}
      <3>5. g = Append(f, b) /\ f \in Seq(W) /\ b \in W
        <4>1. b \in W
          BY <2>1
        <4> HIDE DEF Spans
        <4> QED
          BY <1>3, <2>1, <4>1, BytesAppend, BytesType
      <3>6. b[1] = r.from /\ b[2] = r.last
        BY <2>2 DEF Bytes
      <3> HIDE DEF W, f, g, b
      <3>7. /\ EndOf(g) = r.last
            /\ GapsBefore(g) = GapsBefore(f) \cup Gap(l, r.from)
            /\ Members(g) = Members(f) \cup {Span(r)}
        <4>1. l = EndOf(f) /\ Span(r) = b
          BY <1>3, <2>2 DEF f, b
        <4> QED
          BY <3>5, <3>6, <4>1, GapsAppend
      <3>8. /\ PiecesOf(more, "replaced") = Members(g)
            /\ PiecesOf(more, "kept") = GapsBefore(g)
        <4>1. /\ PiecesOf(out, "replaced") = Members(f)
              /\ PiecesOf(out, "kept") = GapsBefore(f)
          BY <1>3 DEF f
        <4>2. \A kind : PiecesOf(more, kind) =
                 PiecesOf(out, kind) \cup PiecesOf(Kept(l, r.from), kind) \cup PiecesOf(Replaced(r), kind)
          <5>1. \A kind : PiecesOf(out \cup Kept(l, r.from), kind) =
                            PiecesOf(out, kind) \cup PiecesOf(Kept(l, r.from), kind)
            BY PiecesFacts
          <5> DEFINE o == out \cup Kept(l, r.from)
          <5> HIDE DEF o
          <5>2. \A kind : PiecesOf(o \cup Replaced(r), kind) =
                            PiecesOf(o, kind) \cup PiecesOf(Replaced(r), kind)
            BY PiecesFacts
          <5> QED
            BY <5>1, <5>2 DEF o
        <4> HIDE DEF more
        <4>3. PiecesOf(more, "replaced") = Members(f) \cup {} \cup {Span(r)}
          BY <4>1, <4>2, PiecesFacts
        <4>4. PiecesOf(more, "kept") = GapsBefore(f) \cup Gap(l, r.from) \cup {}
          BY <4>1, <4>2, PiecesFacts
        <4> QED
          BY <3>7, <4>3, <4>4
      <3> HIDE DEF more
      <3>9. Covers(r.last, more)
        BY <2>2, <3>1, <3>3, <3>4, <3>7, <3>8 DEF Covers, rest, g
      <3> QED
        BY <2>2, <3>9 DEF more
    <2> QED
      BY <2>4, <2>5
  <1> QED
    BY <1>4, <1>5

-----------------------------------------------------------------------------
(***************************************************************************)
(* What replace_all and replace put out.  A call that was left alone stands *)
(* at an empty match for good, or has covered the subject up to cur.       *)
(***************************************************************************)
First == IF AllMatches # <<>> THEN <<AllMatches[1]>> ELSE AllMatches

ReplaceRight(local) ==
  /\ local.op = "replace_all" =>
       /\ re.global
       /\ local.alone /\ local.phase \in {"loop", "callback"} =>
            Stuck(local.cur) \/ Covers(local.cur, local.out)
       /\ local.alone /\ local.phase = "done" => Whole(local.out, AllMatches)
  /\ local.op = "replace" =>
       /\ local.phase = "callback" => Whole(local.out \cup Kept(local.cur, js.blen), First)
       /\ local.phase = "done" => Whole(local.out, First)

\* replace_all seeks its next match from where the last one ended.
AtCur(t) == running = t /\ th[t].op = "replace_all" /\ th[t].alone => li = th[t].cur

PInv == Aligned => \A t \in Threads : ReplaceRight(th[t]) /\ AtCur(t)

LEMMA MovesReplace ==
  ASSUME JInv, PInv, NEW t \in Threads, NEW local, Moves(t, local),
         Aligned => /\ ReplaceRight(local)
                    /\ running' = t /\ local.op = "replace_all" /\ local.alone => li' = local.cur
  PROVE  PInv'
  <1>1. /\ th' = [th EXCEPT ![t] = local] /\ th \in [Threads -> Locals]
        /\ js' = js /\ re' = re /\ running' \in {t, NoThread}
    BY DEF JInv, Shape, Moves, Fixed
  <1>2. th'[t] = local /\ \A x \in Threads : x # t => th'[x] = th[x]
    BY <1>1
  <1>3. Aligned' <=> Aligned
    BY <1>1 DEF Aligned
  <1>4. AllMatches' = AllMatches /\ AllSpans' = AllSpans
    BY <1>1 DEF AllMatches, AllSpans, ToBytes
  <1>5. \A x \in Threads : ReplaceRight(th[x])' <=> ReplaceRight(th'[x])
    BY <1>1, <1>4 DEF ReplaceRight, Stuck, Covers, Whole, First, Gaps, ToBytes
  <1>6. \A x \in Threads : x # t => AtCur(x)'
    <2>1. \A x \in Threads : x # t => running' # x
      BY <1>1, NoThreadAssumption
    <2> QED
      BY <2>1 DEF AtCur
  <1>7. Aligned => AtCur(t)'
    BY <1>2 DEF AtCur
  <1>8. Aligned => \A x \in Threads : ReplaceRight(th'[x])
    BY <1>2 DEF PInv
  <1> QED
    BY <1>3, <1>5, <1>6, <1>7, <1>8 DEF PInv

\* Nothing is covered yet, and the whole subject is kept, before the first match.
LEMMA CoversNothing ==
  ASSUME JInv, Aligned
  PROVE  Covers(0, {}) /\ Whole(Kept(0, js.blen), <<>>)
  <1> DEFINE Spans == Reference!Spans(js, re)
             rest == Reference!ScanFrom(js, re, 0)
  <1>1. Good(js, re) /\ JsStringOK(js) /\ AlignedOn(re, js)
    BY DEF JInv, Shape, Good, Aligned
  <1>2. StartUnit(js, 0) = 0
    BY <1>1, StartFacts
  <1>3. rest \in Seq(Spans)
    BY <1>1, ScanEquation
  <1>4. ToBytes(<<>>) = <<>>
    BY DEF ToBytes
  <1>5. <<>> \in Seq(Spans) /\ <<>> \o rest = rest
    <2> HIDE DEF Spans, rest
    <2> QED
      BY <1>3, EmptySeq, ConcatEmptySeq
  <1>6. /\ 0 = EndOf(ToBytes(<<>>))
        /\ PiecesOf({}, "replaced") = Members(ToBytes(<<>>))
        /\ PiecesOf({}, "kept") = GapsBefore(ToBytes(<<>>))
    BY <1>4, GapsAppend, PiecesFacts DEF EndOf, EndAt, Members, GapsBefore
  <1>7. Covers(0, {})
    BY <1>2, <1>5, <1>6 DEF Covers, AllSpans
  <1>8. Whole({} \cup Kept(0, js.blen), ToBytes(<<>>))
    <2> HIDE DEF Spans
    <2> QED
      BY <1>5, <1>6, CoversAll
  <1>9. {} \cup Kept(0, js.blen) = Kept(0, js.blen)
    OBVIOUS
  <1> QED
    BY <1>4, <1>7, <1>8, <1>9

\* The pieces around one match.
LEMMA WholeOnce ==
  ASSUME NEW r, NEW head, head = Kept(0, r.from) \cup Replaced(r)
  PROVE  Whole(head \cup Kept(r.to, js.blen), <<Span(r)>>)
  <1> DEFINE b == Span(r)
             f == <<b>>
             all == head \cup Kept(r.to, js.blen)
  <1>1. b[1] = r.from /\ b[2] = r.to
    BY DEF Span
  <1>2. Len(f) = 1 /\ f[1] = b
    OBVIOUS
  <1> HIDE DEF b, f
  <1>3. EndOf(f) = r.to /\ Members(f) = {b}
    BY <1>1, <1>2 DEF EndOf, EndAt, Members
  <1>4. GapsBefore(f) = Gap(0, r.from)
    <2>1. GapAt(f, 1) = Gap(0, r.from)
      BY <1>1, <1>2 DEF GapAt, EndAt
    <2>2. GapsBefore(f) = GapAt(f, 1)
      BY <1>2 DEF GapsBefore
    <2> QED
      BY <2>1, <2>2
  <1>5. Gaps(f) = Gap(0, r.from) \cup Gap(r.to, js.blen)
    BY <1>2, <1>3, <1>4, GapsAre
  <1>6. \A kind : PiecesOf(all, kind) =
           PiecesOf(Kept(0, r.from), kind) \cup PiecesOf(Replaced(r), kind)
             \cup PiecesOf(Kept(r.to, js.blen), kind)
    <2>1. \A kind : PiecesOf(head, kind) = PiecesOf(Kept(0, r.from), kind) \cup PiecesOf(Replaced(r), kind)
      BY PiecesFacts
    <2>2. \A kind : PiecesOf(all, kind) = PiecesOf(head, kind) \cup PiecesOf(Kept(r.to, js.blen), kind)
      BY PiecesFacts
    <2> QED
      BY <2>1, <2>2
  <1> HIDE DEF all
  <1>7. PiecesOf(all, "replaced") = {} \cup {Span(r)} \cup {}
    BY <1>6, PiecesFacts
  <1>8. PiecesOf(all, "kept") = Gap(0, r.from) \cup {} \cup Gap(r.to, js.blen)
    BY <1>6, PiecesFacts
  <1> QED
    BY <1>3, <1>5, <1>7, <1>8 DEF Whole, all, f, b

LEMMA StartReplaceAllRight ==
  ASSUME JInv, PInv, NEW t \in Threads, StartReplaceAll(t)
  PROVE  PInv'
  <1>1. PICK local \in Locals : Moves(t, local)
    <2>1. \E local : Moves(t, local)
      BY StartsMove
    <2> QED
      BY <2>1 DEF Moves
  <1>2. th \in [Threads -> Locals] /\ th'[t] = local
    BY <1>1 DEF Moves, JInv, Shape
  <1>3. /\ local.op = "replace_all" /\ local.phase = "loop" /\ local.cur = 0 /\ local.out = {}
        /\ li' = 0 /\ re.global
    BY <1>2 DEF StartReplaceAll, Fresh
  <1>4. Aligned => ReplaceRight(local)
    BY <1>3, CoversNothing DEF ReplaceRight
  <1> QED
    BY <1>1, <1>3, <1>4, MovesReplace

LEMMA ReplaceAllStepRight ==
  ASSUME JInv, PInv, NEW t \in Threads, ReplaceAllStep(t)
  PROVE  PInv'
  <1>1. PICK local \in Locals : Moves(t, local)
    <2>1. \E local : Moves(t, local)
      BY StepsMove DEF Step
    <2> QED
      BY <2>1 DEF Moves
  <1>2. /\ th \in [Threads -> Locals] /\ th[t] \in Locals /\ th'[t] = local /\ li \in Nat
        /\ running = t /\ th[t].op = "replace_all" /\ th[t].phase = "loop"
    BY <1>1 DEF Moves, JInv, Shape, Control, ReplaceAllStep
  <1> DEFINE r == Exec(re, js, li)
             s == th[t]
             last == s.out \cup Kept(s.cur, js.blen)
             more == s.out \cup Kept(li, r.from) \cup Replaced(r)
             next == [s EXCEPT !.cur = r.last, !.out = more]
  <1>3. /\ li' = r.last
        /\ \/ ~r.found /\ Ends(t, [s EXCEPT !.out = last, !.phase = "done"])
           \/ ~r.ok /\ Ends(t, [s EXCEPT !.phase = "raised"])
           \/ r.found /\ r.ok /\ (Ends(t, [next EXCEPT !.phase = "callback"]) \/ Continues(t, next))
    BY DEF ReplaceAllStep, Substituted
  <1>4. ASSUME Aligned, s.alone
        PROVE  /\ r.ok /\ li = s.cur
               /\ ~r.found => Whole(last, AllMatches)
               /\ r.found => Stuck(r.last) \/ Covers(r.last, more)
    <2>1. re.global /\ li = s.cur /\ (Stuck(li) \/ Covers(li, s.out))
      BY <1>2, <1>4 DEF PInv, ReplaceRight, AtCur
    <2>2. CASE Stuck(li)
      BY <2>1, <2>2 DEF Stuck
    <2>3. CASE Covers(li, s.out)
      <3>1. Indexed(re)
        BY <2>1 DEF Indexed
      <3> DEFINE o == s.out
      <3> HIDE DEF r, o
      <3>2. Covers(li, o)
        BY <2>3 DEF o
      <3>3. /\ r.ok
            /\ ~r.found => Whole(o \cup Kept(li, js.blen), AllMatches)
            /\ r.found => Stuck(r.last) \/ Covers(r.last, o \cup Kept(li, r.from) \cup Replaced(r))
        BY <1>2, <1>4, <3>1, <3>2, ReplaceGoesOn DEF r
      <3> QED
        BY <2>1, <3>3 DEF o
    <2> QED
      BY <2>1, <2>2, <2>3
  <1>5. Aligned => re.global
    BY <1>2 DEF PInv, ReplaceRight
  <1> HIDE DEF r, last, more
  <1>6. CASE ~r.found /\ Ends(t, [s EXCEPT !.out = last, !.phase = "done"])
    <2>1. /\ local.op = "replace_all" /\ local.phase = "done" /\ local.out = last
          /\ local.alone = s.alone /\ running' # t
      BY <1>2, <1>6, NoThreadAssumption DEF Ends, Locals
    <2>2. Aligned => ReplaceRight(local)
      BY <1>4, <1>5, <1>6, <2>1 DEF ReplaceRight
    <2> QED
      BY <1>1, <2>1, <2>2, MovesReplace
  <1>7. CASE ~r.ok /\ Ends(t, [s EXCEPT !.phase = "raised"])
    <2>1. local.op = "replace_all" /\ local.phase = "raised" /\ running' # t
      BY <1>2, <1>7, NoThreadAssumption DEF Ends, Locals
    <2>2. Aligned => ReplaceRight(local)
      BY <1>5, <2>1 DEF ReplaceRight
    <2> QED
      BY <1>1, <2>1, <2>2, MovesReplace
  <1>8. CASE r.found /\ r.ok /\ (Ends(t, [next EXCEPT !.phase = "callback"]) \/ Continues(t, next))
    <2>1. /\ local.op = "replace_all" /\ local.phase \in {"loop", "callback"}
          /\ local.cur = r.last /\ local.out = more /\ local.alone = s.alone
      <3>1. CASE Ends(t, [next EXCEPT !.phase = "callback"])
        BY <1>2, <3>1 DEF Ends, Locals
      <3>2. CASE Continues(t, next)
        BY <1>2, <3>2 DEF Continues, Locals
      <3> QED
        BY <1>8, <3>1, <3>2
    <2>2. Aligned => ReplaceRight(local)
      BY <1>4, <1>5, <1>8, <2>1 DEF ReplaceRight
    <2> QED
      BY <1>1, <1>3, <2>1, <2>2, MovesReplace
  <1> QED
    BY <1>3, <1>6, <1>7, <1>8

LEMMA StartReplaceRight ==
  ASSUME JInv, PInv, NEW t \in Threads, StartReplace(t)
  PROVE  PInv'
  <1>1. PICK local \in Locals : Moves(t, local)
    <2>1. \E local : Moves(t, local)
      BY OnceMove
    <2> QED
      BY <2>1 DEF Moves
  <1>2. th \in [Threads -> Locals] /\ th'[t] = local /\ running' # t
    <2>1. running' = NoThread
      BY DEF StartReplace, Ends
    <2> QED
      BY <1>1, <2>1, NoThreadAssumption DEF Moves, JInv, Shape
  <1> DEFINE r == Exec(re, js, 0)
             head == Kept(0, r.from) \cup Replaced(r)
             whole == head \cup Kept(r.to, js.blen)
             none == Kept(0, js.blen)
  <1>3. PICK callback \in BOOLEAN :
          LET s == [Fresh("replace") EXCEPT !.callback = callback, !.cur = r.to]
          IN  \/ ~r.found /\ Ends(t, [s EXCEPT !.out = none, !.phase = "done"])
              \/ ~r.ok /\ Ends(t, [s EXCEPT !.phase = "raised"])
              \/ /\ r.found /\ r.ok
                 /\ \/ Ends(t, [s EXCEPT !.out = head, !.phase = "callback"])
                    \/ Ends(t, [s EXCEPT !.out = whole, !.phase = "done"])
    BY DEF StartReplace
  <1>4. ASSUME Aligned
        PROVE  /\ r.ok
               /\ ~r.found => Whole(none, First)
               /\ r.found => Whole(whole, First) /\ Whole(head \cup Kept(r.to, js.blen), First)
    <2> HIDE DEF r
    <2>1. /\ r.ok
          /\ ~r.found => First = <<>>
          /\ r.found => First = <<Span(r)>>
      BY <1>4, FirstFound DEF r, First
    <2>2. Whole(none, <<>>)
      BY <1>4, CoversNothing
    <2>3. Whole(head \cup Kept(r.to, js.blen), <<Span(r)>>)
      <3> HIDE DEF head
      <3> QED
        BY WholeOnce DEF head
    <2> QED
      BY <2>1, <2>2, <2>3
  <1> HIDE DEF r, head, whole, none
  <1>5. local.op = "replace" /\ local.cur = r.to
        /\ \/ ~r.found /\ local.phase = "done" /\ local.out = none
           \/ ~r.ok /\ local.phase = "raised"
           \/ r.found /\ r.ok /\ local.phase = "callback" /\ local.out = head
           \/ r.found /\ r.ok /\ local.phase = "done" /\ local.out = whole
    <2> DEFINE s == [Fresh("replace") EXCEPT !.callback = callback, !.cur = r.to]
    <2>1. CASE ~r.found /\ Ends(t, [s EXCEPT !.out = none, !.phase = "done"])
      BY <1>2, <2>1 DEF Ends, Fresh
    <2>2. CASE ~r.ok /\ Ends(t, [s EXCEPT !.phase = "raised"])
      BY <1>2, <2>2 DEF Ends, Fresh
    <2>3. CASE r.found /\ r.ok /\ Ends(t, [s EXCEPT !.out = head, !.phase = "callback"])
      BY <1>2, <2>3 DEF Ends, Fresh
    <2>4. CASE r.found /\ r.ok /\ Ends(t, [s EXCEPT !.out = whole, !.phase = "done"])
      BY <1>2, <2>4 DEF Ends, Fresh
    <2> QED
      BY <1>3, <2>1, <2>2, <2>3, <2>4
  <1>6. Aligned => ReplaceRight(local)
    BY <1>4, <1>5 DEF ReplaceRight
  <1> QED
    BY <1>1, <1>2, <1>6, MovesReplace

LEMMA CallbackReturnsRight ==
  ASSUME JInv, PInv, NEW t \in Threads, CallbackReturns(t)
  PROVE  PInv'
  <1>1. PICK local \in Locals : Moves(t, local)
    <2>1. \E local : Moves(t, local)
      BY OthersMove
    <2> QED
      BY <2>1 DEF Moves
  <1> DEFINE s == th[t]
             last == s.out \cup Kept(s.cur, js.blen)
             same == s.alone /\ li = s.cur
  <1>2. /\ th \in [Threads -> Locals] /\ s \in Locals /\ th'[t] = local
        /\ s.phase = "callback" /\ s.op \in Replaces /\ li' = li
    BY <1>1 DEF Moves, JInv, Shape, Control, CallbackReturns
  <1>3. \/ s.op = "replace_all" /\ th' = [th EXCEPT ![t] = [s EXCEPT !.phase = "loop", !.alone = same]]
        \/ s.op # "replace_all" /\ Ends(t, [s EXCEPT !.out = last, !.phase = "done"])
    BY DEF CallbackReturns
  <1>4. Aligned => ReplaceRight(s)
    BY DEF PInv
  <1> HIDE DEF last, same
  <1>5. CASE s.op = "replace_all" /\ th' = [th EXCEPT ![t] = [s EXCEPT !.phase = "loop", !.alone = same]]
    <2>1. /\ local.op = "replace_all" /\ local.phase = "loop" /\ local.out = s.out
          /\ local.cur = s.cur /\ local.alone = same
      BY <1>2, <1>5 DEF Locals
    <2>2. same => s.alone /\ li = s.cur
      BY DEF same
    <2>3. Aligned => ReplaceRight(local)
      BY <1>2, <1>4, <1>5, <2>1, <2>2 DEF ReplaceRight
    <2> QED
      BY <1>1, <1>2, <2>1, <2>2, <2>3, MovesReplace
  <1>6. CASE s.op # "replace_all" /\ Ends(t, [s EXCEPT !.out = last, !.phase = "done"])
    <2>1. /\ local.op = "replace" /\ local.phase = "done" /\ local.out = last
      BY <1>2, <1>6 DEF Ends, Locals, Replaces
    <2>2. s.op = "replace"
      BY <1>2, <1>6 DEF Replaces
    <2>3. Aligned => ReplaceRight(local)
      BY <1>2, <1>4, <2>1, <2>2 DEF ReplaceRight, last
    <2> QED
      BY <1>1, <2>1, <2>3, MovesReplace
  <1> QED
    BY <1>3, <1>5, <1>6

\* The steps of the other methods, and an error.
LEMMA OtherReplaceRight ==
  ASSUME JInv, PInv, NEW t \in Threads, NEW local, Moves(t, local),
         \/ th'[t].op \notin Replaces
         \/ th'[t].phase = "raised" /\ th'[t].op = th[t].op
  PROVE  PInv'
  <1>1. th'[t] = local
    BY DEF Moves, JInv, Shape
  <1>2. running' = t => local.phase = "loop"
    BY DEF Moves
  <1>3. Aligned => ReplaceRight(local) /\ ~(running' = t /\ local.op = "replace_all")
    BY <1>1, <1>2 DEF ReplaceRight, PInv, Replaces
  <1> QED
    BY <1>3, MovesReplace

LEMMA UserReplaceRight == ASSUME JInv, PInv, UserStep PROVE PInv'
  <1>1. js' = js /\ re' = re /\ th' = th /\ running' = NoThread
    BY DEF UserStep, Fixed
  <1>2. AllMatches' = AllMatches /\ AllSpans' = AllSpans /\ (Aligned' <=> Aligned)
    BY <1>1 DEF AllMatches, AllSpans, ToBytes, Aligned
  <1>3. \A t \in Threads : ReplaceRight(th[t])' <=> ReplaceRight(th[t])
    BY <1>1, <1>2 DEF ReplaceRight, Stuck, Covers, Whole, First, Gaps, ToBytes
  <1>4. \A t \in Threads : AtCur(t)'
    BY <1>1, NoThreadAssumption DEF AtCur
  <1> QED
    BY <1>2, <1>3, <1>4 DEF PInv

LEMMA NextPInv == ASSUME JInv, PInv, [Next]_vars PROVE PInv'
  <1>1. CASE UNCHANGED vars
    <2>1. js' = js /\ re' = re /\ li' = li /\ th' = th /\ running' = running
      BY <1>1 DEF vars
    <2>2. AllMatches' = AllMatches /\ AllSpans' = AllSpans /\ (Aligned' <=> Aligned)
      BY <2>1 DEF AllMatches, AllSpans, ToBytes, Aligned
    <2>3. \A t \in Threads : ReplaceRight(th[t])' <=> ReplaceRight(th[t])
      BY <2>1, <2>2 DEF ReplaceRight, Stuck, Covers, Whole, First, Gaps, ToBytes
    <2> QED
      BY <2>1, <2>2, <2>3 DEF PInv, AtCur
  <1>2. CASE SetLastIndex \/ ExecCall
    BY <1>2, UserMoves, UserReplaceRight
  <1>3. ASSUME NEW t \in Threads,
               \/ StartMatch(t) \/ StartMatchAll(t) \/ Search(t) \/ SearchRaises(t)
               \/ StartSplit(t) \/ StartReplaceAll(t) \/ StartReplace(t)
               \/ Step(t) \/ CallClosure(t) \/ CallbackReturns(t) \/ Raises(t)
        PROVE  PInv'
    <2>1. CASE StartReplaceAll(t)
      BY <2>1, StartReplaceAllRight
    <2>2. CASE ReplaceAllStep(t)
      BY <2>2, ReplaceAllStepRight
    <2>3. CASE StartReplace(t)
      BY <2>3, StartReplaceRight
    <2>4. CASE CallbackReturns(t)
      BY <2>4, CallbackReturnsRight
    <2>5. CASE MatchStep(t) \/ ListStep(t) \/ SplitStep(t)
      <3>1. \E local : Moves(t, local)
        BY <2>5, StepsMove DEF Step
      <3> QED
        BY <2>5, <3>1, Names, OtherReplaceRight DEF Named, Replaces
    <2>6. CASE \/ StartMatch(t) \/ StartMatchAll(t) \/ Search(t) \/ SearchRaises(t)
               \/ StartSplit(t) \/ CallClosure(t) \/ Raises(t)
      <3>1. \E local : Moves(t, local)
        BY <2>6, StartsMove, OnceMove, OthersMove
      <3> QED
        BY <2>6, <3>1, Names, OtherReplaceRight DEF Named, Replaces
    <2> QED
      BY <1>3, <2>1, <2>2, <2>3, <2>4, <2>5, <2>6 DEF Step
  <1> QED
    BY <1>1, <1>2, <1>3 DEF Next

LEMMA InitPInv == Init => PInv
  <1>1. SUFFICES ASSUME Init PROVE PInv
    OBVIOUS
  <1>2. \A t \in Threads : th[t].op = "none"
    BY <1>1 DEF Init, Fresh
  <1> QED
    BY <1>2 DEF PInv, ReplaceRight, AtCur

\* If its replacement function leaves last_index as it finds it, replace_all
\* replaces the matches of the whole subject and keeps what lies between them;
\* replace does so with the first one.  (jsregexp.lua:197-253)
THEOREM ReplaceIsWhole == Spec => []ReplacesAll
  <1>1. PInv => ReplacesAll
    <2>1. ASSUME PInv, Aligned, NEW t \in Threads, th[t].alone, Finished(t, "replace_all")
          PROVE  Whole(th[t].out, AllMatches)
      BY <2>1 DEF PInv, ReplaceRight, Finished
    <2>2. ASSUME PInv, Aligned, NEW t \in Threads, Finished(t, "replace")
          PROVE  Whole(th[t].out, First)
      BY <2>2 DEF PInv, ReplaceRight, Finished
    <2>3. "replace" # "replace_all"
      OBVIOUS
    <2> QED
      BY SMTT(30), <2>1, <2>2, <2>3 DEF ReplacesAll, Whole, First, Members, Finished
  <1> QED
    BY <1>1, InitJInv, NextJInv, InitPInv, NextPInv, PTL DEF Spec

--------------------------------------------------------------------------------
(***************************************************************************)
(* The pieces whatever the replacement function does with the RegExp       *)
(* object: each is right by itself, since it is taken between the          *)
(* last_index of the search and the match this search found.               *)
(***************************************************************************)
ByteMatches == {Bytes(m) : m \in Reference!Spans(js, re)}

\* The text from one byte to another can be kept in front of a match.
KeptRight(from, to) == \A m \in ByteMatches : m[1] < from \/ to <= m[1]

PiecesRight(out) ==
  /\ PiecesOf(out, "replaced") \subseteq ByteMatches
  /\ \A kept \in PiecesOf(out, "kept") :
       \/ kept[2] = js.blen
       \/ /\ \E m \in PiecesOf(out, "replaced") : m[1] = kept[2]
          /\ KeptRight(kept[1], kept[2])

EachRight(local) ==
  /\ local.op = "replace_all" => re.global
  /\ local.op \in Replaces => PiecesRight(local.out)

OInv == Aligned => \A t \in Threads : EachRight(th[t])

\* Pieces that are right by themselves are so together.
LEMMA PiecesJoin ==
  ASSUME NEW o, NEW p, PiecesRight(o), PiecesRight(p)
  PROVE  PiecesRight(o \cup p)
  <1>1. \A kind : PiecesOf(o \cup p, kind) = PiecesOf(o, kind) \cup PiecesOf(p, kind)
    BY PiecesFacts
  <1> DEFINE oR == PiecesOf(o, "replaced")
             oK == PiecesOf(o, "kept")
             pR == PiecesOf(p, "replaced")
             pK == PiecesOf(p, "kept")
  <1>2. /\ PiecesOf(o \cup p, "replaced") = oR \cup pR
        /\ PiecesOf(o \cup p, "kept") = oK \cup pK
    BY <1>1
  <1>3. /\ oR \subseteq ByteMatches /\ pR \subseteq ByteMatches
        /\ \A kept \in oK : kept[2] = js.blen \/ ((\E m \in oR : m[1] = kept[2]) /\ KeptRight(kept[1], kept[2]))
        /\ \A kept \in pK : kept[2] = js.blen \/ ((\E m \in pR : m[1] = kept[2]) /\ KeptRight(kept[1], kept[2]))
    BY DEF PiecesRight
  <1> HIDE DEF oR, oK, pR, pK
  <1> QED
    BY <1>2, <1>3 DEF PiecesRight

LEMMA NoPieces == PiecesRight({})
  BY PiecesFacts DEF PiecesRight

\* What is kept behind the last match.
LEMMA TailRight ==
  ASSUME NEW from
  PROVE  PiecesRight(Kept(from, js.blen))
  <1>1. /\ PiecesOf(Kept(from, js.blen), "kept") = Gap(from, js.blen)
        /\ PiecesOf(Kept(from, js.blen), "replaced") = {}
    BY PiecesFacts
  <1>2. \A kept \in Gap(from, js.blen) : kept[2] = js.blen
    BY DEF Gap
  <1> QED
    BY <1>1, <1>2 DEF PiecesRight

\* The text in front of a match is kept from where its search began: no other match
\* begins there.
LEMMA HeadRight ==
  ASSUME JInv, Aligned, NEW l \in Nat, Indexed(re) \/ l = 0,
         NEW r, r = Exec(re, js, l), r.found
  PROVE  PiecesRight(Kept(l, r.from) \cup Replaced(r))
  <1> DEFINE u == StartUnit(js, l)
             Spans == Reference!Spans(js, re)
  <1>1. Good(js, re) /\ JsStringOK(js) /\ AlignedOn(re, js)
    BY DEF JInv, Shape, Aligned, Good
  <1>2. /\ js.len \in Nat /\ js.bounds \subseteq 0..js.len
        /\ \A x \in js.bounds : ByteOf(js, x) \in 0..js.blen
        /\ \A x, y \in js.bounds : x < y => ByteOf(js, x) < ByteOf(js, y)
    BY <1>1, StringFacts
  <1>3. u \in Nat /\ Begins(js, re, l) = l
    <2>1. TranslateLastIndex(js, l) \in Nat
      BY <1>1, StartFacts
    <2> QED
      BY <1>2, <2>1 DEF StartUnit, Begins
  <1>4. /\ Hits(js, re, u) = {} => r = NoResult
        /\ \A m \in Hits(js, re, u) : r = ResultOf(js, re, m)
    BY <1>1, <1>3, ExecIsNext DEF Hits
  <1>5. PICK m \in Hits(js, re, u) : r = ResultOf(js, re, m)
    BY <1>4 DEF NoResult
  <1>6. /\ m \in Reference!NextMatches(js, re, u)
        /\ m \in Spans /\ \A v \in u..(m[1] - 1) : re.ends[v] = NoMatch
    BY <1>5 DEF Hits, Reference!NextMatches, Reference!IsNext
  <1>7. m[1] \in js.bounds /\ r.from = ByteOf(js, m[1]) /\ Span(r) = Bytes(m)
    <2>1. m[1] \in js.bounds
      BY <1>1, <1>3, <1>6, NextMatchFacts
    <2> QED
      BY <1>5, <2>1 DEF ResultOf, Span, Bytes
  <1>8. ASSUME NEW x \in Spans
        PROVE  ByteOf(js, x[1]) < l \/ r.from <= ByteOf(js, x[1])
    <2>1. x[1] \in js.bounds /\ re.ends[x[1]] # NoMatch
      BY <1>1 DEF Reference!Spans, AlignedOn
    <2>2. x[1] \in Nat /\ m[1] \in Nat
      BY <1>2, <1>7, <2>1
    <2>3. CASE x[1] < u
      BY <1>1, <2>1, <2>3, BeforeStart
    <2>4. CASE u <= x[1] /\ x[1] < m[1]
      BY <1>3, <1>6, <2>1, <2>2, <2>4
    <2>5. CASE m[1] <= x[1]
      <3>1. ByteOf(js, m[1]) \in Nat /\ ByteOf(js, x[1]) \in Nat
        BY <1>2, <1>7, <2>1
      <3>2. m[1] = x[1] \/ ByteOf(js, m[1]) < ByteOf(js, x[1])
        BY <1>2, <1>7, <2>1, <2>2, <2>5
      <3> QED
        BY <1>7, <3>1, <3>2
    <2> QED
      BY <1>3, <2>2, <2>3, <2>4, <2>5
  <1>9. KeptRight(l, r.from)
    <2>1. \A x \in Spans : Bytes(x)[1] < l \/ r.from <= Bytes(x)[1]
      BY <1>8 DEF Bytes
    <2> HIDE DEF Spans
    <2> QED
      BY <2>1 DEF KeptRight, ByteMatches, Spans
  <1>10. Span(r) \in ByteMatches
    BY <1>6, <1>7 DEF ByteMatches
  <1> DEFINE all == Kept(l, r.from) \cup Replaced(r)
  <1>11. /\ PiecesOf(all, "kept") = Gap(l, r.from)
         /\ PiecesOf(all, "replaced") = {Span(r)}
    <2>1. \A kind : PiecesOf(all, kind) = PiecesOf(Kept(l, r.from), kind) \cup PiecesOf(Replaced(r), kind)
      BY PiecesFacts
    <2> HIDE DEF all
    <2>2. /\ PiecesOf(Kept(l, r.from), "kept") = Gap(l, r.from)
          /\ PiecesOf(Kept(l, r.from), "replaced") = {}
          /\ PiecesOf(Replaced(r), "replaced") = {Span(r)}
          /\ PiecesOf(Replaced(r), "kept") = {}
      BY PiecesFacts
    <2>3. /\ PiecesOf(all, "kept") = Gap(l, r.from) \cup {}
          /\ PiecesOf(all, "replaced") = {} \cup {Span(r)}
      BY <2>1, <2>2
    <2> QED
      BY <2>3
  <1>12. \A kept \in Gap(l, r.from) : kept[1] = l /\ kept[2] = r.from
    BY DEF Gap
  <1>13. Span(r)[1] = r.from
    BY DEF Span
  <1> HIDE DEF all
  <1> QED
    BY <1>9, <1>10, <1>11, <1>12, <1>13 DEF PiecesRight, all

LEMMA MovesPieces ==
  ASSUME JInv, OInv, NEW t \in Threads, NEW local, Moves(t, local),
         Aligned => EachRight(local)
  PROVE  OInv'
  <1>1. /\ th' = [th EXCEPT ![t] = local] /\ th \in [Threads -> Locals]
        /\ js' = js /\ re' = re
    BY DEF JInv, Shape, Moves, Fixed
  <1>2. th'[t] = local /\ \A x \in Threads : x # t => th'[x] = th[x]
    BY <1>1
  <1>3. Aligned' <=> Aligned
    BY <1>1 DEF Aligned
  <1>4. \A x \in Threads : EachRight(th[x])' <=> EachRight(th'[x])
    BY <1>1 DEF EachRight, PiecesRight, KeptRight, ByteMatches, Bytes
  <1>5. Aligned => \A x \in Threads : EachRight(th'[x])
    BY <1>2 DEF OInv
  <1> QED
    BY <1>3, <1>4, <1>5 DEF OInv

LEMMA ReplaceAllStepPieces ==
  ASSUME JInv, OInv, NEW t \in Threads, ReplaceAllStep(t)
  PROVE  OInv'
  <1>1. PICK local \in Locals : Moves(t, local)
    <2>1. \E local : Moves(t, local)
      BY StepsMove DEF Step
    <2> QED
      BY <2>1 DEF Moves
  <1>2. /\ th \in [Threads -> Locals] /\ th[t] \in Locals /\ th'[t] = local /\ li \in Nat
        /\ th[t].op = "replace_all"
    BY <1>1 DEF Moves, JInv, Shape, ReplaceAllStep
  <1> DEFINE r == Exec(re, js, li)
             s == th[t]
             last == s.out \cup Kept(s.cur, js.blen)
             more == s.out \cup Kept(li, r.from) \cup Replaced(r)
             next == [s EXCEPT !.cur = r.last, !.out = more]
  <1>3. \/ ~r.found /\ Ends(t, [s EXCEPT !.out = last, !.phase = "done"])
        \/ ~r.ok /\ Ends(t, [s EXCEPT !.phase = "raised"])
        \/ r.found /\ r.ok /\ (Ends(t, [next EXCEPT !.phase = "callback"]) \/ Continues(t, next))
    BY DEF ReplaceAllStep, Substituted
  <1>4. ASSUME Aligned
        PROVE  /\ re.global /\ PiecesRight(s.out) /\ PiecesRight(last)
               /\ r.found => PiecesRight(more)
    <2>1. re.global /\ PiecesRight(s.out)
      BY <1>2, <1>4 DEF OInv, EachRight, Replaces
    <2>2. PiecesRight(last)
      BY <2>1, TailRight, PiecesJoin
    <2>3. ASSUME r.found PROVE PiecesRight(more)
      <3>1. Indexed(re)
        BY <2>1 DEF Indexed
      <3> DEFINE o == s.out
                 head == Kept(li, r.from) \cup Replaced(r)
      <3>2. PiecesRight(head)
        BY <1>2, <1>4, <2>3, <3>1, HeadRight
      <3>3. PiecesRight(o \cup head)
        <4> HIDE DEF o, head
        <4> QED
          BY <2>1, <3>2, PiecesJoin DEF o
      <3>4. o \cup head = more
        OBVIOUS
      <3> QED
        BY <3>3, <3>4
    <2> QED
      BY <2>1, <2>2, <2>3
  <1> HIDE DEF r, last, more
  <1>5. /\ local.op = "replace_all"
        /\ local.out = s.out \/ local.out = last \/ (r.found /\ local.out = more)
    <2>1. CASE ~r.found /\ Ends(t, [s EXCEPT !.out = last, !.phase = "done"])
      BY <1>2, <2>1 DEF Ends, Locals
    <2>2. CASE ~r.ok /\ Ends(t, [s EXCEPT !.phase = "raised"])
      BY <1>2, <2>2 DEF Ends, Locals
    <2>3. CASE r.found /\ Ends(t, [next EXCEPT !.phase = "callback"])
      BY <1>2, <2>3 DEF Ends, Locals
    <2>4. CASE r.found /\ Continues(t, next)
      BY <1>2, <2>4 DEF Continues, Locals
    <2> QED
      BY <1>3, <2>1, <2>2, <2>3, <2>4
  <1>6. Aligned => EachRight(local)
    BY <1>4, <1>5 DEF EachRight
  <1> QED
    BY <1>1, <1>6, MovesPieces

LEMMA StartReplacePieces ==
  ASSUME JInv, OInv, NEW t \in Threads, StartReplace(t)
  PROVE  OInv'
  <1>1. PICK local \in Locals : Moves(t, local)
    <2>1. \E local : Moves(t, local)
      BY OnceMove
    <2> QED
      BY <2>1 DEF Moves
  <1>2. th \in [Threads -> Locals] /\ th'[t] = local
    BY <1>1 DEF Moves, JInv, Shape
  <1> DEFINE r == Exec(re, js, 0)
             head == Kept(0, r.from) \cup Replaced(r)
             whole == head \cup Kept(r.to, js.blen)
             none == Kept(0, js.blen)
  <1>3. PICK callback \in BOOLEAN :
          LET s == [Fresh("replace") EXCEPT !.callback = callback, !.cur = r.to]
          IN  \/ ~r.found /\ Ends(t, [s EXCEPT !.out = none, !.phase = "done"])
              \/ ~r.ok /\ Ends(t, [s EXCEPT !.phase = "raised"])
              \/ /\ r.found /\ r.ok
                 /\ \/ Ends(t, [s EXCEPT !.out = head, !.phase = "callback"])
                    \/ Ends(t, [s EXCEPT !.out = whole, !.phase = "done"])
    BY DEF StartReplace
  <1>4. ASSUME Aligned
        PROVE  PiecesRight(none) /\ (r.found => PiecesRight(head) /\ PiecesRight(whole))
    <2>1. PiecesRight(none) /\ PiecesRight(Kept(r.to, js.blen))
      BY TailRight
    <2>2. ASSUME r.found PROVE PiecesRight(head)
      BY <1>4, <2>2, HeadRight
    <2>3. ASSUME r.found PROVE PiecesRight(whole)
      <3>1. PiecesRight(head)
        BY <2>2, <2>3
      <3> HIDE DEF head
      <3> QED
        BY <2>1, <3>1, PiecesJoin
    <2> QED
      BY <2>1, <2>2, <2>3
  <1> HIDE DEF r, head, whole, none
  <1>5. /\ local.op = "replace"
        /\ local.out \in {none, {}} \/ (r.found /\ local.out \in {head, whole})
    <2> DEFINE s == [Fresh("replace") EXCEPT !.callback = callback, !.cur = r.to]
    <2>1. CASE ~r.found /\ Ends(t, [s EXCEPT !.out = none, !.phase = "done"])
      BY <1>2, <2>1 DEF Ends, Fresh
    <2>2. CASE ~r.ok /\ Ends(t, [s EXCEPT !.phase = "raised"])
      BY <1>2, <2>2 DEF Ends, Fresh
    <2>3. CASE r.found /\ Ends(t, [s EXCEPT !.out = head, !.phase = "callback"])
      BY <1>2, <2>3 DEF Ends, Fresh
    <2>4. CASE r.found /\ Ends(t, [s EXCEPT !.out = whole, !.phase = "done"])
      BY <1>2, <2>4 DEF Ends, Fresh
    <2> QED
      BY <1>3, <2>1, <2>2, <2>3, <2>4
  <1>6. Aligned => EachRight(local)
    <2>1. Aligned => PiecesRight(local.out)
      BY <1>4, <1>5, NoPieces
    <2> QED
      BY <1>5, <2>1 DEF EachRight
  <1> QED
    BY <1>1, <1>6, MovesPieces

LEMMA CallbackReturnsPieces ==
  ASSUME JInv, OInv, NEW t \in Threads, CallbackReturns(t)
  PROVE  OInv'
  <1>1. PICK local \in Locals : Moves(t, local)
    <2>1. \E local : Moves(t, local)
      BY OthersMove
    <2> QED
      BY <2>1 DEF Moves
  <1> DEFINE s == th[t]
             last == s.out \cup Kept(s.cur, js.blen)
             same == s.alone /\ li = s.cur
  <1>2. /\ th \in [Threads -> Locals] /\ s \in Locals /\ th'[t] = local
        /\ s.op \in Replaces
    BY <1>1 DEF Moves, JInv, Shape, Control, CallbackReturns
  <1>3. \/ th' = [th EXCEPT ![t] = [s EXCEPT !.phase = "loop", !.alone = same]]
        \/ Ends(t, [s EXCEPT !.out = last, !.phase = "done"])
    BY DEF CallbackReturns
  <1> HIDE DEF last, same
  <1>4. local.op = s.op /\ local.out \in {s.out, last}
    <2>1. CASE th' = [th EXCEPT ![t] = [s EXCEPT !.phase = "loop", !.alone = same]]
      BY <1>2, <2>1 DEF Locals
    <2>2. CASE Ends(t, [s EXCEPT !.out = last, !.phase = "done"])
      BY <1>2, <2>2 DEF Ends, Locals
    <2> QED
      BY <1>3, <2>1, <2>2
  <1>5. Aligned => EachRight(s)
    BY DEF OInv
  <1>6. PiecesRight(s.out) => PiecesRight(last)
    BY TailRight, PiecesJoin DEF last
  <1>7. Aligned => EachRight(local)
    BY <1>2, <1>4, <1>5, <1>6 DEF EachRight
  <1> QED
    BY <1>1, <1>7, MovesPieces

LEMMA NextOInv == ASSUME JInv, OInv, [Next]_vars PROVE OInv'
  <1>1. ASSUME js' = js, re' = re, th' = th PROVE OInv'
    <2>1. \A t \in Threads : EachRight(th[t])' <=> EachRight(th[t])
      BY <1>1 DEF EachRight, PiecesRight, KeptRight, ByteMatches, Bytes
    <2>2. Aligned' <=> Aligned
      BY <1>1 DEF Aligned
    <2> QED
      BY <2>1, <2>2 DEF OInv
  <1>2. CASE UNCHANGED vars
    BY <1>1, <1>2 DEF vars
  <1>3. CASE SetLastIndex \/ ExecCall
    BY <1>1, <1>3 DEF SetLastIndex, ExecCall, Fixed
  <1>4. ASSUME NEW t \in Threads,
               \/ StartMatch(t) \/ StartMatchAll(t) \/ Search(t) \/ SearchRaises(t)
               \/ StartSplit(t) \/ StartReplaceAll(t) \/ StartReplace(t)
               \/ Step(t) \/ CallClosure(t) \/ CallbackReturns(t) \/ Raises(t)
        PROVE  OInv'
    <2>1. PICK local \in Locals : Moves(t, local)
      <3>1. \E local : Moves(t, local)
        BY <1>4, StartsMove, OnceMove, StepsMove, OthersMove
      <3> QED
        BY <3>1 DEF Moves
    <2>2. th \in [Threads -> Locals] /\ th[t] \in Locals /\ th'[t] = local
      BY <2>1 DEF Moves, JInv, Shape
    <2>3. CASE ReplaceAllStep(t)
      BY <2>3, ReplaceAllStepPieces
    <2>4. CASE StartReplace(t)
      BY <2>4, StartReplacePieces
    <2>5. CASE CallbackReturns(t)
      BY <2>5, CallbackReturnsPieces
    <2>6. CASE StartReplaceAll(t)
      <3>1. local.op = "replace_all" /\ local.out = {} /\ re.global
        BY <2>2, <2>6 DEF StartReplaceAll, Fresh
      <3>2. EachRight(local)
        BY <3>1, NoPieces DEF EachRight
      <3> QED
        BY <2>1, <3>2, MovesPieces
    <2>7. CASE Raises(t)
      <3>1. local.op = th[t].op /\ local.out = th[t].out
        BY <2>2, <2>7 DEF Raises, Ends, Locals
      <3>2. Aligned => EachRight(local)
        BY <3>1 DEF OInv, EachRight
      <3> QED
        BY <2>1, <3>2, MovesPieces
    <2>8. CASE \/ StartMatch(t) \/ StartMatchAll(t) \/ Search(t) \/ SearchRaises(t)
               \/ StartSplit(t) \/ CallClosure(t)
               \/ MatchStep(t) \/ ListStep(t) \/ SplitStep(t)
      <3>1. local.op \notin Replaces
        BY <2>2, <2>8, Names DEF Named, Replaces
      <3>2. EachRight(local)
        BY <3>1 DEF EachRight, Replaces
      <3> QED
        BY <2>1, <3>2, MovesPieces
    <2> QED
      BY <1>4, <2>3, <2>4, <2>5, <2>6, <2>7, <2>8 DEF Step
  <1> QED
    BY <1>2, <1>3, <1>4 DEF Next

LEMMA InitOInv == Init => OInv
  <1>1. SUFFICES ASSUME Init PROVE OInv
    OBVIOUS
  <1>2. \A t \in Threads : th[t].op = "none"
    BY <1>1 DEF Init, Fresh
  <1> QED
    BY <1>2 DEF OInv, EachRight, Replaces

\* Whatever the replacement function does with the RegExp object, replace_all and
\* replace put the replacement for matches only, and keep in front of one no text in
\* which another begins.  (jsregexp.lua:197-253)
THEOREM ReplacementsAreMatches == Spec => []ReplacesOnlyMatches
  <1>1. OInv => ReplacesOnlyMatches
    <2> DEFINE matches == {<<ByteOf(js, m[1]), ByteOf(js, m[2])>> : m \in Reference!Spans(js, re)}
    <2>1. matches = ByteMatches
      BY DEF ByteMatches, Bytes
    <2> HIDE DEF matches
    <2>2. SUFFICES ASSUME OInv, NEW t \in Threads, Aligned, th[t].op \in {"replace", "replace_all"}
                   PROVE  /\ PiecesOf(th[t].out, "replaced") \subseteq matches
                          /\ \A kept \in PiecesOf(th[t].out, "kept") :
                               \/ kept[2] = js.blen
                               \/ /\ \E m \in PiecesOf(th[t].out, "replaced") : m[1] = kept[2]
                                  /\ \A m \in matches : m[1] < kept[1] \/ kept[2] <= m[1]
      BY DEF ReplacesOnlyMatches, matches
    <2>3. PiecesRight(th[t].out)
      BY <2>2 DEF OInv, EachRight, Replaces
    <2> QED
      BY <2>1, <2>3 DEF PiecesRight, KeptRight
  <1> QED
    BY <1>1, InitJInv, NextJInv, InitOInv, NextOInv, PTL DEF Spec

--------------------------------------------------------------------------------
(***************************************************************************)
(* The reference's pieces, and the pieces of split.                        *)
(***************************************************************************)
\* The pieces from p on when the separator is tried at q, f having those of later q.
Cut(S, R, f, p, q) ==
  IF q >= S.len THEN <<<<p, S.len>>>>
  ELSE IF R.ends[q] \in {NoMatch, p} THEN f[<<p, Reference!Advance(S, q)>>]
  ELSE <<<<p, q>>>> \o f[<<R.ends[q], R.ends[q]>>]

Cuts(S, R, n, f) == \A p \in Nat : \A q \in From(n) : f[<<p, q>>] = Cut(S, R, f, p, q)

LEMMA TriedFacts ==
  ASSUME NEW S, NEW R, Good(S, R), NEW q \in Nat, q < S.len
  PROVE  /\ Reference!Advance(S, q) \in Nat /\ Reference!Advance(S, q) \in From(q + 1)
         /\ R.ends[q] # NoMatch => R.ends[q] \in Nat /\ R.ends[q] >= q
         /\ NoMatch \notin Nat
  <1>1. S.len \in Nat /\ S.bounds \subseteq 0..S.len
    BY StringFacts DEF Good
  <1>2. Reference!Advance(S, q) \in S.bounds /\ q < Reference!Advance(S, q)
    BY AdvanceFacts DEF Good
  <1>3. q \in 0..S.len
    BY <1>1
  <1>4. R.ends[q] # NoMatch => R.ends[q] \in 0..S.len /\ q <= R.ends[q]
    BY <1>3 DEF Good, RegExpOK
  <1> HIDE DEF NoMatch
  <1>5. Reference!Advance(S, q) \in Nat /\ Reference!Advance(S, q) \in From(q + 1)
    BY <1>1, <1>2 DEF From
  <1> QED
    BY <1>1, <1>4, <1>5 DEF NoMatch

LEMMA CutsDown ==
  ASSUME NEW S, NEW R, Good(S, R), NEW n \in Nat, n < S.len, NEW f, Cuts(S, R, n + 1, f)
  PROVE  \E g : Cuts(S, R, n, g)
  <1> DEFINE e == R.ends[n]
             a == Reference!Advance(S, n)
             tail == IF e = n THEN f[<<n, a>>] ELSE f[<<e, e>>]
             v(p) == IF e \in {NoMatch, p} THEN f[<<p, a>>] ELSE <<<<p, n>>>> \o tail
             g == [x \in Nat \X From(n) |-> IF x[2] = n THEN v(x[1]) ELSE f[<<x[1], x[2]>>]]
  <1>1. /\ a \in Nat /\ a \in From(n + 1) /\ (e # NoMatch => e \in Nat /\ e >= n)
        /\ n \in From(n) /\ ~(n >= S.len) /\ S.len \in Nat
    <2>1. S.len \in Nat
      BY StringFacts DEF Good
    <2> QED
      BY <2>1, TriedFacts DEF From
  <1>2. /\ \A q \in From(n) : q = n \/ q \in From(n + 1)
        /\ \A q \in From(n + 1) : q \in From(n) /\ q # n /\ q \in Nat
    BY DEF From
  <1>3. \A p \in Nat, q \in From(n) : g[<<p, q>>] = IF q = n THEN v(p) ELSE f[<<p, q>>]
    OBVIOUS
  <1> HIDE DEF v, g
  <1>4. \A p \in Nat, q \in From(n + 1) : g[<<p, q>>] = f[<<p, q>>]
    BY <1>2, <1>3
  <1>5. \A p \in Nat : g[<<p, n>>] = v(p)
    BY <1>1, <1>3
  <1>6. ASSUME NEW p \in Nat
        PROVE  g[<<p, n>>] = Cut(S, R, g, p, n)
    <2>1. CASE e \in {NoMatch, p}
      <3>1. v(p) = f[<<p, a>>]
        BY <2>1 DEF v
      <3>2. g[<<p, a>>] = f[<<p, a>>]
        BY <1>1, <1>4
      <3> QED
        BY <1>1, <1>5, <2>1, <3>1, <3>2 DEF Cut
    <2>2. CASE e \notin {NoMatch, p}
      <3>1. v(p) = <<<<p, n>>>> \o tail
        BY <2>2 DEF v
      <3>2. e \in Nat /\ e >= n
        BY <1>1, <2>2
      <3>3. g[<<e, e>>] = tail
        <4>1. CASE e = n
          <5>1. v(n) = f[<<n, a>>]
            BY <4>1 DEF v
          <5> QED
            BY <1>5, <4>1, <5>1
        <4>2. CASE e # n
          <5>1. e \in From(n + 1)
            BY <3>2, <4>2 DEF From
          <5> QED
            BY <1>4, <3>2, <4>2, <5>1
        <4> QED
          BY <4>1, <4>2
      <3> QED
        BY <1>1, <1>5, <2>2, <3>1, <3>3 DEF Cut
    <2> QED
      BY <2>1, <2>2
  <1>7. ASSUME NEW p \in Nat, NEW q \in From(n + 1)
        PROVE  g[<<p, q>>] = Cut(S, R, g, p, q)
    <2>1. g[<<p, q>>] = Cut(S, R, f, p, q) /\ q \in Nat
      BY <1>2, <1>4 DEF Cuts
    <2>2. CASE q >= S.len
      BY <2>1, <2>2 DEF Cut
    <2>3. CASE q < S.len
      <3>1. /\ Reference!Advance(S, q) \in From(q + 1)
            /\ R.ends[q] # NoMatch => R.ends[q] \in Nat /\ R.ends[q] >= q
        BY <2>1, <2>3, TriedFacts
      <3>2. Reference!Advance(S, q) \in From(n + 1)
            /\ (R.ends[q] # NoMatch => R.ends[q] \in From(n + 1) /\ R.ends[q] \in Nat)
        BY <2>1, <3>1 DEF From
      <3>3. /\ g[<<p, Reference!Advance(S, q)>>] = f[<<p, Reference!Advance(S, q)>>]
            /\ R.ends[q] # NoMatch => g[<<R.ends[q], R.ends[q]>>] = f[<<R.ends[q], R.ends[q]>>]
        BY <1>4, <3>2
      <3> QED
        BY <2>1, <3>3 DEF Cut
    <2> QED
      BY <1>1, <2>1, <2>2, <2>3
  <1>8. Cuts(S, R, n, g)
    BY <1>2, <1>6, <1>7 DEF Cuts
  <1> QED
    BY <1>8

LEMMA CutsExist ==
  ASSUME NEW S, NEW R, Good(S, R)
  PROVE  \E f : Cuts(S, R, 0, f)
  <1> DEFINE D == {n \in Nat : \E f : Cuts(S, R, n, f)}
             L == S.len
  <1>1. L \in Nat
    BY StringFacts DEF Good
  <1>2. \A n \in From(L) : n \in D
    <2> TAKE n \in From(L)
    <2>0. n \in Nat /\ n >= L
      BY DEF From
    <2> DEFINE f == [x \in Nat \X From(n) |-> <<<<x[1], L>>>>]
    <2>1. \A p \in Nat, q \in From(n) : f[<<p, q>>] = <<<<p, L>>>>
      OBVIOUS
    <2>2. \A q \in From(n) : q >= L
      BY <1>1, <2>0 DEF From
    <2> HIDE DEF f
    <2>3. Cuts(S, R, n, f)
      BY <2>1, <2>2 DEF Cuts, Cut
    <2> QED
      BY <2>0, <2>3
  <1>3. ASSUME NEW k \in Nat, k + 1 \in D PROVE k \in D
    <2>1. CASE k >= L
      BY <1>2, <2>1 DEF From
    <2>2. CASE k < L
      <3>1. PICK f : Cuts(S, R, k + 1, f)
        BY <1>3
      <3>2. \E g : Cuts(S, R, k, g)
        BY <2>2, <3>1, CutsDown
      <3> QED
        BY <3>2
    <2> QED
      BY <1>1, <2>1, <2>2
  <1>4. D \in SUBSET Nat /\ L \in D
    <2>1. L \in From(L)
      BY <1>1 DEF From
    <2> QED
      BY <1>2, <2>1
  <1> HIDE DEF D, L
  <1>5. 0 \in D
    BY <1>3, <1>4, Descent
  <1> QED
    BY <1>5 DEF D

LEMMA PiecesEquation ==
  ASSUME NEW S, NEW R, Good(S, R), NEW p \in Nat, NEW q \in Nat
  PROVE  /\ q >= S.len => Reference!PiecesFrom(S, R, p, q) = <<<<p, S.len>>>>
         /\ q < S.len /\ R.ends[q] \in {NoMatch, p} =>
              Reference!PiecesFrom(S, R, p, q) =
                Reference!PiecesFrom(S, R, p, Reference!Advance(S, q))
         /\ q < S.len /\ R.ends[q] \notin {NoMatch, p} =>
              Reference!PiecesFrom(S, R, p, q) =
                <<<<p, q>>>> \o Reference!PiecesFrom(S, R, R.ends[q], R.ends[q])
         /\ Reference!PiecesFrom(S, R, p, q) \in Seq(Nat \X Nat)
  <1> DEFINE pieces == CHOOSE f : f = [at \in Nat \X Nat |-> Cut(S, R, f, at[1], at[2])]
             Q == Seq(Nat \X Nat)
             L == S.len
             D == {n \in Nat : \A x \in Nat : \A y \in From(n) : pieces[<<x, y>>] \in Q}
  <1>0. L \in Nat
    BY StringFacts DEF Good
  <1>1. \A x, y \in Nat : Reference!PiecesFrom(S, R, x, y) = pieces[<<x, y>>]
    BY DEF Reference!PiecesFrom, Cut
  <1>2. From(0) = Nat
    BY DEF From
  <1>3. pieces = [at \in Nat \X Nat |-> Cut(S, R, pieces, at[1], at[2])]
    <2>1. PICK g : Cuts(S, R, 0, g)
      BY CutsExist
    <2> DEFINE f == [at \in Nat \X Nat |-> g[<<at[1], at[2]>>]]
    <2>2. \A x, y \in Nat : f[<<x, y>>] = g[<<x, y>>]
      OBVIOUS
    <2> HIDE DEF f
    <2>3. ASSUME NEW x \in Nat, NEW y \in Nat
          PROVE  g[<<x, y>>] = Cut(S, R, f, x, y)
      <3>1. g[<<x, y>>] = Cut(S, R, g, x, y)
        BY <1>2, <2>1 DEF Cuts
      <3>2. CASE y >= S.len
        BY <3>1, <3>2 DEF Cut
      <3>3. CASE y < S.len
        <4>1. /\ Reference!Advance(S, y) \in Nat
              /\ R.ends[y] # NoMatch => R.ends[y] \in Nat
          BY <3>3, TriedFacts
        <4> QED
          BY <2>2, <3>1, <4>1 DEF Cut
      <3> QED
        BY <1>0, <3>2, <3>3
    <2>4. \A at \in Nat \X Nat : g[<<at[1], at[2]>>] = Cut(S, R, f, at[1], at[2])
      BY <2>3
    <2>5. f = [at \in Nat \X Nat |-> Cut(S, R, f, at[1], at[2])]
      BY <2>4 DEF f
    <2> QED
      BY <2>5
  <1> HIDE DEF pieces
  <1>4. ASSUME NEW x \in Nat, NEW y \in Nat
        PROVE  pieces[<<x, y>>] = Cut(S, R, pieces, x, y)
    <2> DEFINE at == <<x, y>>
    <2>1. at \in Nat \X Nat /\ at[1] = x /\ at[2] = y
      OBVIOUS
    <2> HIDE DEF at
    <2>2. pieces[at] = Cut(S, R, pieces, at[1], at[2])
      BY <1>3, <2>1
    <2> QED
      BY <2>1, <2>2 DEF at
  <1>5. \A x \in Nat : <<<<x, L>>>> \in Q
    BY <1>0
  <1>6. L \in D /\ \A k \in Nat : k >= L => k \in D
    <2>1. ASSUME NEW k \in Nat, k >= L PROVE k \in D
      <3>1. \A y \in From(k) : y \in Nat /\ y >= L
        BY <1>0, <2>1 DEF From
      <3>2. \A x \in Nat : \A y \in From(k) : pieces[<<x, y>>] = <<<<x, L>>>>
        BY <1>4, <3>1 DEF Cut
      <3> QED
        BY <1>5, <2>1, <3>2
    <2> QED
      BY <1>0, <2>1
  <1>7. ASSUME NEW k \in Nat, k + 1 \in D PROVE k \in D
    <2>1. CASE k >= L
      BY <1>6, <2>1
    <2>2. CASE k < L
      <3>1. /\ Reference!Advance(S, k) \in From(k + 1)
            /\ R.ends[k] # NoMatch => R.ends[k] \in Nat /\ R.ends[k] >= k
            /\ ~(k >= S.len)
        BY <1>0, <2>2, TriedFacts
      <3>2. \A x \in Nat : \A y \in From(k + 1) : pieces[<<x, y>>] \in Q
        BY <1>7
      <3>3. \A y \in From(k) : y = k \/ y \in From(k + 1)
        BY DEF From
      <3>4. \A x \in Nat : R.ends[k] \in {NoMatch, x} => pieces[<<x, k>>] \in Q
        BY <1>4, <3>1, <3>2 DEF Cut
      <3>5. R.ends[k] # NoMatch => pieces[<<R.ends[k], R.ends[k]>>] \in Q
        <4>1. CASE R.ends[k] = k
          BY <3>4, <4>1
        <4>2. CASE R.ends[k] # NoMatch /\ R.ends[k] # k
          <5>1. R.ends[k] \in From(k + 1) /\ R.ends[k] \in Nat
            BY <3>1, <4>2 DEF From
          <5> QED
            BY <3>2, <5>1
        <4> QED
          BY <4>1, <4>2
      <3>6. ASSUME NEW x \in Nat, R.ends[k] \notin {NoMatch, x} PROVE pieces[<<x, k>>] \in Q
        <4>1. pieces[<<x, k>>] = <<<<x, k>>>> \o pieces[<<R.ends[k], R.ends[k]>>]
          BY <1>4, <3>1, <3>6 DEF Cut
        <4>2. <<<<x, k>>>> \in Q /\ pieces[<<R.ends[k], R.ends[k]>>] \in Q
          BY <3>5, <3>6
        <4> QED
          BY <4>1, <4>2, ConcatProperties
      <3> QED
        BY <3>2, <3>3, <3>4, <3>6
    <2> QED
      BY <1>0, <2>1, <2>2
  <1>8. D \in SUBSET Nat
    OBVIOUS
  <1>9. pieces[<<p, q>>] \in Q
    <2> HIDE DEF L
    <2>1. 0 \in D
      <3> HIDE DEF D
      <3> QED
        BY <1>6, <1>7, <1>8, Descent
    <2> QED
      BY <1>2, <2>1
  <1> HIDE DEF Q, D
  <1>10. /\ q < S.len => Reference!Advance(S, q) \in Nat /\ ~(q >= S.len)
         /\ q < S.len /\ R.ends[q] # NoMatch => R.ends[q] \in Nat
    BY <1>0, TriedFacts
  <1>11. q >= S.len => pieces[<<p, q>>] = <<<<p, S.len>>>>
    BY <1>4 DEF Cut
  <1>12. q < S.len /\ R.ends[q] \in {NoMatch, p} =>
           pieces[<<p, q>>] = pieces[<<p, Reference!Advance(S, q)>>]
    BY <1>4, <1>10 DEF Cut
  <1>13. q < S.len /\ R.ends[q] \notin {NoMatch, p} =>
           pieces[<<p, q>>] = <<<<p, q>>>> \o pieces[<<R.ends[q], R.ends[q]>>]
    BY <1>4, <1>10 DEF Cut
  <1>14. Reference!PiecesFrom(S, R, p, q) = pieces[<<p, q>>]
    BY <1>1
  <1>15. q < S.len => Reference!PiecesFrom(S, R, p, Reference!Advance(S, q)) =
                        pieces[<<p, Reference!Advance(S, q)>>]
    BY <1>1, <1>10
  <1>16. q < S.len /\ R.ends[q] # NoMatch =>
           Reference!PiecesFrom(S, R, R.ends[q], R.ends[q]) = pieces[<<R.ends[q], R.ends[q]>>]
    BY <1>1, <1>10
  <1> QED
    BY <1>9, <1>11, <1>12, <1>13, <1>14, <1>15, <1>16 DEF Q

\* The unit a byte is translated to, and that of the next byte.
LEMMA UnitAt ==
  ASSUME NEW S, JsStringOK(S), NEW l \in Nat, l <= S.blen
  PROVE  /\ StartUnit(S, l) \in S.bounds
         /\ l <= ByteOf(S, StartUnit(S, l))
         /\ \A w \in S.bounds : ByteOf(S, w) < l \/ StartUnit(S, l) <= w
  <1>1. /\ S.len \in Nat /\ S.blen \in Nat
        /\ S.bounds \subseteq 0..S.len /\ 0 \in S.bounds /\ S.len \in S.bounds
        /\ \A u \in S.bounds : ByteOf(S, u) \in 0..S.blen
        /\ ByteOf(S, 0) = 0 /\ ByteOf(S, S.len) = S.blen
    BY StringFacts
  <1>2. CASE l = 0
    <2>1. StartUnit(S, l) = 0
      BY <1>2, StartFacts
    <2> QED
      BY <1>1, <1>2, <2>1
  <1>3. CASE l # 0
    <2> DEFINE T == {w \in S.bounds : l <= ByteOf(S, w)}
    <2>1. T \in SUBSET Nat /\ T # {}
      <3>1. S.len \in T
        BY <1>1
      <3> QED
        BY <1>1, <3>1
    <2>2. PICK v \in T : \A w \in T : v <= w
      <3> HIDE DEF T
      <3> QED
        BY <2>1, Least
    <2>3. v \in S.bounds /\ l <= ByteOf(S, v) /\ \A w \in S.bounds : ByteOf(S, w) < l \/ v <= w
      <3>1. \A w \in S.bounds : ByteOf(S, w) < l \/ l <= ByteOf(S, w)
        BY <1>1
      <3> QED
        BY <2>2, <3>1
    <2>4. v # 0 /\ l > 0 /\ v <= S.len
      BY <1>1, <1>3, <2>3
    <2>5. TranslateLastIndex(S, l) = v
      BY <2>3, <2>4, TranslatedTo
    <2>6. StartUnit(S, l) = v
      BY <2>4, <2>5, StartFacts
    <2> QED
      BY <2>3, <2>6
  <1> QED
    BY <1>2, <1>3

LEMMA NextByte ==
  ASSUME NEW S, JsStringOK(S), NEW l \in Nat, l <= S.blen
  PROVE  /\ \/ StartUnit(S, l + 1) = StartUnit(S, l)
            \/ StartUnit(S, l + 1) = Reference!Advance(S, StartUnit(S, l))
         /\ l + 1 >= S.blen => StartUnit(S, l + 1) >= S.len
  <1> DEFINE v == StartUnit(S, l)
  <1>1. /\ S.len \in Nat /\ S.blen \in Nat
        /\ S.bounds \subseteq 0..S.len /\ S.len \in S.bounds
        /\ \A u \in S.bounds : ByteOf(S, u) \in 0..S.blen
        /\ ByteOf(S, S.len) = S.blen
    BY StringFacts
  <1>2. v \in S.bounds /\ l <= ByteOf(S, v) /\ \A w \in S.bounds : ByteOf(S, w) < l \/ v <= w
    BY UnitAt
  <1> HIDE DEF v
  <1>3. l + 1 >= S.blen => StartUnit(S, l + 1) >= S.len
    <2>1. CASE l + 1 = S.blen
      BY <1>1, <2>1, StartOfByte
    <2>2. CASE l + 1 > S.blen
      BY <1>1, <2>2, StartFacts
    <2> QED
      BY <1>1, <2>1, <2>2
  <1>4. CASE l = ByteOf(S, v)
    <2>1. StartUnit(S, ByteOf(S, v) + 1) = Reference!AfterMatch(S, <<v, v>>)
      BY <1>1, <1>2, GoesOn
    <2>2. Reference!AfterMatch(S, <<v, v>>) = Reference!Advance(S, v)
      BY DEF Reference!AfterMatch
    <2>3. StartUnit(S, l + 1) = Reference!Advance(S, v)
      BY <1>4, <2>1, <2>2
    <2> QED
      BY <1>3, <2>3 DEF v
  <1>5. CASE l < ByteOf(S, v)
    <2>1. l + 1 <= S.blen /\ l + 1 \in Nat /\ l + 1 <= ByteOf(S, v)
      BY <1>1, <1>2, <1>5
    <2> DEFINE w == StartUnit(S, l + 1)
    <2>2. /\ w \in S.bounds /\ l + 1 <= ByteOf(S, w)
          /\ \A x \in S.bounds : ByteOf(S, x) < l + 1 \/ w <= x
      BY <2>1, UnitAt
    <2> HIDE DEF w
    <2>3. w <= v
      BY <1>1, <1>2, <2>1, <2>2
    <2>4. v <= w
      BY <1>1, <1>2, <2>2
    <2>5. w = v
      BY <1>1, <1>2, <2>2, <2>3, <2>4
    <2> QED
      BY <1>3, <2>5 DEF v, w
  <1>6. ByteOf(S, v) \in Nat
    BY <1>1, <1>2
  <1> QED
    BY <1>2, <1>3, <1>4, <1>5, <1>6 DEF v

\* What the copy of split finds at byte l.
LEMMA StickyFinds ==
  ASSUME JInv, Aligned, NEW l \in Nat, l <= js.blen,
         NEW r, r = Exec([re EXCEPT !.sticky = TRUE], js, l)
  PROVE  LET q == StartUnit(js, l)
         IN /\ r.ok
            /\ q \in js.bounds
            /\ re.ends[q] = NoMatch => ~r.found
            /\ re.ends[q] # NoMatch =>
                 /\ r.found /\ re.ends[q] \in js.bounds /\ q <= re.ends[q]
                 /\ r.from = ByteOf(js, q)
                 /\ r.to = ByteOf(js, re.ends[q]) /\ r.last = ByteOf(js, re.ends[q])
  <1> DEFINE R == [re EXCEPT !.sticky = TRUE]
             q == StartUnit(js, l)
             hits == Reference!NextMatches(js, R, q)
  <1>1. Good(js, re) /\ JsStringOK(js) /\ AlignedOn(re, js)
    BY DEF JInv, Shape, Aligned, Good
  <1>2. /\ R.ends = re.ends /\ R.sticky
        /\ R \in [global : BOOLEAN, sticky : BOOLEAN, unicode : BOOLEAN,
                  ends : [0..js.len -> (0..js.len) \cup {NoMatch}]]
    BY <1>1 DEF Good, RegExpOK
  <1>3. Good(js, R) /\ AlignedOn(R, js) /\ Indexed(R)
    BY <1>1, <1>2 DEF Good, RegExpOK, AlignedOn, Indexed
  <1>4. q \in js.bounds /\ q \in 0..js.len /\ q \in Nat
    BY <1>1, UnitAt, StringFacts
  <1> HIDE DEF R, q
  <1>5. Begins(js, R, l) = l
    BY <1>3 DEF Begins
  <1>6. /\ hits = {} => Exec(R, js, l) = NoResult
        /\ \A m \in hits : Exec(R, js, l) = ResultOf(js, R, m)
    BY <1>3, <1>5, ExecIsNext DEF q
  <1>7. r = Exec(R, js, l)
    BY DEF R
  <1>8. CASE re.ends[q] = NoMatch
    <2>1. hits = {}
      BY <1>2, <1>8 DEF Reference!NextMatches, Reference!IsNext, Reference!Spans
    <2> QED
      BY <1>4, <1>6, <1>7, <1>8, <2>1 DEF NoResult, q
  <1>9. CASE re.ends[q] # NoMatch
    <2> DEFINE m == <<q, re.ends[q]>>
    <2>1. m \in Reference!Spans(js, R)
      BY <1>2, <1>4, <1>9 DEF Reference!Spans
    <2>2. m[1] = q /\ m[2] = re.ends[q]
      OBVIOUS
    <2> HIDE DEF m
    <2>3. m \in hits
      BY <1>4, <2>1, <2>2 DEF Reference!NextMatches, Reference!IsNext
    <2>4. r = ResultOf(js, R, m)
      BY <1>6, <1>7, <2>3
    <2>5. /\ r.ok /\ r.found /\ r.from = ByteOf(js, q) /\ r.to = ByteOf(js, re.ends[q])
          /\ r.last = ByteOf(js, re.ends[q])
      BY <1>3, <2>2, <2>4 DEF ResultOf, StoredIndex
    <2>6. re.ends[q] \in js.bounds /\ q <= re.ends[q]
      BY <1>1, <1>4, <1>9 DEF Good, RegExpOK, AlignedOn
    <2> QED
      BY <1>4, <1>9, <2>5, <2>6 DEF q
  <1> QED
    BY <1>8, <1>9

AllPieces == Reference!PiecesFrom(js, re, 0, 0)

\* The pieces f are cut off, the current one began at prev, and the separator is
\* tried at byte l next.
CutUpTo(l, prev, f) ==
  \E d \in Seq(Nat \X Nat), p \in js.bounds :
    /\ AllPieces = d \o Reference!PiecesFrom(js, re, p, StartUnit(js, l))
    /\ p <= StartUnit(js, l) /\ prev = ByteOf(js, p)
    /\ f = ToBytes(d)

LEMMA SplitBegins ==
  ASSUME JInv
  PROVE  CutUpTo(0, 0, <<>>)
  <1>1. Good(js, re) /\ JsStringOK(js)
    BY DEF JInv, Shape, Good
  <1>2. StartUnit(js, 0) = 0 /\ 0 \in js.bounds /\ ByteOf(js, 0) = 0
    BY <1>1, StartFacts, StringFacts
  <1>3. AllPieces \in Seq(Nat \X Nat)
    BY <1>1, PiecesEquation DEF AllPieces
  <1>4. <<>> \in Seq(Nat \X Nat) /\ AllPieces = <<>> \o AllPieces
    BY <1>3, EmptySeq, ConcatEmptySeq
  <1>5. ToBytes(<<>>) = <<>>
    BY DEF ToBytes
  <1>6. AllPieces = <<>> \o Reference!PiecesFrom(js, re, 0, StartUnit(js, 0)) /\ 0 <= StartUnit(js, 0)
    BY <1>2, <1>4 DEF AllPieces
  <1> QED
    BY <1>2, <1>4, <1>5, <1>6 DEF CutUpTo

LEMMA SplitGoesOn ==
  ASSUME JInv, Aligned, ~MatchesEmpty, NEW l \in Nat, l <= js.blen, NEW prev, NEW f,
         CutUpTo(l, prev, f), NEW r, r = Exec([re EXCEPT !.sticky = TRUE], js, l)
  PROVE  /\ r.ok
         /\ ~r.found => CutUpTo(l + 1, prev, f)
         /\ r.found => /\ r.from < r.to /\ r.last \in 0..js.blen
                       /\ CutUpTo(r.last, r.last, Append(f, <<prev, r.from>>))
  <1> DEFINE q == StartUnit(js, l)
             e == re.ends[q]
             P(x, y) == Reference!PiecesFrom(js, re, x, y)
  <1>1. Good(js, re) /\ JsStringOK(js) /\ AlignedOn(re, js)
    BY DEF JInv, Shape, Aligned, Good
  <1>2. /\ js.len \in Nat /\ js.blen \in Nat /\ js.bounds \subseteq 0..js.len
        /\ \A u \in js.bounds : ByteOf(js, u) \in 0..js.blen
        /\ \A u, v \in js.bounds : u < v => ByteOf(js, u) < ByteOf(js, v)
    BY <1>1, StringFacts
  <1>3. /\ r.ok /\ q \in js.bounds
        /\ e = NoMatch => ~r.found
        /\ e # NoMatch => /\ r.found /\ e \in js.bounds /\ q <= e
                          /\ r.from = ByteOf(js, q) /\ r.to = ByteOf(js, e) /\ r.last = ByteOf(js, e)
    BY StickyFinds
  <1>4. PICK d \in Seq(Nat \X Nat), p \in js.bounds :
          /\ AllPieces = d \o P(p, q)
          /\ p <= q /\ prev = ByteOf(js, p)
          /\ f = ToBytes(d)
    BY DEF CutUpTo
  <1>5. q \in 0..js.len /\ p \in 0..js.len /\ q \in Nat /\ p \in Nat /\ q <= js.len
    BY <1>2, <1>3
  <1>6. e # q
    BY <1>5 DEF MatchesEmpty
  <1> HIDE DEF q
  <1>7. CASE e = NoMatch
    <2> DEFINE z == StartUnit(js, l + 1)
    <2>1. z = q \/ z = Reference!Advance(js, q)
      BY <1>1, NextByte DEF q
    <2> HIDE DEF z
    <2>2. P(p, z) = P(p, q) /\ p <= z
      <3>1. CASE z = q
        BY <1>4, <3>1
      <3>2. CASE z = Reference!Advance(js, q) /\ q < js.len
        <4>1. P(p, q) = P(p, Reference!Advance(js, q))
          BY <1>1, <1>5, <1>7, <3>2, PiecesEquation
        <4>2. q < Reference!Advance(js, q) /\ Reference!Advance(js, q) \in Nat
          BY <1>1, <1>2, <1>5, <3>2, AdvanceFacts
        <4> QED
          BY <1>4, <1>5, <3>2, <4>1, <4>2
      <3>3. CASE z = Reference!Advance(js, q) /\ q = js.len
        <4>1. z = js.len + 1
          BY <1>2, <3>3 DEF Reference!Advance
        <4>2. \A y \in Nat : y >= js.len => P(p, y) = <<<<p, js.len>>>>
          BY ZenonT(30), <1>1, <1>5, PiecesEquation
        <4> HIDE DEF P
        <4>3. q >= js.len /\ z \in Nat /\ z >= js.len /\ q <= z
          BY <1>2, <1>5, <3>3, <4>1
        <4>4. P(p, q) = P(p, z)
          BY <1>5, <4>2, <4>3
        <4>5. p <= z
          BY <1>4, <1>5, <4>3
        <4> QED
          BY <4>4, <4>5
      <3> QED
        BY <1>2, <1>5, <2>1, <3>1, <3>2, <3>3
    <2> HIDE DEF e
    <2>3. CutUpTo(l + 1, prev, f)
      <3>1. AllPieces = d \o Reference!PiecesFrom(js, re, p, StartUnit(js, l + 1))
            /\ p <= StartUnit(js, l + 1)
        BY <1>4, <2>2 DEF z
      <3> QED
        BY <1>4, <3>1 DEF CutUpTo
    <2> QED
      BY <1>3, <1>7, <2>3
  <1>8. CASE e # NoMatch
    <2>1. /\ q < e /\ e \in Nat /\ e <= js.len /\ q < js.len /\ e # p
      BY <1>2, <1>3, <1>4, <1>5, <1>6, <1>8
    <2>2. r.from < r.to /\ r.last \in 0..js.blen
      BY <1>2, <1>3, <1>8, <2>1
    <2> DEFINE rest == P(e, e)
               c == <<p, q>>
    <2>3. P(p, q) = <<c>> \o rest /\ rest \in Seq(Nat \X Nat)
      <3>1. P(p, q) = <<c>> \o rest
        <4>1. re.ends[q] \notin {NoMatch, p}
          BY <1>8, <2>1
        <4> QED
          BY ZenonT(30), <1>1, <1>5, <2>1, <4>1, PiecesEquation
      <3>2. rest \in Seq(Nat \X Nat)
        BY <1>1, <2>1, PiecesEquation
      <3> QED
        BY <3>1, <3>2
    <2>4. c \in Nat \X Nat /\ Bytes(c) = <<prev, r.from>>
      BY <1>3, <1>4, <1>5, <1>8 DEF Bytes
    <2>5. StartUnit(js, r.last) = e
      <3> HIDE DEF e
      <3> QED
        BY <1>1, <1>3, <1>8, StartOfByte
    <2> HIDE DEF rest, c, e
    <2> DEFINE b == Append(d, c)
    <2>6. b \in Seq(Nat \X Nat) /\ b = d \o <<c>>
      BY <2>4, AppendIsConcat
    <2>7. AllPieces = b \o rest
      <3>1. <<c>> \in Seq(Nat \X Nat)
        BY <2>4
      <3>2. d \in Seq(Nat \X Nat)
        OBVIOUS
      <3> DEFINE one == <<c>>
                 T == Nat \X Nat
      <3> HIDE DEF one, T
      <3>3. d \in Seq(T) /\ one \in Seq(T) /\ rest \in Seq(T)
        BY <2>3, <3>1, <3>2 DEF one, T
      <3>4. d \o (one \o rest) = (d \o one) \o rest
        BY SMTT(30), <3>3, ConcatAssociative
      <3> QED
        BY <1>4, <2>3, <2>6, <3>4 DEF one
    <2>8. ToBytes(b) = Append(f, <<prev, r.from>>)
      BY <1>4, <2>4, BytesAppend
    <2> HIDE DEF b
    <2>9. CutUpTo(r.last, r.last, Append(f, <<prev, r.from>>))
      <3>1. e <= e /\ r.last = ByteOf(js, e) /\ e \in js.bounds
        BY <1>3, <1>8, <2>1
      <3>2. AllPieces = b \o Reference!PiecesFrom(js, re, e, StartUnit(js, r.last))
        BY <2>5, <2>7 DEF rest
      <3> QED
        BY <2>5, <2>6, <2>8, <3>1, <3>2 DEF CutUpTo
    <2> QED
      BY <1>3, <1>8, <2>2, <2>9
  <1> QED
    BY <1>7, <1>8

LEMMA SplitEnds ==
  ASSUME JInv, Aligned, ~MatchesEmpty, NEW l \in Nat, l >= js.blen, NEW prev, NEW f,
         CutUpTo(l, prev, f)
  PROVE  Append(f, <<prev, js.blen>>) = ToBytes(Reference!SplitPieces(js, re))
  <1> DEFINE q == StartUnit(js, l)
  <1>1. Good(js, re) /\ JsStringOK(js)
    BY DEF JInv, Shape, Good
  <1>2. /\ js.len \in Nat /\ js.blen \in Nat /\ js.bounds \subseteq 0..js.len
        /\ js.len \in js.bounds /\ ByteOf(js, js.len) = js.blen
    BY <1>1, StringFacts
  <1>3. q \in Nat /\ q >= js.len
    <2>1. CASE l = js.blen
      BY <1>1, <1>2, <2>1, StartOfByte
    <2>2. CASE l > js.blen
      BY <1>1, <1>2, <2>2, StartFacts
    <2> QED
      BY <1>2, <2>1, <2>2
  <1>4. PICK d \in Seq(Nat \X Nat), p \in js.bounds :
          /\ AllPieces = d \o Reference!PiecesFrom(js, re, p, q)
          /\ prev = ByteOf(js, p) /\ f = ToBytes(d)
    BY DEF CutUpTo
  <1> DEFINE c == <<p, js.len>>
  <1> HIDE DEF q
  <1>5. Reference!PiecesFrom(js, re, p, q) = <<c>>
    <2>1. p \in Nat
      BY <1>2
    <2> QED
      BY ZenonT(30), <1>1, <1>3, <2>1, PiecesEquation
  <1>6. c \in Nat \X Nat /\ Bytes(c) = <<prev, js.blen>>
    BY <1>2, <1>4 DEF Bytes
  <1> HIDE DEF c
  <1>7. AllPieces = Append(d, c)
    BY <1>4, <1>5, <1>6, AppendIsConcat
  <1>8. ToBytes(Append(d, c)) = Append(f, <<prev, js.blen>>)
    BY <1>4, <1>6, BytesAppend
  <1>9. Reference!SplitPieces(js, re) = AllPieces
    <2>1. ~(js.len = 0 /\ re.ends[0] # NoMatch)
      <3>1. SUFFICES ASSUME js.len = 0, re.ends[0] # NoMatch PROVE FALSE
        OBVIOUS
      <3>2. 0 \in 0..js.len
        BY <3>1
      <3>3. re.ends[0] \in 0..js.len
        BY <1>1, <3>1, <3>2 DEF Good, RegExpOK
      <3>4. re.ends[0] = 0
        BY <3>1, <3>3
      <3> QED
        BY <3>2, <3>4 DEF MatchesEmpty
    <2> QED
      BY <2>1 DEF Reference!SplitPieces, AllPieces
  <1> QED
    BY <1>7, <1>8, <1>9

\* What is true of the locals of a call of split that has no limit.
SplitRight(local) ==
  local.op = "split" /\ local.limit # 0 =>
    /\ local.phase = "loop" => local.li2 <= js.blen /\ CutUpTo(local.li2, local.prev, local.found)
    /\ local.phase = "done" => local.found = ToBytes(Reference!SplitPieces(js, re))

SInv == Aligned /\ ~MatchesEmpty => \A t \in Threads : SplitRight(th[t])

\* A step that leaves subject and pattern alone.
LEMMA SplitKept ==
  ASSUME Fixed
  PROVE  /\ Aligned' <=> Aligned
         /\ MatchesEmpty' <=> MatchesEmpty
         /\ \A t \in Threads : SplitRight(th[t])' <=> SplitRight(th'[t])
  <1>1. js' = js /\ re' = re
    BY DEF Fixed
  <1>2. \A t \in Threads : SplitRight(th[t])' <=> SplitRight(th'[t])
    BY <1>1 DEF SplitRight, CutUpTo, AllPieces, ToBytes
  <1> QED
    BY <1>1, <1>2 DEF Aligned, MatchesEmpty

LEMMA MovesSplit ==
  ASSUME JInv, SInv, NEW t \in Threads, NEW local, Moves(t, local),
         Aligned /\ ~MatchesEmpty => SplitRight(local)
  PROVE  SInv'
  <1>1. th' = [th EXCEPT ![t] = local] /\ th \in [Threads -> Locals] /\ Fixed
    BY DEF JInv, Shape, Moves
  <1>2. \A x \in Threads : th'[x] = local \/ th'[x] = th[x]
    BY <1>1
  <1>3. Aligned /\ ~MatchesEmpty => \A x \in Threads : SplitRight(th'[x])
    BY <1>2 DEF SInv
  <1> QED
    BY <1>1, <1>3, SplitKept DEF SInv

LEMMA StartSplitRight ==
  ASSUME JInv, SInv, NEW t \in Threads, StartSplit(t)
  PROVE  SInv'
  <1>1. PICK local \in Locals : Moves(t, local)
    <2>1. \E local : Moves(t, local)
      BY StartsMove
    <2> QED
      BY <2>1 DEF Moves
  <1>2. th \in [Threads -> Locals] /\ th'[t] = local
    BY <1>1 DEF Moves, JInv, Shape
  <1>3. PICK limit \in Limits :
          LET new == [Fresh("split") EXCEPT !.limit = limit]
          IN IF limit = 0 THEN Ends(t, [new EXCEPT !.phase = "done"])
                          ELSE th' = [th EXCEPT ![t] = new] /\ running' = t
    BY DEF StartSplit
  <1>4. CASE limit = 0
    <2>1. local.limit = 0
      BY <1>2, <1>3, <1>4 DEF Ends, Fresh
    <2> QED
      BY <1>1, <2>1, MovesSplit DEF SplitRight
  <1>5. CASE limit # 0
    <2>1. local.phase = "loop" /\ local.li2 = 0 /\ local.prev = 0 /\ local.found = <<>>
      BY <1>2, <1>3, <1>5 DEF Fresh
    <2>2. 0 <= js.blen
      BY StringFacts DEF JInv, Shape, Good
    <2>3. SplitRight(local)
      BY <2>1, <2>2, SplitBegins DEF SplitRight
    <2> QED
      BY <1>1, <2>3, MovesSplit
  <1> QED
    BY <1>4, <1>5

LEMMA SplitStepRight ==
  ASSUME JInv, SInv, NEW t \in Threads, SplitStep(t)
  PROVE  SInv'
  <1>1. PICK local \in Locals : Moves(t, local)
    <2>1. \E local : Moves(t, local)
      BY StepsMove DEF Step
    <2> QED
      BY <2>1 DEF Moves
  <1> DEFINE s == th[t]
             r == Exec([re EXCEPT !.sticky = TRUE], js, s.li2)
             next == IF r.found THEN PieceEnded(s, r) ELSE NoPiece(s)
             end == Append(next.found, <<next.prev, js.blen>>)
  <1>2. /\ th \in [Threads -> Locals] /\ s \in Locals /\ th'[t] = local
        /\ s.op = "split" /\ s.phase = "loop" /\ s.li2 \in Nat
        /\ js.blen \in Nat
    <2>1. s.op = "split" /\ s.phase = "loop"
      BY DEF SplitStep, JInv, Control
    <2>2. th \in [Threads -> Locals] /\ s \in Locals /\ th'[t] = local
      BY <1>1 DEF Moves, JInv, Shape
    <2>3. s.li2 \in Nat
      BY <2>2 DEF Locals
    <2> QED
      BY <2>1, <2>2, <2>3, StringFacts DEF JInv, Shape, Good
  <1>3. \/ ~r.ok /\ Ends(t, [s EXCEPT !.phase = "raised"])
        \/ r.found /\ js.blen = 0 /\ Ends(t, [s EXCEPT !.phase = "done"])
        \/ next.li2 >= js.blen /\ Ends(t, [next EXCEPT !.found = end, !.phase = "done"])
        \/ ~(next.li2 >= js.blen) /\ Continues(t, next)
    BY DEF SplitStep
  <1> DEFINE f == IF s.prev < r.from \/ r.from < r.to THEN Append(s.found, <<s.prev, r.from>>)
                                                      ELSE s.found
  <1>4. /\ r.found => next = [s EXCEPT !.found = f, !.prev = r.last, !.li2 = r.last]
        /\ ~r.found => next = [s EXCEPT !.li2 = s.li2 + 1]
    BY DEF PieceEnded, NoPiece
  <1>5. ASSUME Aligned, ~MatchesEmpty, s.limit # 0
        PROVE  /\ r.ok /\ ~(r.found /\ js.blen = 0)
               /\ r.found => f = Append(s.found, <<s.prev, r.from>>) /\ r.last \in 0..js.blen
                             /\ CutUpTo(r.last, r.last, f)
               /\ ~r.found => CutUpTo(s.li2 + 1, s.prev, s.found)
    <2>1. s.li2 <= js.blen /\ CutUpTo(s.li2, s.prev, s.found)
      BY <1>2, <1>5 DEF SInv, SplitRight
    <2> HIDE DEF r, s
    <2>2. /\ r.ok
          /\ ~r.found => CutUpTo(s.li2 + 1, s.prev, s.found)
          /\ r.found => /\ r.from < r.to /\ r.last \in 0..js.blen
                        /\ CutUpTo(r.last, r.last, Append(s.found, <<s.prev, r.from>>))
      BY <1>2, <1>5, <2>1, SplitGoesOn DEF r
    <2>3. r.found => js.blen # 0
      <3>1. r.from \in 0..js.blen /\ r.to \in 0..js.blen
        BY <1>2, ResultTypes DEF r
      <3> QED
        BY <2>2, <3>1
    <2> QED
      BY <2>2, <2>3
  <1> HIDE DEF r, f, next
  <1>6. /\ "op" \in DOMAIN next /\ next.op = "split" /\ next.limit = s.limit /\ next.phase = "loop"
        /\ r.found => next.found = f /\ next.prev = r.last /\ next.li2 = r.last
        /\ ~r.found => next.found = s.found /\ next.prev = s.prev /\ next.li2 = s.li2 + 1
        /\ DOMAIN next = DOMAIN s
    BY ZenonT(30), <1>2, <1>4 DEF Locals
  <1>7. ASSUME Aligned, ~MatchesEmpty, s.limit # 0
        PROVE  CutUpTo(next.li2, next.prev, next.found) /\ next.li2 \in Nat
    BY <1>2, <1>5, <1>6, <1>7
  <1> HIDE DEF end
  <1>8. CASE ~r.ok /\ Ends(t, [s EXCEPT !.phase = "raised"])
    <2>1. local.phase = "raised"
      BY <1>2, <1>8 DEF Ends, Locals
    <2> QED
      BY <1>1, <2>1, MovesSplit DEF SplitRight
  <1>9. CASE r.found /\ js.blen = 0 /\ Ends(t, [s EXCEPT !.phase = "done"])
    <2>1. local.limit = s.limit
      BY <1>2, <1>9 DEF Ends, Locals
    <2>2. Aligned /\ ~MatchesEmpty => SplitRight(local)
      BY <1>5, <1>9, <2>1 DEF SplitRight
    <2> QED
      BY <1>1, <2>2, MovesSplit
  <1>10. CASE next.li2 >= js.blen /\ Ends(t, [next EXCEPT !.found = end, !.phase = "done"])
    <2>1. local.limit = s.limit /\ local.phase = "done" /\ local.found = end
      BY <1>2, <1>6, <1>10 DEF Ends, Locals
    <2>2. ASSUME Aligned, ~MatchesEmpty, s.limit # 0
          PROVE  end = ToBytes(Reference!SplitPieces(js, re))
      BY <1>7, <1>10, <2>2, SplitEnds DEF end
    <2>3. Aligned /\ ~MatchesEmpty => SplitRight(local)
      BY <2>1, <2>2 DEF SplitRight
    <2> QED
      BY <1>1, <2>3, MovesSplit
  <1>11. CASE ~(next.li2 >= js.blen) /\ Continues(t, next)
    <2>1. /\ local.limit = s.limit /\ local.phase = "loop" /\ local.li2 = next.li2
          /\ local.prev = next.prev /\ local.found = next.found
      BY <1>2, <1>6, <1>11 DEF Continues, Locals
    <2>2. Aligned /\ ~MatchesEmpty => SplitRight(local)
      BY <1>2, <1>7, <1>11, <2>1 DEF SplitRight
    <2> QED
      BY <1>1, <2>2, MovesSplit
  <1> QED
    BY <1>3, <1>8, <1>9, <1>10, <1>11

LEMMA NextSInv == ASSUME JInv, SInv, [Next]_vars PROVE SInv'
  <1>1. CASE UNCHANGED vars \/ SetLastIndex \/ ExecCall
    <2>1. Fixed /\ th' = th
      BY <1>1 DEF vars, SetLastIndex, ExecCall, Fixed
    <2> QED
      BY <2>1, SplitKept DEF SInv
  <1>2. ASSUME NEW t \in Threads,
               \/ StartMatch(t) \/ StartMatchAll(t) \/ Search(t) \/ SearchRaises(t)
               \/ StartSplit(t) \/ StartReplaceAll(t) \/ StartReplace(t)
               \/ Step(t) \/ CallClosure(t) \/ CallbackReturns(t) \/ Raises(t)
        PROVE  SInv'
    <2>1. CASE StartSplit(t)
      BY <2>1, StartSplitRight
    <2>2. CASE SplitStep(t)
      BY <2>2, SplitStepRight
    <2>3. ASSUME \E local : Moves(t, local), th'[t].op # "split" \/ th'[t].phase = "raised"
          PROVE  SInv'
      <3>1. PICK local : Moves(t, local)
        BY <2>3
      <3>2. th'[t] = local
        BY <3>1 DEF Moves, JInv, Shape
      <3> QED
        BY <2>3, <3>1, <3>2, MovesSplit DEF SplitRight
    <2>4. CASE MatchStep(t) \/ ListStep(t) \/ ReplaceAllStep(t)
      <3>1. \E local : Moves(t, local)
        BY <2>4, StepsMove DEF Step
      <3> QED
        BY <2>3, <2>4, <3>1, Names DEF Named
    <2>5. CASE \/ StartMatch(t) \/ StartMatchAll(t) \/ Search(t) \/ SearchRaises(t)
               \/ StartReplaceAll(t) \/ StartReplace(t) \/ CallClosure(t)
               \/ CallbackReturns(t) \/ Raises(t)
      <3>1. \E local : Moves(t, local)
        BY <2>5, StartsMove, OnceMove, OthersMove
      <3> QED
        BY <2>3, <2>5, <3>1, Names DEF Named, Replaces
    <2> QED
      BY <1>2, <2>1, <2>2, <2>4, <2>5 DEF Step
  <1> QED
    BY <1>1, <1>2 DEF Next

LEMMA InitSInv == Init => SInv
  <1>1. SUFFICES ASSUME Init PROVE SInv
    OBVIOUS
  <1>2. \A t \in Threads : th[t].op = "none"
    BY <1>1 DEF Init, Fresh
  <1> QED
    BY <1>2 DEF SInv, SplitRight

\* Unless the pattern matches the empty string, split cuts the subject into the
\* pieces of the reference, though it steps by bytes where the reference steps by
\* characters.  (jsregexp.lua:76-122)
THEOREM SplitIsExact == Spec => []SplitsAsReference
  <1>1. SInv => SplitsAsReference
    BY DEF SInv, SplitRight, SplitsAsReference, Finished
  <1> QED
    BY <1>1, InitJInv, NextJInv, InitSInv, NextSInv, PTL DEF Spec
================================================================================
