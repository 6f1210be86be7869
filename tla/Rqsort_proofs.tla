----------------------------- MODULE Rqsort_proofs -----------------------------
(***************************************************************************)
(* rqsort sorts every array, and its stack never overflows.                *)
(*                                                                         *)
(* A position b is a cut when nothing before it is greater than anything   *)
(* from it on.  The segments that are still to be sorted lie apart, and    *)
(* every position that is not strictly inside one of them is a cut.  What  *)
(* is done inside a segment leaves these cuts as they are; partitioning a  *)
(* segment makes new ones, and sorting it makes all of its positions cuts. *)
(* So when no segment is left, the array is in order.                      *)
(***************************************************************************)
EXTENDS Rqsort, SequenceTheorems, FiniteSetTheorems, WellFoundedInduction, TLAPS

Elem == Nat \X Nat
Segs == [base : Nat, count : Nat, depth : Nat]

\* the key of the element at a position
V(s, p) == s[p + 1][1]

--------------------------------------------------------------------------------
(***************************************************************************)
(* Elements that change places.                                            *)
(***************************************************************************)
LEMMA ExchangeCounts ==
  ASSUME NEW s \in Seq(Elem), NEW t \in Seq(Elem), Len(t) = Len(s),
         NEW f \in [1..Len(s) -> 1..Len(s)],
         \A m \in 1..Len(s) : f[f[m]] = m /\ t[m] = s[f[m]],
         NEW e
  PROVE  Count(t, e) = Count(s, e)
  <1> DEFINE D == 1..Len(s)
             S == {n \in D : s[n] = e}
             T == {n \in D : t[n] = e}
             g == [n \in S |-> f[n]]
  <1>1. Len(s) \in Nat /\ DOMAIN s = D /\ DOMAIN t = D
    OBVIOUS
  <1>2. IsFiniteSet(S)
    <2>1. IsFiniteSet(D)
      BY <1>1, FS_Interval
    <2> QED
      BY <2>1, FS_Subset
  <1>3. g \in Bijection(S, T)
    <2>1. ASSUME NEW n \in S PROVE g[n] \in T
      BY <2>1
    <2>2. ASSUME NEW m \in T PROVE f[m] \in S /\ g[f[m]] = m
      BY <2>2
    <2>3. ASSUME NEW m \in S, NEW n \in S, g[m] = g[n] PROVE m = n
      <3>1. f[m] = f[n] /\ m \in D /\ n \in D
        BY <2>3
      <3> QED
        BY <3>1
    <2> HIDE DEF S, T
    <2>4. g \in [S -> T]
      BY <2>1
    <2> HIDE DEF g
    <2> QED
      BY <2>2, <2>3, <2>4 DEF Bijection, Injection, Surjection, IsInjective
  <1>4. Cardinality(T) = Cardinality(S)
    BY <1>2, <1>3, FS_Bijection DEF ExistsBijection
  <1> QED
    BY <1>1, <1>4 DEF Count

\* t is s but for the order of the elements at the positions lo..(hi - 1).
Rearranged(s, t, lo, hi) ==
  /\ t \in Seq(Elem) /\ Len(t) = Len(s)
  /\ \A x \in 0..(Len(s) - 1) : (x < lo \/ hi <= x) => V(t, x) = V(s, x)
  /\ \A x \in lo..(hi - 1) : \E z \in lo..(hi - 1) : V(t, x) = V(s, z)
  /\ \A e : Count(t, e) = Count(s, e)

\* Two elements change places.
SwappedAt(s, t, p, q) ==
  /\ V(t, p) = V(s, q) /\ V(t, q) = V(s, p)
  /\ \A x \in 0..(Len(s) - 1) : x # p /\ x # q => V(t, x) = V(s, x)

LEMMA SwapRearranges ==
  ASSUME NEW s \in Seq(Elem), NEW lo \in Nat, NEW hi \in Nat, hi <= Len(s),
         NEW p \in lo..(hi - 1), NEW q \in lo..(hi - 1)
  PROVE  /\ Rearranged(s, Swapped(s, p, q), lo, hi)
         /\ SwappedAt(s, Swapped(s, p, q), p, q)
  <1> DEFINE t == Swapped(s, p, q)
             f == [m \in 1..Len(s) |-> IF m = p + 1 THEN q + 1 ELSE IF m = q + 1 THEN p + 1 ELSE m]
  <1>1. Len(s) \in Nat /\ p + 1 \in 1..Len(s) /\ q + 1 \in 1..Len(s)
    OBVIOUS
  <1>2. t \in Seq(Elem) /\ Len(t) = Len(s)
    BY <1>1 DEF Swapped
  <1>3. \A m \in 1..Len(s) :
          t[m] = IF m = p + 1 THEN s[q + 1] ELSE IF m = q + 1 THEN s[p + 1] ELSE s[m]
    BY <1>1 DEF Swapped
  <1>4. f \in [1..Len(s) -> 1..Len(s)] /\ \A m \in 1..Len(s) : f[f[m]] = m /\ t[m] = s[f[m]]
    <2> HIDE DEF t
    <2> QED
      BY <1>1, <1>3
  <1> HIDE DEF t, f
  <1>5. \A e : Count(t, e) = Count(s, e)
    BY <1>2, <1>4, ExchangeCounts
  <1>6. SwappedAt(s, t, p, q)
    BY <1>1, <1>3 DEF SwappedAt, V
  <1>7. \A x \in lo..(hi - 1) : \E z \in lo..(hi - 1) : V(t, x) = V(s, z)
    <2> TAKE x \in lo..(hi - 1)
    <2>1. x \in 0..(Len(s) - 1)
      BY <1>1
    <2> QED
      BY <1>6, <2>1 DEF SwappedAt
  <1>8. \A x \in 0..(Len(s) - 1) : (x < lo \/ hi <= x) => V(t, x) = V(s, x)
    BY <1>6 DEF SwappedAt
  <1> QED
    BY <1>2, <1>5, <1>6, <1>7, <1>8 DEF Rearranged, t

\* Two blocks change places: n elements at p and at q.
BlocksAt(s, t, p, q, n) ==
  /\ \A x \in p..(p + n - 1) : V(t, x) = V(s, x - p + q)
  /\ \A x \in q..(q + n - 1) : V(t, x) = V(s, x - q + p)
  /\ \A x \in 0..(Len(s) - 1) :
       x \notin p..(p + n - 1) /\ x \notin q..(q + n - 1) => V(t, x) = V(s, x)

LEMMA BlocksRearrange ==
  ASSUME NEW s \in Seq(Elem), NEW lo \in Nat, NEW hi \in Nat, hi <= Len(s),
         NEW p \in Nat, NEW q \in Nat, NEW n \in Nat, lo <= p, p + n <= q, q + n <= hi
  PROVE  /\ Rearranged(s, BlocksSwapped(s, p, q, n), lo, hi)
         /\ BlocksAt(s, BlocksSwapped(s, p, q, n), p, q, n)
  <1> DEFINE t == BlocksSwapped(s, p, q, n)
             low(m) == m - 1 \in p..(p + n - 1)
             high(m) == m - 1 \in q..(q + n - 1)
             f == [m \in 1..Len(s) |-> IF low(m) THEN m - p + q ELSE IF high(m) THEN m - q + p ELSE m]
  <1>1. Len(s) \in Nat /\ DOMAIN s = 1..Len(s)
    OBVIOUS
  <1>2. f \in [1..Len(s) -> 1..Len(s)]
    BY <1>1
  <1>3. \A m \in 1..Len(s) : f[f[m]] = m
    <2> TAKE m \in 1..Len(s)
    <2>1. CASE low(m)
      <3>1. f[m] = m - p + q /\ m - p + q \in 1..Len(s) /\ high(m - p + q) /\ ~low(m - p + q)
        BY <1>1, <2>1
      <3> QED
        BY <1>1, <3>1
    <2>2. CASE ~low(m) /\ high(m)
      <3>1. f[m] = m - q + p /\ m - q + p \in 1..Len(s) /\ low(m - q + p)
        BY <1>1, <2>2
      <3> QED
        BY <1>1, <3>1
    <2>3. CASE ~low(m) /\ ~high(m)
      BY <2>3
    <2> QED
      BY <2>1, <2>2, <2>3
  <1>4. \A m \in 1..Len(s) : t[m] = s[f[m]]
    BY <1>1 DEF BlocksSwapped
  <1>5. t \in Seq(Elem) /\ Len(t) = Len(s)
    <2>1. t = [m \in 1..Len(s) |-> s[f[m]]]
      BY <1>1 DEF BlocksSwapped
    <2> HIDE DEF t, f
    <2>2. \A m \in 1..Len(s) : s[f[m]] \in Elem
      BY <1>1, <1>2
    <2> DEFINE g == [m \in 1..Len(s) |-> s[f[m]]]
    <2> HIDE DEF Elem
    <2>3. g \in [1..Len(s) -> Elem]
      BY <2>2
    <2>4. t = g
      BY <2>1
    <2> HIDE DEF g
    <2>5. g \in Seq(Elem) /\ Len(g) = Len(s)
      BY <1>1, <2>3
    <2> QED
      BY <2>4, <2>5
  <1>6. BlocksAt(s, t, p, q, n)
    <2> HIDE DEF t
    <2>1. \A m \in 1..Len(s) :
            t[m] = IF low(m) THEN s[m - p + q] ELSE IF high(m) THEN s[m - q + p] ELSE s[m]
      BY <1>4
    <2>2. ASSUME NEW x \in p..(p + n - 1) PROVE V(t, x) = V(s, x - p + q)
      <3>1. x + 1 \in 1..Len(s) /\ low(x + 1) /\ x + 1 - p + q = x - p + q + 1
        BY <1>1
      <3> HIDE DEF low, high
      <3>2. t[x + 1] = s[x + 1 - p + q]
        BY <2>1, <3>1
      <3> QED
        BY <3>1, <3>2 DEF V
    <2>3. ASSUME NEW x \in q..(q + n - 1) PROVE V(t, x) = V(s, x - q + p)
      <3>1. x + 1 \in 1..Len(s) /\ ~low(x + 1) /\ high(x + 1) /\ x + 1 - q + p = x - q + p + 1
        BY <1>1
      <3> HIDE DEF low, high
      <3>2. t[x + 1] = s[x + 1 - q + p]
        BY <2>1, <3>1
      <3> QED
        BY <3>1, <3>2 DEF V
    <2>4. ASSUME NEW x \in 0..(Len(s) - 1), x \notin p..(p + n - 1), x \notin q..(q + n - 1)
          PROVE  V(t, x) = V(s, x)
      <3>1. x + 1 \in 1..Len(s) /\ ~low(x + 1) /\ ~high(x + 1)
        BY <1>1, <2>4
      <3> QED
        BY <2>1, <3>1 DEF V
    <2> QED
      BY <2>2, <2>3, <2>4 DEF BlocksAt
  <1> HIDE DEF t, f
  <1>7. \A e : Count(t, e) = Count(s, e)
    BY <1>2, <1>3, <1>4, <1>5, ExchangeCounts
  <1>8. \A x \in lo..(hi - 1) : \E z \in lo..(hi - 1) : V(t, x) = V(s, z)
    <2> TAKE x \in lo..(hi - 1)
    <2>1. CASE x \in p..(p + n - 1)
      <3>1. x - p + q \in lo..(hi - 1)
        BY <2>1
      <3> QED
        BY <1>6, <2>1, <3>1 DEF BlocksAt
    <2>2. CASE x \in q..(q + n - 1)
      <3>1. x - q + p \in lo..(hi - 1)
        BY <2>2
      <3> QED
        BY <1>6, <2>2, <3>1 DEF BlocksAt
    <2>3. CASE x \notin p..(p + n - 1) /\ x \notin q..(q + n - 1)
      <3>1. x \in 0..(Len(s) - 1)
        BY <1>1
      <3> QED
        BY <1>6, <2>3, <3>1 DEF BlocksAt
    <2> QED
      BY <2>1, <2>2, <2>3
  <1>9. \A x \in 0..(Len(s) - 1) : (x < lo \/ hi <= x) => V(t, x) = V(s, x)
    <2> TAKE x \in 0..(Len(s) - 1)
    <2> HAVE x < lo \/ hi <= x
    <2>1. x \notin p..(p + n - 1) /\ x \notin q..(q + n - 1)
      OBVIOUS
    <2> QED
      BY <1>6, <2>1 DEF BlocksAt
  <1> QED
    BY <1>5, <1>6, <1>7, <1>8, <1>9 DEF Rearranged, t

LEMMA RearrangedTwice ==
  ASSUME NEW s, NEW t, NEW u, NEW lo, NEW hi, Rearranged(s, t, lo, hi), Rearranged(t, u, lo, hi)
  PROVE  Rearranged(s, u, lo, hi)
  BY DEF Rearranged

LEMMA RearrangedWider ==
  ASSUME NEW s \in Seq(Elem), NEW t, NEW lo \in Nat, NEW hi \in Nat, NEW l \in Nat, NEW h \in Nat,
         Rearranged(s, t, l, h), lo <= l, h <= hi, hi <= Len(s)
  PROVE  Rearranged(s, t, lo, hi)
  <1>1. \A x \in lo..(hi - 1) : \E z \in lo..(hi - 1) : V(t, x) = V(s, z)
    <2> TAKE x \in lo..(hi - 1)
    <2>1. CASE x \in l..(h - 1)
      BY <2>1 DEF Rearranged
    <2>2. CASE x \notin l..(h - 1)
      <3>1. x \in 0..(Len(s) - 1) /\ (x < l \/ h <= x)
        BY <2>2
      <3> QED
        BY <3>1 DEF Rearranged
    <2> QED
      BY <2>1, <2>2
  <1>2. \A x \in 0..(Len(s) - 1) : (x < lo \/ hi <= x) => V(t, x) = V(s, x)
    BY DEF Rearranged
  <1> QED
    BY <1>1, <1>2 DEF Rearranged
--------------------------------------------------------------------------------
(***************************************************************************)
(* Segments and cuts.                                                      *)
(***************************************************************************)
Cut(s, b) == \A x, y \in 0..(Len(s) - 1) : x < b /\ b <= y => V(s, x) <= V(s, y)

EndOf(g) == g.base + g.count
Apart(g, h) == EndOf(g) <= h.base \/ EndOf(h) <= g.base
Strictly(b, g) == g.base < b /\ b < EndOf(g)

LEMMA SegmentType ==
  ASSUME NEW g \in Segs
  PROVE  g.base \in Nat /\ g.count \in Nat /\ g.depth \in Nat /\ EndOf(g) \in Nat /\ g.base <= EndOf(g)
  BY DEF Segs, EndOf

\* Segments of an array of n elements, apart from each other.
Laid(n, segs) ==
  /\ segs \in Seq(Segs)
  /\ \A k \in 1..Len(segs) : EndOf(segs[k]) <= n
  /\ \A k, j \in 1..Len(segs) : k < j => Apart(segs[k], segs[j])

Cuts(s, segs) ==
  \A b \in 0..Len(s) : (\A k \in 1..Len(segs) : ~Strictly(b, segs[k])) => Cut(s, b)

\* Cuts do not depend on the order inside of a segment.
LEMMA CutsKept ==
  ASSUME NEW s \in Seq(Elem), NEW t, NEW segs, NEW k \in 1..Len(segs),
         Laid(Len(s), segs), Cuts(s, segs), Rearranged(s, t, segs[k].base, EndOf(segs[k]))
  PROVE  Cuts(t, segs)
  <1> DEFINE lo == segs[k].base
             hi == EndOf(segs[k])
  <1>1. lo \in Nat /\ hi \in Nat /\ lo <= hi /\ hi <= Len(s) /\ Len(s) \in Nat /\ Len(t) = Len(s)
    <2>1. segs[k] \in Segs /\ EndOf(segs[k]) <= Len(s)
      BY DEF Laid
    <2> QED
      BY <2>1 DEF EndOf, Segs, Rearranged
  <1>2. \A x \in 0..(Len(s) - 1) : V(s, x) \in Nat
    BY DEF V, Elem
  <1> SUFFICES ASSUME NEW b \in 0..Len(s), \A j \in 1..Len(segs) : ~Strictly(b, segs[j]),
                      NEW x \in 0..(Len(s) - 1), NEW y \in 0..(Len(s) - 1), x < b, b <= y
               PROVE  V(t, x) <= V(t, y)
    BY <1>1 DEF Cuts, Cut
  <1>3. Cut(s, b)
    BY DEF Cuts
  <1>4. b <= lo \/ hi <= b
    BY <1>1 DEF Strictly
  <1>5. \A v \in 0..(Len(s) - 1) : (v < lo \/ hi <= v) => V(t, v) = V(s, v)
    BY DEF Rearranged
  <1>6. \A v \in lo..(hi - 1) : \E z \in lo..(hi - 1) : V(t, v) = V(s, z)
    BY DEF Rearranged
  <1> HIDE DEF lo, hi
  <1>7. PICK w \in 0..(Len(s) - 1) : w < b /\ V(t, x) = V(s, w)
    <2>1. CASE x \in lo..(hi - 1)
      <3>1. PICK z \in lo..(hi - 1) : V(t, x) = V(s, z)
        BY <1>6, <2>1
      <3> QED
        BY <1>1, <1>4, <2>1, <3>1
    <2>2. CASE x \notin lo..(hi - 1)
      BY <1>1, <1>5, <2>2
    <2> QED
      BY <2>1, <2>2
  <1>8. PICK z \in 0..(Len(s) - 1) : b <= z /\ V(t, y) = V(s, z)
    <2>1. CASE y \in lo..(hi - 1)
      <3>1. PICK z \in lo..(hi - 1) : V(t, y) = V(s, z)
        BY <1>6, <2>1
      <3> QED
        BY <1>1, <1>4, <2>1, <3>1
    <2>2. CASE y \notin lo..(hi - 1)
      BY <1>1, <1>5, <2>2
    <2> QED
      BY <2>1, <2>2
  <1> QED
    BY <1>3, <1>7, <1>8 DEF Cut

\* b is a cut of the positions of a segment.
CutWithin(s, b, g) ==
  \A x, y \in g.base..(EndOf(g) - 1) : x < b /\ b <= y => V(s, x) <= V(s, y)

\* A segment g at the end gives way to others inside of it.
LEMMA CutsMade ==
  ASSUME NEW s \in Seq(Elem), NEW stk, NEW g, NEW segs,
         stk \in Seq(Segs), Laid(Len(s), Append(stk, g)), Cuts(s, Append(stk, g)),
         Len(stk) <= Len(segs), \A k \in 1..Len(stk) : segs[k] = stk[k],
         Len(segs) \in Nat,
         \A b \in 0..Len(s) :
           Strictly(b, g) /\ (\A k \in 1..Len(segs) : ~Strictly(b, segs[k])) => CutWithin(s, b, g)
  PROVE  Cuts(s, segs)
  <1> DEFINE n == Len(stk)
             all == Append(stk, g)
  <1>1. n \in Nat /\ Len(all) = n + 1 /\ all[n + 1] = g /\ \A k \in 1..n : all[k] = stk[k]
    OBVIOUS
  <1>2. g \in Segs /\ EndOf(g) <= Len(s) /\ \A k \in 1..n : stk[k] \in Segs /\ Apart(stk[k], g)
    <2> HIDE DEF all, n
    <2>1. all \in Seq(Segs)
      BY DEF Laid, all
    <2>2. g \in Segs
      BY <1>1, <2>1
    <2>3. EndOf(g) <= Len(s)
      BY <1>1 DEF Laid, all
    <2>4. ASSUME NEW k \in 1..n PROVE Apart(stk[k], g)
      <3>1. k \in 1..Len(all) /\ n + 1 \in 1..Len(all) /\ k < n + 1
        BY <1>1
      <3>2. Apart(all[k], all[n + 1])
        BY <3>1 DEF Laid, all
      <3> QED
        BY <1>1, <3>2
    <2> QED
      BY <2>2, <2>3, <2>4 DEF n
  <1> DEFINE lo == g.base
             hi == EndOf(g)
  <1>3. lo \in Nat /\ hi \in Nat /\ lo <= hi /\ hi <= Len(s) /\ Len(s) \in Nat
    BY <1>2 DEF Segs, EndOf
  <1> HIDE DEF all, n
  <1>4. Cut(s, lo) /\ Cut(s, hi)
    <2>1. \A k \in 1..Len(all) : ~Strictly(lo, all[k]) /\ ~Strictly(hi, all[k])
      <3> TAKE k \in 1..Len(all)
      <3>1. CASE k = n + 1
        <4>1. all[k] = g
          BY <1>1, <3>1
        <4> QED
          BY <1>3, <4>1 DEF Strictly
      <3>2. CASE k \in 1..n
        <4>1. all[k] = stk[k] /\ stk[k] \in Segs /\ Apart(stk[k], g)
          BY <1>1, <1>2, <3>2
        <4>2. stk[k].base \in Nat /\ EndOf(stk[k]) \in Nat
          BY <4>1 DEF EndOf, Segs
        <4> QED
          BY <1>3, <4>1, <4>2 DEF Strictly, Apart
      <3> QED
        BY <1>1, <3>1, <3>2
    <2>2. lo \in 0..Len(s) /\ hi \in 0..Len(s)
      BY <1>3
    <2>3. \A b \in 0..Len(s) : (\A k \in 1..Len(all) : ~Strictly(b, all[k])) => Cut(s, b)
      BY DEF Cuts, all
    <2> HIDE DEF lo, hi
    <2> QED
      BY <2>1, <2>2, <2>3
  <1> SUFFICES ASSUME NEW b \in 0..Len(s), \A k \in 1..Len(segs) : ~Strictly(b, segs[k])
               PROVE  Cut(s, b)
    BY DEF Cuts
  <1>5. CASE ~Strictly(b, g)
    <2>1. \A k \in 1..Len(all) : ~Strictly(b, all[k])
      <3> TAKE k \in 1..Len(all)
      <3>1. CASE k = n + 1
        BY <1>1, <1>5, <3>1
      <3>2. CASE k \in 1..n
        <4>1. k \in 1..Len(segs) /\ segs[k] = stk[k]
          BY <3>2 DEF n
        <4> QED
          BY <1>1, <3>2, <4>1
      <3> QED
        BY <1>1, <3>1, <3>2
    <2> QED
      BY <2>1 DEF Cuts, all
  <1>6. CASE Strictly(b, g)
    <2>1. CutWithin(s, b, g) /\ lo < b /\ b < hi
      BY <1>6 DEF Strictly
    <2>2. SUFFICES ASSUME NEW x \in 0..(Len(s) - 1), NEW y \in 0..(Len(s) - 1), x < b, b <= y
                   PROVE  V(s, x) <= V(s, y)
      BY DEF Cut
    <2> HIDE DEF lo, hi
    <2>3. CASE x < lo
      <3>1. lo <= y
        BY <1>3, <2>1, <2>2
      <3> QED
        BY <1>4, <2>3, <3>1 DEF Cut
    <2>4. CASE hi <= y
      <3>1. x < hi
        BY <1>3, <2>1, <2>2
      <3> QED
        BY <1>4, <2>4, <3>1 DEF Cut
    <2> USE DEF lo, hi
    <2>5. CASE lo <= x /\ y < hi
      <3>1. x \in lo..(hi - 1) /\ y \in lo..(hi - 1)
        BY <1>3, <2>1, <2>2, <2>5
      <3> QED
        BY <2>1, <2>2, <3>1 DEF CutWithin
    <2> QED
      BY <1>3, <2>3, <2>4, <2>5
  <1> QED
    BY <1>5, <1>6

\* What lies apart does not depend on the depths.
LEMMA SameSpans ==
  ASSUME NEW n \in Nat, NEW stk \in Seq(Segs), NEW segs \in Seq(Segs), Len(stk) = Len(segs),
         \A k \in 1..Len(stk) : segs[k].base = stk[k].base /\ segs[k].count = stk[k].count
  PROVE  /\ Laid(n, stk) => Laid(n, segs)
         /\ \A s : Cuts(s, stk) => Cuts(s, segs)
  BY DEF Laid, Cuts, Strictly, Apart, EndOf

LEMMA LaidFront ==
  ASSUME NEW n \in Nat, NEW stk \in Seq(Segs), NEW g, Laid(n, Append(stk, g))
  PROVE  /\ g \in Segs /\ EndOf(g) <= n
         /\ Laid(n, stk)
         /\ \A k \in 1..Len(stk) : Apart(stk[k], g)
  <1> DEFINE all == Append(stk, g)
             m == Len(stk)
  <1>1. m \in Nat /\ Len(all) = m + 1 /\ all[m + 1] = g /\ \A k \in 1..m : all[k] = stk[k]
    OBVIOUS
  <1>2. all \in Seq(Segs) /\ Laid(n, all)
    BY DEF Laid
  <1> HIDE DEF all
  <1>3. g \in Segs /\ EndOf(g) <= n
    <2>1. m + 1 \in 1..Len(all)
      BY <1>1
    <2> QED
      BY <1>1, <1>2, <2>1 DEF Laid
  <1>4. ASSUME NEW k \in 1..m PROVE k \in 1..Len(all) /\ EndOf(stk[k]) <= n /\ Apart(stk[k], g)
    <2>1. k \in 1..Len(all) /\ m + 1 \in 1..Len(all) /\ k < m + 1
      BY <1>1
    <2> QED
      BY <1>1, <1>2, <2>1 DEF Laid
  <1>5. ASSUME NEW k \in 1..m, NEW j \in 1..m, k < j PROVE Apart(stk[k], stk[j])
    BY <1>1, <1>2, <1>4, <1>5 DEF Laid
  <1> QED
    BY <1>3, <1>4, <1>5 DEF Laid

LEMMA LaidAppend ==
  ASSUME NEW n \in Nat, NEW stk \in Seq(Segs), NEW g \in Segs,
         Laid(n, stk), EndOf(g) <= n, \A k \in 1..Len(stk) : Apart(stk[k], g)
  PROVE  Laid(n, Append(stk, g))
  <1> DEFINE all == Append(stk, g)
             m == Len(stk)
  <1>1. m \in Nat /\ Len(all) = m + 1 /\ all[m + 1] = g /\ \A k \in 1..m : all[k] = stk[k]
    OBVIOUS
  <1>2. all \in Seq(Segs)
    OBVIOUS
  <1> HIDE DEF all
  <1>3. ASSUME NEW k \in 1..Len(all) PROVE EndOf(all[k]) <= n
    <2>1. CASE k \in 1..m
      BY <1>1, <2>1 DEF Laid
    <2>2. CASE k = m + 1
      BY <1>1, <2>2
    <2> QED
      BY <1>1, <2>1, <2>2
  <1>4. ASSUME NEW k \in 1..Len(all), NEW j \in 1..Len(all), k < j PROVE Apart(all[k], all[j])
    <2>1. k \in 1..m
      BY <1>1, <1>4
    <2>2. CASE j \in 1..m
      BY <1>1, <1>4, <2>1, <2>2 DEF Laid
    <2>3. CASE j = m + 1
      BY <1>1, <2>1, <2>3
    <2> QED
      BY <1>1, <2>2, <2>3
  <1> QED
    BY <1>2, <1>3, <1>4 DEF Laid, all

\* Two segments inside of g in its place.
LEMMA LaidSplit ==
  ASSUME NEW n \in Nat, NEW stk \in Seq(Segs), NEW g, Laid(n, Append(stk, g)),
         NEW l \in Segs, NEW h \in Segs, Apart(l, h),
         g.base <= l.base, EndOf(l) <= EndOf(g), g.base <= h.base, EndOf(h) <= EndOf(g)
  PROVE  Laid(n, Append(Append(stk, l), h))
  <1>1. /\ g \in Segs /\ EndOf(g) <= n /\ Laid(n, stk)
        /\ \A k \in 1..Len(stk) : Apart(stk[k], g)
    BY LaidFront
  <1>2. g.base \in Nat /\ EndOf(g) \in Nat /\ l.base \in Nat /\ EndOf(l) \in Nat
        /\ h.base \in Nat /\ EndOf(h) \in Nat
    BY <1>1 DEF Segs, EndOf
  <1>3. ASSUME NEW k \in 1..Len(stk) PROVE Apart(stk[k], l) /\ Apart(stk[k], h)
    <2>1. stk[k] \in Segs
      BY <1>1 DEF Laid
    <2>2. stk[k].base \in Nat /\ EndOf(stk[k]) \in Nat
      BY <2>1, SegmentType
    <2>3. EndOf(stk[k]) <= g.base \/ EndOf(g) <= stk[k].base
      BY <1>1 DEF Apart
    <2>4. CASE EndOf(stk[k]) <= g.base
      <3>1. EndOf(stk[k]) <= l.base /\ EndOf(stk[k]) <= h.base
        BY <1>2, <2>2, <2>4
      <3> QED
        BY <3>1 DEF Apart
    <2>5. CASE EndOf(g) <= stk[k].base
      <3>1. EndOf(l) <= stk[k].base /\ EndOf(h) <= stk[k].base
        BY <1>2, <2>2, <2>5
      <3> QED
        BY <3>1 DEF Apart
    <2> QED
      BY <2>3, <2>4, <2>5
  <1>4. Laid(n, Append(stk, l))
    <2>1. EndOf(l) <= n
      BY <1>1, <1>2
    <2>2. Laid(n, stk) /\ n \in Nat /\ stk \in Seq(Segs) /\ l \in Segs
      BY <1>1
    <2>3. \A k \in 1..Len(stk) : Apart(stk[k], l)
      BY <1>3
    <2> QED
      BY <2>1, <2>2, <2>3, LaidAppend
  <1> DEFINE a == Append(stk, l)
  <1>5. a \in Seq(Segs) /\ Len(a) = Len(stk) + 1 /\ a[Len(stk) + 1] = l
        /\ \A k \in 1..Len(stk) : a[k] = stk[k]
    OBVIOUS
  <1> HIDE DEF a
  <1>6. ASSUME NEW k \in 1..Len(a) PROVE Apart(a[k], h)
    <2>1. CASE k \in 1..Len(stk)
      BY <1>3, <1>5, <2>1
    <2>2. CASE k = Len(stk) + 1
      BY <1>5, <2>2
    <2> QED
      BY <1>5, <2>1, <2>2
  <1>7. EndOf(h) <= n
    BY <1>1, <1>2
  <1> QED
    BY <1>4, <1>5, <1>6, <1>7, LaidAppend DEF a
--------------------------------------------------------------------------------
(***************************************************************************)
(* The inductive invariant.                                                *)
(***************************************************************************)
Here == Segment(ptr, nmemb, 0)

\* what is still to be sorted
Pend == IF spc \in {"pop", "sorted"} THEN stack ELSE Append(stack, Here)

Phases == {"pop", "sorted", "loop", "up", "down", "gather", "insert", "heapify", "sift", "extract", "sink"}

SortTypeOK ==
  /\ arr \in Seq(Elem) /\ unsorted \in Seq(Elem) /\ stack \in Seq(Segs)
  /\ ptr \in Nat /\ nmemb \in Nat /\ depth \in Nat
  /\ plt \in Nat /\ pi \in Nat /\ pj \in Nat /\ pgt \in Nat /\ r \in Nat
  /\ spc \in Phases

SameElements == \A e : Count(arr, e) = Count(unsorted, e)

Whole == Laid(Len(arr), Pend) /\ Cuts(arr, Pend) /\ SameElements

\* The segment at position k of the stack has been partitioned k times or more.
DepthBounds ==
  \/ spc = "pop" /\ Len(stack) = 1
  \/ /\ \A k \in 1..Len(stack) : k <= stack[k].depth /\ stack[k].depth <= MaxDepth
     /\ spc \notin {"pop", "sorted"} => Len(stack) <= depth
     /\ spc \in {"up", "down", "gather"} => Len(stack) < depth /\ depth <= MaxDepth

\* Partitioning: equal, smaller, not compared yet, greater, equal.
Parts(s, lo, hi, a, b, c, d) ==
  /\ lo < a /\ a <= b /\ b <= c /\ c <= d /\ d <= hi
  /\ \A x \in lo..(a - 1) : V(s, x) = V(s, lo)
  /\ \A x \in a..(b - 1) : V(s, x) < V(s, lo)
  /\ \A x \in c..(d - 1) : V(s, x) > V(s, lo)
  /\ \A x \in d..(hi - 1) : V(s, x) = V(s, lo)

\* Insertion: up to i the elements are in order, but for that at j, which is too far to the right.
Inserting(s, lo, hi, i, j) ==
  /\ lo <= j /\ j <= i /\ lo < i
  /\ i >= hi => j = i
  /\ \A x, y \in lo..(hi - 1) : x < y /\ y <= i /\ y # j => V(s, x) <= V(s, y)

\* c is below k in the heap.
Below(c, k) == c = 2 * k + 1 \/ c = 2 * k + 2

\* The elements from m on are a heap of n, whose top is at base.
HeapFrom(s, base, m, n) ==
  \A k, c \in m..(n - 1) : Below(c, k) => V(s, base + c) <= V(s, base + k)

\* ... but for that at q, which may be too small.
HeapBut(s, base, m, n, q) ==
  /\ q \in m..(n - 1)
  /\ \A k, c \in m..(n - 1) : Below(c, k) /\ k # q => V(s, base + c) <= V(s, base + k)
  /\ \A k, c \in m..(n - 1) : Below(q, k) /\ Below(c, q) => V(s, base + c) <= V(s, base + k)

\* From m on they are in order, and not smaller than any before.
TailSorted(s, base, m, n) ==
  \A x, y \in 0..(n - 1) : x < y /\ m <= y => V(s, base + x) <= V(s, base + y)

PhaseInv ==
  /\ spc = "sorted" => stack = <<>>
  /\ spc = "up" => Parts(arr, ptr, ptr + nmemb, plt, pi, pj, pgt)
  /\ spc = "down" => /\ Parts(arr, ptr, ptr + nmemb, plt, pi, pj, pgt)
                     /\ pi < pj => V(arr, pi) > V(arr, ptr)
  /\ spc = "gather" => Parts(arr, ptr, ptr + nmemb, plt, pi, pi, pgt)
  /\ spc = "insert" => Inserting(arr, ptr, ptr + nmemb, pi, pj)
  /\ spc = "heapify" => nmemb > 0 /\ pj = nmemb /\ pi <= nmemb /\ HeapFrom(arr, ptr, pi, nmemb)
  /\ spc = "sift" => pj = nmemb /\ HeapBut(arr, ptr, pi, nmemb, r)
  /\ spc = "extract" => /\ pj = pi + 1 /\ pj <= nmemb
                        /\ HeapFrom(arr, ptr, 0, pj) /\ TailSorted(arr, ptr, pj, nmemb)
  /\ spc = "sink" => /\ pj = pi + 1 /\ pj <= nmemb
                     /\ HeapBut(arr, ptr, 0, pj, r) /\ TailSorted(arr, ptr, pj, nmemb)

SortInv == SortTypeOK /\ Whole /\ DepthBounds /\ PhaseInv

--------------------------------------------------------------------------------
(***************************************************************************)
(* Partitioning.                                                           *)
(***************************************************************************)
LEMMA Keys ==
  ASSUME NEW s \in Seq(Elem), NEW x \in 0..(Len(s) - 1)
  PROVE  V(s, x) \in Nat
  BY DEF V, Elem

LEMMA PartsType ==
  ASSUME NEW s, NEW lo \in Nat, NEW hi \in Nat, NEW a \in Nat, NEW b \in Nat, NEW c \in Nat, NEW d \in Nat,
         Parts(s, lo, hi, a, b, c, d)
  PROVE  lo < a /\ a <= b /\ b <= c /\ c <= d /\ d <= hi
  BY DEF Parts

LEMMA UpEqual ==
  ASSUME NEW s \in Seq(Elem), NEW t \in Seq(Elem), NEW lo \in Nat, NEW hi \in Nat, hi <= Len(s),
         NEW a \in Nat, NEW b \in Nat, NEW c \in Nat, NEW d \in Nat, Parts(s, lo, hi, a, b, c, d),
         b < c, V(s, b) = V(s, lo), SwappedAt(s, t, a, b)
  PROVE  Parts(t, lo, hi, a + 1, b + 1, c, d)
  <1>1. lo < a /\ a <= b /\ b < c /\ c <= d /\ d <= hi /\ hi <= Len(s) /\ Len(s) \in Nat
    BY PartsType
  <1>2. \A x \in 0..(Len(s) - 1) : x # a /\ x # b => V(t, x) = V(s, x)
    BY DEF SwappedAt
  <1>3. V(t, a) = V(s, lo) /\ V(t, b) = V(s, a)
    BY DEF SwappedAt
  <1>4. V(t, lo) = V(s, lo)
    BY <1>1, <1>2
  <1>5. ASSUME NEW x \in lo..a PROVE V(t, x) = V(t, lo)
    <2>1. CASE x = a
      BY <1>3, <1>4, <2>1
    <2>2. CASE x # a
      <3>1. x \in lo..(a - 1) /\ x \in 0..(Len(s) - 1) /\ x # a /\ x # b
        BY <1>1, <2>2
      <3> QED
        BY <1>2, <1>4, <3>1 DEF Parts
    <2> QED
      BY <2>1, <2>2
  <1>6. ASSUME NEW x \in (a + 1)..b PROVE V(t, x) < V(t, lo)
    <2>1. CASE x = b
      <3>1. a \in a..(b - 1)
        BY <1>1, <2>1
      <3> QED
        BY <1>3, <1>4, <2>1, <3>1 DEF Parts
    <2>2. CASE x # b
      <3>1. x \in a..(b - 1) /\ x \in 0..(Len(s) - 1) /\ x # a /\ x # b
        BY <1>1, <2>2
      <3> QED
        BY <1>2, <1>4, <3>1 DEF Parts
    <2> QED
      BY <2>1, <2>2
  <1>7. ASSUME NEW x \in c..(d - 1) PROVE V(t, x) > V(t, lo)
    <2>1. x \in 0..(Len(s) - 1) /\ x # a /\ x # b
      BY <1>1
    <2> QED
      BY <1>2, <1>4, <2>1 DEF Parts
  <1>8. ASSUME NEW x \in d..(hi - 1) PROVE V(t, x) = V(t, lo)
    <2>1. x \in 0..(Len(s) - 1) /\ x # a /\ x # b
      BY <1>1
    <2> QED
      BY <1>2, <1>4, <2>1 DEF Parts
  <1>9. a + 1 - 1 = a /\ b + 1 - 1 = b /\ lo < a + 1 /\ a + 1 <= b + 1 /\ b + 1 <= c
    BY <1>1
  <1> QED
    BY <1>1, <1>5, <1>6, <1>7, <1>8, <1>9 DEF Parts

LEMMA UpLess ==
  ASSUME NEW s \in Seq(Elem), NEW lo \in Nat, NEW hi \in Nat,
         NEW a \in Nat, NEW b \in Nat, NEW c \in Nat, NEW d \in Nat, Parts(s, lo, hi, a, b, c, d),
         b < c, V(s, b) < V(s, lo)
  PROVE  Parts(s, lo, hi, a, b + 1, c, d)
  <1>1. lo < a /\ a <= b /\ b < c /\ c <= d /\ d <= hi
    BY PartsType
  <1>2. ASSUME NEW x \in a..(b + 1 - 1) PROVE V(s, x) < V(s, lo)
    <2>1. x = b \/ x \in a..(b - 1)
      BY <1>1
    <2> QED
      BY <2>1 DEF Parts
  <1>3. b + 1 <= c /\ a <= b + 1
    BY <1>1
  <1> QED
    BY <1>1, <1>2, <1>3 DEF Parts

Before(p, q) == p = q - 1

LEMMA DownEqual ==
  ASSUME NEW s \in Seq(Elem), NEW t \in Seq(Elem), NEW lo \in Nat, NEW hi \in Nat, hi <= Len(s),
         NEW a \in Nat, NEW b \in Nat, NEW c \in Nat, NEW d \in Nat, Parts(s, lo, hi, a, b, c, d),
         NEW p \in Nat, Before(p, d), NEW q \in Nat, Before(q, c),
         b < q, V(s, lo) = V(s, q), SwappedAt(s, t, p, q)
  PROVE  Parts(t, lo, hi, a, b, q, p)
  <1>1. /\ lo < a /\ a <= b /\ b < q /\ c <= d /\ d <= hi /\ hi <= Len(s) /\ Len(s) \in Nat
        /\ p = d - 1 /\ q = c - 1
    BY PartsType DEF Before
  <1>2. \A x \in 0..(Len(s) - 1) : x # p /\ x # q => V(t, x) = V(s, x)
    BY DEF SwappedAt
  <1>3. V(t, p) = V(s, lo) /\ V(t, q) = V(s, p)
    BY DEF SwappedAt
  <1>4. V(t, lo) = V(s, lo) /\ V(t, b) = V(s, b)
    <2>1. lo \in 0..(Len(s) - 1) /\ b \in 0..(Len(s) - 1) /\ lo # p /\ lo # q /\ b # p /\ b # q
      BY <1>1
    <2> QED
      BY <1>2, <2>1
  <1>5. ASSUME NEW x \in lo..(a - 1) PROVE V(t, x) = V(t, lo)
    <2>1. x \in 0..(Len(s) - 1) /\ x # p /\ x # q
      BY <1>1
    <2> QED
      BY <1>2, <1>4, <2>1 DEF Parts
  <1>6. ASSUME NEW x \in a..(b - 1) PROVE V(t, x) < V(t, lo)
    <2>1. x \in 0..(Len(s) - 1) /\ x # p /\ x # q
      BY <1>1
    <2> QED
      BY <1>2, <1>4, <2>1 DEF Parts
  <1>7. ASSUME NEW x \in q..(p - 1) PROVE V(t, x) > V(t, lo)
    <2>1. CASE x = q
      <3>1. p \in c..(d - 1)
        BY <1>1, <2>1
      <3> QED
        BY <1>3, <1>4, <2>1, <3>1 DEF Parts
    <2>2. CASE x # q
      <3>1. x \in c..(d - 1) /\ x \in 0..(Len(s) - 1) /\ x # p /\ x # q
        BY <1>1, <2>2
      <3> QED
        BY <1>2, <1>4, <3>1 DEF Parts
    <2> QED
      BY <2>1, <2>2
  <1>8. ASSUME NEW x \in p..(hi - 1) PROVE V(t, x) = V(t, lo)
    <2>1. CASE x = p
      BY <1>3, <1>4, <2>1
    <2>2. CASE x # p
      <3>1. x \in d..(hi - 1) /\ x \in 0..(Len(s) - 1) /\ x # p /\ x # q
        BY <1>1, <2>2
      <3> QED
        BY <1>2, <1>4, <3>1 DEF Parts
    <2> QED
      BY <2>1, <2>2
  <1>9. b <= q /\ q <= p /\ p <= hi
    BY <1>1
  <1> QED
    BY <1>1, <1>4, <1>5, <1>6, <1>7, <1>8, <1>9 DEF Parts

LEMMA DownMore ==
  ASSUME NEW s \in Seq(Elem), NEW lo \in Nat, NEW hi \in Nat,
         NEW a \in Nat, NEW b \in Nat, NEW c \in Nat, NEW d \in Nat, Parts(s, lo, hi, a, b, c, d),
         b <= c - 1, V(s, c - 1) > V(s, lo)
  PROVE  Parts(s, lo, hi, a, b, c - 1, d)
  <1>1. lo < a /\ a <= b /\ b <= c - 1 /\ c <= d /\ d <= hi
    BY PartsType
  <1>2. ASSUME NEW x \in (c - 1)..(d - 1) PROVE V(s, x) > V(s, lo)
    <2>1. x = c - 1 \/ x \in c..(d - 1)
      BY <1>1
    <2> QED
      BY <2>1 DEF Parts
  <1>3. c - 1 <= d
    BY <1>1
  <1> QED
    BY <1>1, <1>2, <1>3 DEF Parts

LEMMA DownSwap ==
  ASSUME NEW s \in Seq(Elem), NEW t \in Seq(Elem), NEW lo \in Nat, NEW hi \in Nat, hi <= Len(s),
         NEW a \in Nat, NEW b \in Nat, NEW c \in Nat, NEW d \in Nat, Parts(s, lo, hi, a, b, c, d),
         b < c - 1, V(s, lo) > V(s, c - 1), V(s, b) > V(s, lo), SwappedAt(s, t, b, c - 1)
  PROVE  Parts(t, lo, hi, a, b + 1, c - 1, d)
  <1>1. lo < a /\ a <= b /\ b < c - 1 /\ c <= d /\ d <= hi /\ hi <= Len(s) /\ Len(s) \in Nat
    BY PartsType
  <1>2. \A x \in 0..(Len(s) - 1) : x # b /\ x # c - 1 => V(t, x) = V(s, x)
    BY DEF SwappedAt
  <1>3. V(t, b) = V(s, c - 1) /\ V(t, c - 1) = V(s, b)
    BY DEF SwappedAt
  <1>4. V(t, lo) = V(s, lo)
    <2>1. lo \in 0..(Len(s) - 1) /\ lo # b /\ lo # c - 1
      BY <1>1
    <2> QED
      BY <1>2, <2>1
  <1>a. V(s, lo) \in Nat /\ V(s, b) \in Nat /\ V(s, c - 1) \in Nat
    <2>1. lo \in 0..(Len(s) - 1) /\ b \in 0..(Len(s) - 1) /\ c - 1 \in 0..(Len(s) - 1)
      BY <1>1
    <2> QED
      BY <2>1, Keys
  <1>5. ASSUME NEW x \in lo..(a - 1) PROVE V(t, x) = V(t, lo)
    <2>1. x \in 0..(Len(s) - 1) /\ x # b /\ x # c - 1
      BY <1>1
    <2> QED
      BY <1>2, <1>4, <2>1 DEF Parts
  <1>6. ASSUME NEW x \in a..(b + 1 - 1) PROVE V(t, x) < V(t, lo)
    <2>1. CASE x = b
      BY <1>3, <1>4, <1>a, <2>1
    <2>2. CASE x # b
      <3>1. x \in a..(b - 1) /\ x \in 0..(Len(s) - 1) /\ x # b /\ x # c - 1
        BY <1>1, <2>2
      <3> QED
        BY <1>2, <1>4, <3>1 DEF Parts
    <2> QED
      BY <2>1, <2>2
  <1>7. ASSUME NEW x \in (c - 1)..(d - 1) PROVE V(t, x) > V(t, lo)
    <2>1. CASE x = c - 1
      BY <1>3, <1>4, <2>1
    <2>2. CASE x # c - 1
      <3>1. x \in c..(d - 1) /\ x \in 0..(Len(s) - 1) /\ x # b /\ x # c - 1
        BY <1>1, <2>2
      <3> QED
        BY <1>2, <1>4, <3>1 DEF Parts
    <2> QED
      BY <2>1, <2>2
  <1>8. ASSUME NEW x \in d..(hi - 1) PROVE V(t, x) = V(t, lo)
    <2>1. x \in 0..(Len(s) - 1) /\ x # b /\ x # c - 1
      BY <1>1
    <2> QED
      BY <1>2, <1>4, <2>1 DEF Parts
  <1>9. a <= b + 1 /\ b + 1 <= c - 1 /\ c - 1 <= d
    BY <1>1
  <1> QED
    BY <1>1, <1>5, <1>6, <1>7, <1>8, <1>9 DEF Parts

\* Smaller than v, equal to it, greater.
Three(s, lo, hi, l, h, v) ==
  /\ lo <= l /\ l <= h /\ h <= hi
  /\ \A x \in lo..(l - 1) : V(s, x) < v
  /\ \A x \in l..(h - 1) : V(s, x) = v
  /\ \A x \in h..(hi - 1) : V(s, x) > v

Shortest(n, m, k) == n <= m /\ n <= k /\ (n = m \/ n = k)

EqualThenLess(s, lo, a, b, v) ==
  (\A x \in lo..(a - 1) : V(s, x) = v) /\ (\A x \in a..(b - 1) : V(s, x) < v)

LowGathered(s, t, lo, a, b, v) ==
  /\ \A x \in lo..(lo + (b - a) - 1) : V(t, x) < v
  /\ \A x \in (lo + (b - a))..(b - 1) : V(t, x) = v
  /\ \A x \in b..(Len(s) - 1) : V(t, x) = V(s, x)

GreaterThenEqual(s, b, d, hi, v) ==
  (\A x \in b..(d - 1) : V(s, x) > v) /\ (\A x \in d..(hi - 1) : V(s, x) = v)

HighGathered(s, t, b, d, hi, v) ==
  /\ \A x \in b..(hi - (d - b) - 1) : V(t, x) = v
  /\ \A x \in (hi - (d - b))..(hi - 1) : V(t, x) > v
  /\ \A x \in 0..(b - 1) : V(t, x) = V(s, x)

\* Equal elements at the low end go behind the smaller ones.
LEMMA GatherLow ==
  ASSUME NEW s \in Seq(Elem), NEW t, NEW lo \in Nat, NEW a \in Nat, NEW b \in Nat, NEW n \in Nat, NEW v,
         lo < a, a <= b, b <= Len(s), Shortest(n, a - lo, b - a),
         EqualThenLess(s, lo, a, b, v), BlocksAt(s, t, lo, b - n, n)
  PROVE  LowGathered(s, t, lo, a, b, v)
  <1> USE DEF EqualThenLess
  <1>1. n <= a - lo /\ n <= b - a /\ (n = a - lo \/ n = b - a) /\ Len(s) \in Nat
    BY DEF Shortest
  <1>2. /\ \A x \in lo..(lo + n - 1) : V(t, x) = V(s, x - lo + (b - n))
        /\ \A x \in (b - n)..(b - 1) : V(t, x) = V(s, x - (b - n) + lo)
        /\ \A x \in (lo + n)..(b - n - 1) : V(t, x) = V(s, x)
    <2>1. b - n + n - 1 = b - 1
      OBVIOUS
    <2>2. ASSUME NEW x \in (lo + n)..(b - n - 1)
          PROVE  x \in 0..(Len(s) - 1) /\ x \notin lo..(lo + n - 1) /\ x \notin (b - n)..(b - n + n - 1)
      BY <1>1
    <2> QED
      BY <2>1, <2>2 DEF BlocksAt
  <1>3. ASSUME NEW x \in b..(Len(s) - 1) PROVE V(t, x) = V(s, x)
    <2>1. x \in 0..(Len(s) - 1) /\ x \notin lo..(lo + n - 1) /\ x \notin (b - n)..(b - n + n - 1)
      BY <1>1
    <2> QED
      BY <2>1 DEF BlocksAt
  <1>4. ASSUME NEW x \in lo..(lo + (b - a) - 1) PROVE V(t, x) < v
    <2>1. CASE x < lo + n
      <3>1. x \in lo..(lo + n - 1) /\ x - lo + (b - n) \in a..(b - 1)
        BY <1>1, <2>1
      <3> QED
        BY <1>2, <3>1
    <2>2. CASE x >= lo + n
      <3>1. x \in (lo + n)..(b - n - 1) /\ x \in a..(b - 1)
        BY <1>1, <2>2
      <3> QED
        BY <1>2, <3>1
    <2> QED
      BY <2>1, <2>2
  <1>5. ASSUME NEW x \in (lo + (b - a))..(b - 1) PROVE V(t, x) = v
    <2>1. CASE x >= b - n
      <3>1. x \in (b - n)..(b - 1) /\ x - (b - n) + lo \in lo..(a - 1)
        BY <1>1, <2>1
      <3> QED
        BY <1>2, <3>1
    <2>2. CASE x < b - n
      <3>1. x \in (lo + n)..(b - n - 1) /\ x \in lo..(a - 1)
        BY <1>1, <2>2
      <3> QED
        BY <1>2, <3>1
    <2> QED
      BY <1>1, <2>1, <2>2
  <1> QED
    BY <1>3, <1>4, <1>5 DEF LowGathered

\* Equal elements at the high end go before the greater ones.
LEMMA GatherHigh ==
  ASSUME NEW s \in Seq(Elem), NEW t, NEW b \in Nat, NEW d \in Nat, NEW hi \in Nat, NEW n \in Nat, NEW v,
         b <= d, d <= hi, hi <= Len(s), Shortest(n, hi - d, d - b),
         GreaterThenEqual(s, b, d, hi, v), BlocksAt(s, t, b, hi - n, n)
  PROVE  HighGathered(s, t, b, d, hi, v)
  <1> USE DEF GreaterThenEqual
  <1>1. n <= hi - d /\ n <= d - b /\ (n = hi - d \/ n = d - b) /\ Len(s) \in Nat
    BY DEF Shortest
  <1>2. /\ \A x \in b..(b + n - 1) : V(t, x) = V(s, x - b + (hi - n))
        /\ \A x \in (hi - n)..(hi - 1) : V(t, x) = V(s, x - (hi - n) + b)
        /\ \A x \in (b + n)..(hi - n - 1) : V(t, x) = V(s, x)
    <2>1. hi - n + n - 1 = hi - 1
      OBVIOUS
    <2>2. ASSUME NEW x \in (b + n)..(hi - n - 1)
          PROVE  x \in 0..(Len(s) - 1) /\ x \notin b..(b + n - 1) /\ x \notin (hi - n)..(hi - n + n - 1)
      BY <1>1
    <2> QED
      BY <2>1, <2>2 DEF BlocksAt
  <1>3. ASSUME NEW x \in 0..(b - 1) PROVE V(t, x) = V(s, x)
    <2>1. x \in 0..(Len(s) - 1) /\ x \notin b..(b + n - 1) /\ x \notin (hi - n)..(hi - n + n - 1)
      BY <1>1
    <2> QED
      BY <2>1 DEF BlocksAt
  <1>4. ASSUME NEW x \in b..(hi - (d - b) - 1) PROVE V(t, x) = v
    <2>1. CASE x < b + n
      <3>1. x \in Int /\ b <= x /\ x < b + n
        BY <2>1
      <3>2. x \in b..(b + n - 1)
        BY <3>1
      <3>3. x - b + (hi - n) \in d..(hi - 1)
        BY <1>1, <3>1
      <3> QED
        BY <1>2, <3>2, <3>3
    <2>2. CASE x >= b + n
      <3>1. x \in (b + n)..(hi - n - 1) /\ x \in d..(hi - 1)
        BY <1>1, <2>2
      <3> QED
        BY <1>2, <3>1
    <2> QED
      BY <2>1, <2>2
  <1>5. ASSUME NEW x \in (hi - (d - b))..(hi - 1) PROVE V(t, x) > v
    <2>1. CASE x >= hi - n
      <3>1. x \in (hi - n)..(hi - 1) /\ x - (hi - n) + b \in b..(d - 1)
        BY <1>1, <2>1
      <3> QED
        BY <1>2, <3>1
    <2>2. CASE x < hi - n
      <3>1. x \in (b + n)..(hi - n - 1) /\ x \in b..(d - 1)
        BY <1>1, <2>2
      <3> QED
        BY <1>2, <3>1
    <2> QED
      BY <1>1, <2>1, <2>2
  <1> QED
    BY <1>3, <1>4, <1>5 DEF HighGathered

\* Both ends together.
LEMMA GatherThree ==
  ASSUME NEW s \in Seq(Elem), NEW lo \in Nat, NEW hi \in Nat, hi <= Len(s),
         NEW a \in Nat, NEW b \in Nat, NEW d \in Nat, Parts(s, lo, hi, a, b, b, d),
         NEW l \in Nat, Shortest(l, a - lo, b - a), NEW h \in Nat, Shortest(h, hi - d, d - b),
         NEW t, t = BlocksSwapped(s, lo, b - l, l), NEW u, u = BlocksSwapped(t, b, hi - h, h)
  PROVE  /\ Rearranged(s, u, lo, hi)
         /\ V(s, lo) \in Nat /\ Three(u, lo, hi, lo + (b - a), hi - (d - b), V(s, lo))
  <1> DEFINE v == V(s, lo)
             n == Len(s)
  <1>1. lo < a /\ a <= b /\ b <= d /\ d <= hi /\ hi <= n /\ n \in Nat
    BY PartsType
  <1>2. /\ l \in Nat /\ l <= a - lo /\ l <= b - a
        /\ h \in Nat /\ h <= hi - d /\ h <= d - b
    BY <1>1 DEF Shortest
  <1>3. /\ \A x \in lo..(a - 1) : V(s, x) = v
        /\ \A x \in a..(b - 1) : V(s, x) < v
        /\ \A x \in b..(d - 1) : V(s, x) > v
        /\ \A x \in d..(hi - 1) : V(s, x) = v
    BY DEF Parts
  <1>4. v \in Nat
    <2>1. lo \in 0..(n - 1)
      BY <1>1
    <2> QED
      BY <2>1, Keys
  <1> HIDE DEF v, n
  <1>5. Rearranged(s, t, lo, hi) /\ BlocksAt(s, t, lo, b - l, l)
    <2>1. b - l \in Nat /\ lo <= lo /\ lo + l <= b - l /\ b - l + l <= hi
      BY <1>1, <1>2
    <2> QED
      BY <1>2, <2>1, BlocksRearrange
  <1>6. t \in Seq(Elem) /\ Len(t) = n
    BY <1>5 DEF Rearranged, n
  <1>7. Rearranged(t, u, lo, hi) /\ BlocksAt(t, u, b, hi - h, h)
    <2>1. hi - h \in Nat /\ lo <= b /\ b + h <= hi - h /\ hi - h + h <= hi /\ hi <= Len(t)
      BY <1>1, <1>2, <1>6
    <2> QED
      BY <1>2, <1>6, <2>1, BlocksRearrange
  <1>8. /\ \A x \in lo..(lo + (b - a) - 1) : V(t, x) < v
        /\ \A x \in (lo + (b - a))..(b - 1) : V(t, x) = v
        /\ \A x \in b..(n - 1) : V(t, x) = V(s, x)
    <2>1. b <= Len(s)
      BY <1>1 DEF n
    <2>2. EqualThenLess(s, lo, a, b, v)
      BY <1>3 DEF EqualThenLess
    <2>3. LowGathered(s, t, lo, a, b, v)
      BY <1>1, <1>5, <2>1, <2>2, GatherLow
    <2> QED
      BY <2>3 DEF LowGathered, n
  <1>9. /\ \A x \in b..(hi - (d - b) - 1) : V(u, x) = v
        /\ \A x \in (hi - (d - b))..(hi - 1) : V(u, x) > v
        /\ \A x \in 0..(b - 1) : V(u, x) = V(t, x)
    <2>1. ASSUME NEW x \in b..(d - 1) PROVE V(t, x) > v
      <3>1. x \in b..(n - 1)
        BY <1>1
      <3> QED
        BY <1>3, <1>8, <3>1
    <2>2. ASSUME NEW x \in d..(hi - 1) PROVE V(t, x) = v
      <3>1. x \in b..(n - 1)
        BY <1>1
      <3> QED
        BY <1>3, <1>8, <3>1
    <2>3. GreaterThenEqual(t, b, d, hi, v)
      BY <2>1, <2>2 DEF GreaterThenEqual
    <2>4. HighGathered(t, u, b, d, hi, v)
      BY <1>1, <1>6, <1>7, <2>3, GatherHigh
    <2> QED
      BY <2>4 DEF HighGathered
  <1>10. Rearranged(s, u, lo, hi)
    BY <1>5, <1>7, RearrangedTwice
  <1> DEFINE m == lo + (b - a)
             k == hi - (d - b)
  <1>11. lo <= m /\ m <= b /\ b <= k /\ k <= hi /\ m \in Nat /\ k \in Nat
    BY <1>1
  <1> HIDE DEF m, k
  <1>12. ASSUME NEW x \in lo..(m - 1) PROVE V(u, x) < v
    <2>1. x \in 0..(b - 1)
      BY <1>11
    <2> QED
      BY <1>8, <1>9, <2>1 DEF m
  <1>13. ASSUME NEW x \in m..(k - 1) PROVE V(u, x) = v
    <2>1. CASE x < b
      <3>1. x \in 0..(b - 1) /\ x \in m..(b - 1)
        BY <1>11, <2>1
      <3> QED
        BY <1>8, <1>9, <3>1 DEF m
    <2>2. CASE x >= b
      <3>1. x \in b..(k - 1)
        BY <1>11, <2>2
      <3> QED
        BY <1>9, <3>1 DEF k
    <2> QED
      BY <1>11, <2>1, <2>2
  <1>14. ASSUME NEW x \in k..(hi - 1) PROVE V(u, x) > v
    BY <1>9 DEF k
  <1>15. m <= k
    BY <1>11
  <1>16. Three(u, lo, hi, m, k, v)
    BY <1>11, <1>12, <1>13, <1>14, <1>15 DEF Three
  <1> QED
    BY <1>4, <1>10, <1>16 DEF m, k, v

LEMMA ThreeCut ==
  ASSUME NEW s \in Seq(Elem), NEW g \in Segs, EndOf(g) <= Len(s), NEW v \in Nat,
         NEW l \in Nat, NEW h \in Nat, Three(s, g.base, EndOf(g), l, h, v),
         NEW b \in Nat, l <= b, b <= h
  PROVE  CutWithin(s, b, g)
  <1> DEFINE lo == g.base
             hi == EndOf(g)
  <1>1. lo \in Nat /\ hi \in Nat /\ hi <= Len(s) /\ Len(s) \in Nat
    BY SegmentType
  <1>2. /\ \A x \in lo..(l - 1) : V(s, x) < v
        /\ \A x \in l..(h - 1) : V(s, x) = v
        /\ \A x \in h..(hi - 1) : V(s, x) > v
    BY DEF Three
  <1> SUFFICES ASSUME NEW x \in lo..(hi - 1), NEW y \in lo..(hi - 1), x < b, b <= y
               PROVE  V(s, x) <= V(s, y)
    BY DEF CutWithin
  <1> HIDE DEF lo, hi
  <1>3. V(s, x) \in Nat /\ V(s, y) \in Nat
    <2>1. x \in 0..(Len(s) - 1) /\ y \in 0..(Len(s) - 1)
      BY <1>1
    <2> QED
      BY <2>1, Keys
  <1>4. V(s, x) <= v
    <2>1. x \in lo..(l - 1) \/ x \in l..(h - 1)
      BY <1>1
    <2> QED
      BY <1>2, <1>3, <2>1
  <1>5. v <= V(s, y)
    <2>1. y \in l..(h - 1) \/ y \in h..(hi - 1)
      BY <1>1
    <2> QED
      BY <1>2, <1>3, <2>1
  <1> QED
    BY <1>3, <1>4, <1>5

--------------------------------------------------------------------------------
(***************************************************************************)
(* Insertion.                                                              *)
(***************************************************************************)
LEMMA InsertSwap ==
  ASSUME NEW s \in Seq(Elem), NEW t \in Seq(Elem), NEW lo \in Nat, NEW hi \in Nat, hi <= Len(s),
         NEW i \in Nat, NEW j \in Nat, Inserting(s, lo, hi, i, j),
         i < hi, lo < j, V(s, j - 1) > V(s, j), SwappedAt(s, t, j, j - 1)
  PROVE  Inserting(t, lo, hi, i, j - 1)
  <1>1. lo <= j - 1 /\ j <= i /\ lo < i /\ i < hi /\ hi <= Len(s) /\ Len(s) \in Nat
    BY DEF Inserting
  <1>2. \A x, y \in lo..(hi - 1) : x < y /\ y <= i /\ y # j => V(s, x) <= V(s, y)
    BY DEF Inserting
  <1>3. V(t, j) = V(s, j - 1) /\ V(t, j - 1) = V(s, j)
    BY DEF SwappedAt
  <1>4. \A x \in lo..(hi - 1) : x # j /\ x # j - 1 => V(t, x) = V(s, x)
    <2>1. \A x \in lo..(hi - 1) : x \in 0..(Len(s) - 1)
      BY <1>1
    <2> QED
      BY <2>1 DEF SwappedAt
  <1>5. V(s, j) \in Nat /\ V(s, j - 1) \in Nat /\ j \in lo..(hi - 1) /\ j - 1 \in lo..(hi - 1)
    <2>1. j \in 0..(Len(s) - 1) /\ j - 1 \in 0..(Len(s) - 1)
      BY <1>1
    <2> QED
      BY <1>1, <2>1, Keys
  <1>6. ASSUME NEW x \in lo..(hi - 1), NEW y \in lo..(hi - 1), x < y, y <= i, y # j - 1
        PROVE  V(t, x) <= V(t, y)
    <2>1. CASE y = j
      <3>1. x = j - 1 \/ (x < j - 1 /\ x # j)
        BY <1>1, <1>6, <2>1
      <3>2. CASE x = j - 1
        BY <1>3, <1>5, <2>1, <3>2
      <3>3. CASE x < j - 1 /\ x # j
        <4>1. V(t, x) = V(s, x) /\ V(s, x) <= V(s, j - 1)
          BY <1>1, <1>2, <1>4, <1>5, <3>3
        <4> QED
          BY <1>3, <2>1, <4>1
      <3> QED
        BY <3>1, <3>2, <3>3
    <2>2. CASE y # j
      <3>1. V(t, y) = V(s, y)
        BY <1>4, <1>6, <2>2
      <3>2. CASE x = j
        <4>1. V(s, j - 1) <= V(s, y)
          BY <1>1, <1>2, <1>5, <1>6, <2>2, <3>2
        <4> QED
          BY <1>3, <3>1, <3>2, <4>1
      <3>3. CASE x = j - 1
        <4>1. V(s, j) <= V(s, y)
          BY <1>1, <1>2, <1>5, <1>6, <2>2, <3>3
        <4> QED
          BY <1>3, <3>1, <3>3, <4>1
      <3>4. CASE x # j /\ x # j - 1
        BY <1>2, <1>4, <1>6, <2>2, <3>1, <3>4
      <3> QED
        BY <3>2, <3>3, <3>4
    <2> QED
      BY <2>1, <2>2
  <1>7. j - 1 <= i /\ ~(i >= hi)
    BY <1>1
  <1> QED
    BY <1>1, <1>6, <1>7 DEF Inserting

LEMMA InsertNext ==
  ASSUME NEW s \in Seq(Elem), NEW lo \in Nat, NEW hi \in Nat, hi <= Len(s),
         NEW i \in Nat, NEW j \in Nat, Inserting(s, lo, hi, i, j),
         i < hi, j = lo \/ ~(V(s, j - 1) > V(s, j))
  PROVE  Inserting(s, lo, hi, i + 1, i + 1)
  <1>1. lo <= j /\ j <= i /\ lo < i /\ i < hi /\ hi <= Len(s) /\ Len(s) \in Nat
    BY DEF Inserting
  <1>2. \A x, y \in lo..(hi - 1) : x < y /\ y <= i /\ y # j => V(s, x) <= V(s, y)
    BY DEF Inserting
  <1>3. ASSUME NEW x \in lo..(hi - 1), NEW y \in lo..(hi - 1), x < y, y <= i + 1, y # i + 1
        PROVE  V(s, x) <= V(s, y)
    <2>1. y <= i
      BY <1>3
    <2>2. CASE y # j
      BY <1>2, <1>3, <2>1, <2>2
    <2>3. CASE y = j
      <3>1. x \in 0..(Len(s) - 1) /\ j \in 0..(Len(s) - 1) /\ j - 1 \in 0..(Len(s) - 1)
            /\ j - 1 \in lo..(hi - 1) /\ lo < j
        BY <1>1, <1>3, <2>3
      <3>2. V(s, x) \in Nat /\ V(s, j) \in Nat /\ V(s, j - 1) \in Nat
        BY <3>1, Keys
      <3>3. V(s, j - 1) <= V(s, j)
        BY <3>1, <3>2
      <3>4. V(s, x) <= V(s, j - 1)
        <4>1. CASE x = j - 1
          BY <3>2, <4>1
        <4>2. CASE x < j - 1
          <5>1. j - 1 <= i /\ j - 1 # j
            BY <1>1
          <5> QED
            BY <1>2, <3>1, <4>2, <5>1
        <4> QED
          BY <1>3, <2>3, <4>1, <4>2
      <3> QED
        BY <2>3, <3>2, <3>3, <3>4
    <2> QED
      BY <2>2, <2>3
  <1>4. lo <= i + 1 /\ lo < i + 1 /\ i + 1 <= i + 1
    BY <1>1
  <1> QED
    BY <1>3, <1>4 DEF Inserting

--------------------------------------------------------------------------------
(***************************************************************************)
(* The heap.                                                               *)
(***************************************************************************)
LEMMA Smallest ==
  ASSUME NEW S, S \subseteq Nat, S # {}
  PROVE  \E p \in S : \A n \in S : p <= n
  <1> DEFINE R == {ss \in Nat \X Nat : ss[1] < ss[2]}
  <1>1. IsWellFoundedOn(R, Nat)
    BY NatLessThanWellFounded DEF OpToRel
  <1>2. PICK p \in S : \A n \in S : ~(<<n, p>> \in R)
    <2> HIDE DEF R
    <2> QED
      BY <1>1, WFMin
  <1>3. \A n \in S : ~(n < p)
    BY <1>2
  <1> QED
    BY <1>3

\* The top of a heap is its greatest element.
LEMMA HeapTop ==
  ASSUME NEW s \in Seq(Elem), NEW base \in Nat, NEW n \in Nat, base + n <= Len(s),
         HeapFrom(s, base, 0, n)
  PROVE  \A k \in 0..(n - 1) : V(s, base + k) <= V(s, base)
  <1> DEFINE S == {k \in 0..(n - 1) : ~(V(s, base + k) <= V(s, base))}
  <1>1. \A k \in 0..(n - 1) : V(s, base + k) \in Nat
    <2> TAKE k \in 0..(n - 1)
    <2>1. base + k \in 0..(Len(s) - 1)
      OBVIOUS
    <2> QED
      BY <2>1, Keys
  <1> SUFFICES ASSUME S # {} PROVE FALSE
    OBVIOUS
  <1>2. PICK k \in S : \A c \in S : k <= c
    <2>1. S \subseteq Nat
      OBVIOUS
    <2> HIDE DEF S
    <2> QED
      BY <2>1, Smallest
  <1>3. k \in 0..(n - 1) /\ ~(V(s, base + k) <= V(s, base))
    BY <1>2
  <1>4. base + 0 = base /\ 0 \in 0..(n - 1)
    BY <1>3
  <1>5. V(s, base) \in Nat
    BY <1>1, <1>4
  <1>6. k # 0
    BY <1>3, <1>4, <1>5
  <1>7. PICK m \in 0..(n - 1) : m < k /\ Below(k, m)
    <2> DEFINE j == k - 1
               m == j \div 2
    <2>1. j \in Nat /\ k = j + 1
      BY <1>3, <1>6
    <2> HIDE DEF j
    <2>2. m \in Nat /\ (k = 2 * m + 1 \/ k = 2 * m + 2)
      <3>1. m \in Nat /\ (j % 2 = 0 \/ j % 2 = 1)
        BY <2>1
      <3>2. CASE j % 2 = 0
        BY <2>1, <3>1, <3>2
      <3>3. CASE j % 2 = 1
        BY <2>1, <3>1, <3>3
      <3> QED
        BY <3>1, <3>2, <3>3
    <2> HIDE DEF m
    <2>3. m \in 0..(n - 1) /\ m < k
      BY <1>3, <2>2
    <2> QED
      BY <2>2, <2>3 DEF Below
  <1>8. V(s, base + k) <= V(s, base + m)
    BY <1>3, <1>7 DEF HeapFrom
  <1>9. V(s, base + m) <= V(s, base)
    <2>1. m \notin S
      BY <1>2, <1>7
    <2> QED
      BY <2>1
  <1>10. V(s, base + k) \in Nat /\ V(s, base + m) \in Nat
    BY <1>1, <1>3, <1>7
  <1> HIDE DEF S
  <1> QED
    BY <1>3, <1>5, <1>8, <1>9, <1>10

\* The element at q changes places with the greater of those below it.
LEMMA SiftDown ==
  ASSUME NEW s \in Seq(Elem), NEW t \in Seq(Elem), NEW base \in Nat, NEW n \in Nat, base + n <= Len(s),
         NEW m \in Nat, NEW q \in Nat, HeapBut(s, base, m, n, q),
         NEW c \in m..(n - 1), Below(c, q),
         \A k \in m..(n - 1) : Below(k, q) => V(s, base + k) <= V(s, base + c),
         V(s, base + q) <= V(s, base + c), SwappedAt(s, t, base + q, base + c)
  PROVE  HeapBut(t, base, m, n, c)
  <1>1. /\ q \in m..(n - 1) /\ q < c
        /\ \A k, d \in m..(n - 1) : Below(d, k) /\ k # q => V(s, base + d) <= V(s, base + k)
        /\ \A k, d \in m..(n - 1) : Below(q, k) /\ Below(d, q) => V(s, base + d) <= V(s, base + k)
    <2>1. q \in m..(n - 1)
      BY DEF HeapBut
    <2>2. q < c
      BY DEF Below
    <2> QED
      BY <2>1, <2>2 DEF HeapBut
  <1>2. /\ V(t, base + q) = V(s, base + c) /\ V(t, base + c) = V(s, base + q)
        /\ \A k \in m..(n - 1) : k # q /\ k # c => V(t, base + k) = V(s, base + k)
    <2>1. ASSUME NEW k \in m..(n - 1), k # q, k # c
          PROVE  base + k \in 0..(Len(s) - 1) /\ base + k # base + q /\ base + k # base + c
      BY <1>1, <2>1
    <2> QED
      BY <2>1 DEF SwappedAt
  <1>3. \A k, d \in m..(n - 1) : Below(d, k) => k < d
    BY DEF Below
  <1>4. \A k \in m..(n - 1) : Below(c, k) => k = q
    BY <1>1 DEF Below
  <1>5. ASSUME NEW k \in m..(n - 1), NEW d \in m..(n - 1), Below(d, k), k # c
        PROVE  V(t, base + d) <= V(t, base + k)
    <2>1. CASE k = q
      <3>1. CASE d = c
        BY <1>2, <2>1, <3>1
      <3>2. CASE d # c
        <4>1. d # q
          BY <1>1, <1>3, <1>5, <2>1
        <4>2. V(s, base + d) <= V(s, base + c)
          BY <1>5, <2>1
        <4> QED
          BY <1>2, <2>1, <3>2, <4>1, <4>2
      <3> QED
        BY <3>1, <3>2
    <2>2. CASE k # q
      <3>1. d # c
        BY <1>4, <1>5, <2>2
      <3>2. V(t, base + k) = V(s, base + k)
        BY <1>2, <1>5, <2>2
      <3>3. CASE d = q
        <4>1. V(s, base + c) <= V(s, base + k)
          BY <1>1, <1>5, <3>3
        <4> QED
          BY <1>2, <3>2, <3>3, <4>1
      <3>4. CASE d # q
        <4>1. V(s, base + d) <= V(s, base + k)
          BY <1>1, <1>5, <2>2
        <4> QED
          BY <1>2, <3>1, <3>2, <3>4, <4>1
      <3> QED
        BY <3>3, <3>4
    <2> QED
      BY <2>1, <2>2
  <1>6. ASSUME NEW k \in m..(n - 1), NEW d \in m..(n - 1), Below(c, k), Below(d, c)
        PROVE  V(t, base + d) <= V(t, base + k)
    <2>1. k = q
      BY <1>4, <1>6
    <2>2. d # c /\ d # q
      BY <1>1, <1>3, <1>6
    <2>3. V(s, base + d) <= V(s, base + c)
      BY <1>1, <1>6
    <2> QED
      BY <1>2, <2>1, <2>2, <2>3
  <1> QED
    BY <1>5, <1>6 DEF HeapBut

LEMMA SiftDone ==
  ASSUME NEW s, NEW base, NEW m, NEW n, NEW q, HeapBut(s, base, m, n, q),
         \A c \in m..(n - 1) : Below(c, q) => V(s, base + c) <= V(s, base + q)
  PROVE  HeapFrom(s, base, m, n)
  BY DEF HeapBut, HeapFrom

\* The heap from m on, and the element before it, which may be too small.
LEMMA HeapGrows ==
  ASSUME NEW s, NEW base \in Nat, NEW m \in Nat, NEW n \in Nat, m > 0, m <= n, HeapFrom(s, base, m, n)
  PROVE  HeapBut(s, base, m - 1, n, m - 1)
  <1>1. m - 1 \in (m - 1)..(n - 1)
    OBVIOUS
  <1>2. ASSUME NEW k \in (m - 1)..(n - 1), NEW c \in (m - 1)..(n - 1), Below(c, k), k # m - 1
        PROVE  V(s, base + c) <= V(s, base + k)
    <2>1. k \in m..(n - 1) /\ c \in m..(n - 1)
      BY <1>2 DEF Below
    <2> QED
      BY <1>2, <2>1 DEF HeapFrom
  <1>3. ASSUME NEW k \in (m - 1)..(n - 1) PROVE ~Below(m - 1, k)
    BY DEF Below
  <1> QED
    BY <1>1, <1>2, <1>3 DEF HeapBut

\* The top of the heap goes to the end, and what was there to the top.
LEMMA TopToEnd ==
  ASSUME NEW s \in Seq(Elem), NEW t \in Seq(Elem), NEW base \in Nat, NEW n \in Nat, base + n <= Len(s),
         NEW i \in Nat, i > 0, i + 1 <= n, HeapFrom(s, base, 0, i + 1), TailSorted(s, base, i + 1, n),
         SwappedAt(s, t, base, base + i)
  PROVE  HeapBut(t, base, 0, i, 0) /\ TailSorted(t, base, i, n)
  <1>1. /\ V(t, base) = V(s, base + i) /\ V(t, base + i) = V(s, base)
        /\ \A k \in 0..(n - 1) : k # 0 /\ k # i => V(t, base + k) = V(s, base + k)
    <2>1. ASSUME NEW k \in 0..(n - 1), k # 0, k # i
          PROVE  base + k \in 0..(Len(s) - 1) /\ base + k # base /\ base + k # base + i
      BY <2>1
    <2> QED
      BY <2>1 DEF SwappedAt
  <1>2. base + 0 = base
    OBVIOUS
  <1>3. \A k \in 0..i : V(s, base + k) <= V(s, base)
    <2> DEFINE j == i + 1
    <2>1. j \in Nat /\ base + j <= Len(s) /\ HeapFrom(s, base, 0, j) /\ j - 1 = i
      OBVIOUS
    <2> HIDE DEF j
    <2>2. \A k \in 0..(j - 1) : V(s, base + k) <= V(s, base)
      BY <2>1, HeapTop
    <2> QED
      BY <2>1, <2>2
  <1>4. \A k, c \in 0..i : Below(c, k) => V(s, base + c) <= V(s, base + k)
    <2>1. i + 1 - 1 = i
      OBVIOUS
    <2> QED
      BY <2>1 DEF HeapFrom
  <1>5. HeapBut(t, base, 0, i, 0)
    <2>1. ASSUME NEW k \in 0..(i - 1), NEW c \in 0..(i - 1), Below(c, k), k # 0
          PROVE  V(t, base + c) <= V(t, base + k)
      <3>1. /\ c # 0 /\ c # i /\ k # i /\ k \in 0..i /\ c \in 0..i
            /\ k \in 0..(n - 1) /\ c \in 0..(n - 1)
        BY <2>1 DEF Below
      <3> QED
        BY <1>1, <1>4, <2>1, <3>1
    <2>2. ASSUME NEW k \in 0..(i - 1) PROVE ~Below(0, k)
      BY DEF Below
    <2>3. 0 \in 0..(i - 1)
      OBVIOUS
    <2> QED
      BY <2>1, <2>2, <2>3 DEF HeapBut
  <1>6. ASSUME NEW x \in 0..(n - 1), NEW y \in 0..(n - 1), x < y, i <= y
        PROVE  V(t, base + x) <= V(t, base + y)
    <2>1. CASE y = i
      <3>1. CASE x = 0
        <4>1. i \in 0..i
          OBVIOUS
        <4> QED
          BY <1>1, <1>2, <1>3, <2>1, <3>1, <4>1
      <3>2. CASE x # 0
        <4>1. x \in 0..i /\ x # i
          BY <1>6, <2>1
        <4> QED
          BY <1>1, <1>3, <2>1, <3>2, <4>1
      <3> QED
        BY <3>1, <3>2
    <2>2. CASE y # i
      <3>1. i + 1 <= y /\ y # 0
        BY <1>6, <2>2
      <3>2. V(t, base + y) = V(s, base + y)
        BY <1>1, <2>2, <3>1
      <3>3. PICK z \in 0..(n - 1) : z < y /\ V(t, base + x) = V(s, base + z)
        <4>1. CASE x = 0
          <5>1. i \in 0..(n - 1) /\ i < y
            BY <3>1
          <5> QED
            BY <1>1, <1>2, <4>1, <5>1
        <4>2. CASE x = i
          <5>1. 0 \in 0..(n - 1) /\ 0 < y
            BY <3>1
          <5> QED
            BY <1>1, <1>2, <4>2, <5>1
        <4>3. CASE x # 0 /\ x # i
          BY <1>1, <1>6, <4>3
        <4> QED
          BY <4>1, <4>2, <4>3
      <3>4. V(s, base + z) <= V(s, base + y)
        BY <3>1, <3>3 DEF TailSorted
      <3> QED
        BY <3>2, <3>3, <3>4
    <2> QED
      BY <2>1, <2>2
  <1> QED
    BY <1>5, <1>6 DEF TailSorted

\* Elements before m that change places do not matter to what is from m on.
LEMMA TailKept ==
  ASSUME NEW s \in Seq(Elem), NEW t \in Seq(Elem), NEW base \in Nat, NEW n \in Nat, base + n <= Len(s),
         NEW m \in Nat, m <= n, TailSorted(s, base, m, n),
         NEW p \in 0..(m - 1), NEW q \in 0..(m - 1), SwappedAt(s, t, base + p, base + q)
  PROVE  TailSorted(t, base, m, n)
  <1>1. /\ V(t, base + p) = V(s, base + q) /\ V(t, base + q) = V(s, base + p)
        /\ \A k \in 0..(n - 1) : k # p /\ k # q => V(t, base + k) = V(s, base + k)
    <2>1. ASSUME NEW k \in 0..(n - 1), k # p, k # q
          PROVE  base + k \in 0..(Len(s) - 1) /\ base + k # base + p /\ base + k # base + q
      BY <2>1
    <2> QED
      BY <2>1 DEF SwappedAt
  <1>2. ASSUME NEW x \in 0..(n - 1), NEW y \in 0..(n - 1), x < y, m <= y
        PROVE  V(t, base + x) <= V(t, base + y)
    <2>1. y # p /\ y # q
      BY <1>2
    <2>2. PICK z \in 0..(n - 1) : z < y /\ V(t, base + x) = V(s, base + z)
      <3>1. p < y /\ q < y /\ p \in 0..(n - 1) /\ q \in 0..(n - 1)
        BY <1>2
      <3> QED
        BY <1>1, <1>2, <3>1
    <2>3. V(s, base + z) <= V(s, base + y)
      BY <1>2, <2>2 DEF TailSorted
    <2> QED
      BY <1>1, <2>1, <2>2, <2>3
  <1> QED
    BY <1>2 DEF TailSorted

--------------------------------------------------------------------------------
(***************************************************************************)
(* What a step inside of the segment at hand leaves as it is.              *)
(***************************************************************************)
Working == spc \notin {"pop", "sorted"}

LEMMA HereFacts ==
  ASSUME SortTypeOK, Whole, Working
  PROVE  /\ Here \in Segs /\ Here.base = ptr /\ Here.count = nmemb /\ EndOf(Here) = ptr + nmemb
         /\ ptr + nmemb <= Len(arr) /\ Len(arr) \in Nat
         /\ Pend = Append(stack, Here)
         /\ Laid(Len(arr), Append(stack, Here)) /\ Cuts(arr, Append(stack, Here)) /\ SameElements
  <1>1. Here \in Segs /\ Here.base = ptr /\ Here.count = nmemb /\ EndOf(Here) = ptr + nmemb
    BY DEF SortTypeOK, Here, Segment, Segs, EndOf
  <1>2. Pend = Append(stack, Here)
    BY DEF Pend, Working
  <1>3. Len(arr) \in Nat
    BY DEF SortTypeOK
  <1>4. Laid(Len(arr), Append(stack, Here)) /\ Cuts(arr, Append(stack, Here)) /\ SameElements
    BY <1>2 DEF Whole
  <1>5. EndOf(Here) <= Len(arr)
    BY <1>3, <1>4, LaidFront DEF SortTypeOK
  <1> QED
    BY <1>1, <1>2, <1>3, <1>4, <1>5

LEMMA CutsInside ==
  ASSUME SortTypeOK, Whole, Working, NEW hi, hi = ptr + nmemb, NEW t, Rearranged(arr, t, ptr, hi)
  PROVE  /\ Cuts(t, Append(stack, Here)) /\ Laid(Len(t), Append(stack, Here))
         /\ \A e : Count(t, e) = Count(unsorted, e)
  <1> DEFINE all == Append(stack, Here)
             k == Len(stack) + 1
  <1>1. /\ Here \in Segs /\ Here.base = ptr /\ EndOf(Here) = hi
        /\ Laid(Len(arr), all) /\ Cuts(arr, all) /\ SameElements
    BY HereFacts
  <1>2. k \in 1..Len(all) /\ all[k] = Here
    BY <1>1 DEF SortTypeOK
  <1>3. arr \in Seq(Elem)
    BY DEF SortTypeOK
  <1> HIDE DEF all, k
  <1>4. Cuts(t, all)
    <2>1. Rearranged(arr, t, all[k].base, EndOf(all[k]))
      BY <1>1, <1>2
    <2> QED
      BY <1>1, <1>2, <1>3, <2>1, CutsKept
  <1>5. Len(t) = Len(arr) /\ \A e : Count(t, e) = Count(arr, e)
    BY DEF Rearranged
  <1> QED
    BY <1>1, <1>4, <1>5 DEF SameElements, all

LEMMA WholeInside ==
  ASSUME SortTypeOK, Whole, Working, Working', Rearranged(arr, arr', ptr, ptr + nmemb),
         stack' = stack, ptr' = ptr, nmemb' = nmemb, unsorted' = unsorted
  PROVE  Whole'
  <1> DEFINE all == Append(stack, Here)
             t == arr'
             hi == ptr + nmemb
  <1>1. Pend' = all
    BY DEF Pend, Working, Here
  <1>2. hi = ptr + nmemb /\ Rearranged(arr, t, ptr, hi)
    OBVIOUS
  <1> HIDE DEF t, hi
  <1>3. Cuts(t, all) /\ Laid(Len(t), all) /\ \A e : Count(t, e) = Count(unsorted, e)
    BY <1>2, CutsInside
  <1>4. SameElements'
    BY <1>3 DEF SameElements, t
  <1> QED
    BY <1>1, <1>3, <1>4 DEF Whole, t

LEMMA WholeSame ==
  ASSUME Whole, Working, Working',
         arr' = arr, stack' = stack, ptr' = ptr, nmemb' = nmemb, unsorted' = unsorted
  PROVE  Whole'
  <1>1. Pend' = Pend
    BY DEF Pend, Working, Here
  <1>2. SameElements' = SameElements
    BY DEF SameElements
  <1> QED
    BY <1>1, <1>2 DEF Whole

\* Two elements of the segment change places.
LEMMA SwapInside ==
  ASSUME SortTypeOK, Whole, Working, NEW hi, hi = ptr + nmemb,
         NEW p \in ptr..(hi - 1), NEW q \in ptr..(hi - 1), arr' = Swapped(arr, p, q)
  PROVE  Rearranged(arr, arr', ptr, hi) /\ SwappedAt(arr, arr', p, q) /\ arr' \in Seq(Elem)
  <1>1. hi <= Len(arr) /\ ptr \in Nat /\ hi \in Nat /\ arr \in Seq(Elem)
    BY HereFacts DEF SortTypeOK
  <1>2. /\ Rearranged(arr, Swapped(arr, p, q), ptr, hi)
        /\ SwappedAt(arr, Swapped(arr, p, q), p, q)
    BY <1>1, SwapRearranges
  <1>3. Rearranged(arr, arr', ptr, hi) /\ SwappedAt(arr, arr', p, q)
    BY <1>2
  <1> QED
    BY <1>3 DEF Rearranged

\* The depths on the stack stay as they are.
LEMMA DepthSame ==
  ASSUME SortTypeOK, DepthBounds, Working, stack' = stack, depth' = depth \/ depth' = depth + 1,
         spc' \in {"up", "down", "gather"} => Len(stack) < depth' /\ depth' <= MaxDepth
  PROVE  DepthBounds'
  <1>1. /\ Len(stack) \in Nat /\ depth \in Nat /\ Len(stack) <= depth
        /\ \A k \in 1..Len(stack) : k <= stack[k].depth /\ stack[k].depth <= MaxDepth
    BY DEF SortTypeOK, DepthBounds, Working
  <1>2. Len(stack) <= depth'
    BY <1>1
  <1> QED
    BY <1>1, <1>2 DEF DepthBounds

\* What the elements of the segment are from now on cuts.
LEMMA SegmentDone ==
  ASSUME SortTypeOK, Whole, Working, NEW segs, Len(segs) \in Nat, Len(stack) <= Len(segs),
         \A k \in 1..Len(stack) : segs[k] = stack[k],
         \A x, y \in ptr..(ptr + nmemb - 1) : x < y => V(arr, x) <= V(arr, y)
  PROVE  Cuts(arr, segs)
  <1>1. /\ Here \in Segs /\ Here.base = ptr /\ EndOf(Here) = ptr + nmemb
        /\ ptr + nmemb <= Len(arr) /\ Len(arr) \in Nat
        /\ Laid(Len(arr), Append(stack, Here)) /\ Cuts(arr, Append(stack, Here))
    BY HereFacts
  <1>2. \A b \in 0..Len(arr) : CutWithin(arr, b, Here)
    <2> TAKE b \in 0..Len(arr)
    <2>1. Here.base..(EndOf(Here) - 1) = ptr..(ptr + nmemb - 1)
      BY <1>1 DEF SortTypeOK
    <2>2. ASSUME NEW x \in ptr..(ptr + nmemb - 1), NEW y \in ptr..(ptr + nmemb - 1), x < b, b <= y
          PROVE  V(arr, x) <= V(arr, y)
      <3>1. x < y
        BY <1>1, <2>2 DEF SortTypeOK
      <3> QED
        BY <3>1
    <2> QED
      BY <2>1, <2>2 DEF CutWithin
  <1>3. arr \in Seq(Elem) /\ stack \in Seq(Segs)
    BY DEF SortTypeOK
  <1> QED
    BY <1>1, <1>2, <1>3, CutsMade

--------------------------------------------------------------------------------
(***************************************************************************)
(* The steps.                                                              *)
(***************************************************************************)
LEMMA AtIs == \A p : At(p) = V(arr, p)
  BY DEF At, V

\* rqsort has just been called with some elements.
Called ==
  /\ arr \in Seq(Elem) /\ unsorted = arr
  /\ IF Len(arr) < 2
       THEN stack = <<>> /\ spc = "sorted"
       ELSE stack = <<Segment(0, Len(arr), 0)>> /\ spc = "pop"
  /\ ptr \in Nat /\ nmemb \in Nat /\ depth \in Nat
  /\ plt \in Nat /\ pi \in Nat /\ pj \in Nat /\ pgt \in Nat /\ r \in Nat

LEMMA CalledInv == Called => SortInv
  <1> SUFFICES ASSUME Called PROVE SortInv
    OBVIOUS
  <1>1. /\ arr \in Seq(Elem) /\ unsorted = arr
        /\ IF Len(arr) < 2
             THEN stack = <<>> /\ spc = "sorted"
             ELSE stack = <<Segment(0, Len(arr), 0)>> /\ spc = "pop"
        /\ ptr \in Nat /\ nmemb \in Nat /\ depth \in Nat
        /\ plt \in Nat /\ pi \in Nat /\ pj \in Nat /\ pgt \in Nat /\ r \in Nat
    BY DEF Called
  <1>2. arr \in Seq(Elem) /\ unsorted = arr /\ Len(arr) \in Nat
    BY <1>1 DEF Elem
  <1>3. SameElements
    BY <1>2 DEF SameElements
  <1>4. CASE Len(arr) < 2
    <2>1. stack = <<>> /\ spc = "sorted" /\ Len(stack) = 0 /\ stack \in Seq(Segs)
      BY <1>1, <1>4
    <2>2. SortTypeOK
      BY <1>1, <1>2, <2>1 DEF SortTypeOK, Phases
    <2>3. Laid(Len(arr), Pend)
      BY <2>1 DEF Pend, Laid
    <2>4. Cuts(arr, Pend)
      <3>1. \A b, x, y \in 0..Len(arr) : ~(x < b /\ b <= y /\ y < Len(arr))
        BY <1>2, <1>4
      <3>2. ASSUME NEW b \in 0..Len(arr), NEW x \in 0..(Len(arr) - 1), NEW y \in 0..(Len(arr) - 1), x < b, b <= y
            PROVE  FALSE
        BY <1>2, <3>1, <3>2
      <3> QED
        BY <3>2 DEF Cuts, Cut
    <2>5. DepthBounds
      BY <2>1 DEF DepthBounds
    <2>6. PhaseInv
      BY <2>1 DEF PhaseInv
    <2> QED
      BY <1>3, <2>2, <2>3, <2>4, <2>5, <2>6 DEF SortInv, Whole
  <1>5. CASE ~(Len(arr) < 2)
    <2> DEFINE g == Segment(0, Len(arr), 0)
    <2>1. stack = <<g>> /\ spc = "pop"
      BY <1>1, <1>5
    <2>2. g \in Segs /\ g.base = 0 /\ EndOf(g) = Len(arr)
      BY <1>2 DEF Segment, Segs, EndOf
    <2> HIDE DEF g
    <2>3. stack \in Seq(Segs) /\ Len(stack) = 1 /\ stack[1] = g /\ Pend = stack
      BY <2>1, <2>2 DEF Pend
    <2>4. SortTypeOK
      BY <1>1, <1>2, <2>1, <2>3 DEF SortTypeOK, Phases
    <2>5. Laid(Len(arr), Pend)
      <3>0. Len(Pend) = 1 /\ Pend[1] = g
        BY <2>3
      <3>1. \A k \in 1..Len(Pend) : Pend[k] = g
        BY <3>0
      <3>2. \A k \in 1..Len(Pend) : EndOf(Pend[k]) <= Len(arr)
        BY <1>2, <2>2, <3>1
      <3>3. \A k, j \in 1..Len(Pend) : ~(k < j)
        BY <3>0
      <3>4. Pend \in Seq(Segs)
        BY <2>3
      <3> QED
        BY <3>2, <3>3, <3>4 DEF Laid
    <2>6. Cuts(arr, Pend)
      <3>1. ASSUME NEW b \in 0..Len(arr), ~Strictly(b, g) PROVE Cut(arr, b)
        <4>1. b = 0 \/ b = Len(arr)
          BY <1>2, <2>2, <3>1 DEF Strictly
        <4>2. \A x, y \in 0..(Len(arr) - 1) : ~(x < b /\ b <= y)
          BY <1>2, <4>1
        <4> QED
          BY <4>2 DEF Cut
      <3>2. 1 \in 1..Len(Pend) /\ Pend[1] = g
        BY <2>3
      <3> QED
        BY <3>1, <3>2 DEF Cuts
    <2>7. DepthBounds
      BY <2>1, <2>3 DEF DepthBounds
    <2>8. PhaseInv
      BY <2>1 DEF PhaseInv
    <2> QED
      BY <1>3, <2>4, <2>5, <2>6, <2>7, <2>8 DEF SortInv, Whole
  <1> QED
    BY <1>4, <1>5

LEMMA SortInit_Inv == SortInit => SortInv
  <1> SUFFICES ASSUME SortInit PROVE Called
    BY CalledInv
  <1>1. PICK s \in Arrays :
          /\ arr = s /\ unsorted = s
          /\ IF Len(s) < 2
               THEN stack = <<>> /\ spc = "sorted"
               ELSE stack = <<Segment(0, Len(s), 0)>> /\ spc = "pop"
          /\ ptr = 0 /\ nmemb = 0 /\ depth = 0
          /\ plt = 0 /\ pi = 0 /\ pj = 0 /\ pgt = 0 /\ r = 0
    BY DEF SortInit
  <1>2. arr \in Seq(Elem) /\ unsorted = arr
    BY <1>1, SortAssumption DEF Elem
  <1> QED
    BY <1>1, <1>2 DEF Called

LEMMA FrontFacts ==
  ASSUME NEW S, NEW s \in Seq(S), NEW t, t = SubSeq(s, 1, Len(s) - 1), Len(s) >= 1
  PROVE  t \in Seq(S) /\ Len(t) = Len(s) - 1 /\ \A k \in 1..(Len(s) - 1) : t[k] = s[k]
  <1>1. Len(s) \in Nat /\ \A k \in 1..(Len(s) - 1) : s[k] \in S
    OBVIOUS
  <1> DEFINE m == Len(s) - 1
  <1>2. m \in Nat /\ \A k \in 1..m : 1 + k - 1 = k
    BY <1>1
  <1>3. t = SubSeq(s, 1, m) /\ \A k \in 1..m : s[k] \in S
    BY <1>1
  <1> HIDE DEF m
  <1>4. /\ t \in Seq(S) /\ Len(t) = IF 1 <= m THEN m - 1 + 1 ELSE 0
        /\ \A k \in 1..(m - 1 + 1) : t[k] = s[1 + k - 1]
    BY <1>2, <1>3, SubSeqProperties
  <1>5. Len(t) = m /\ m - 1 + 1 = m
    BY <1>2, <1>4
  <1> QED
    BY <1>2, <1>4, <1>5 DEF m

LEMMA PopStep ==
  ASSUME SortInv, Pop
  PROVE  SortInv'
  <1> USE DEF SortInv
  <1>1. /\ spc = "pop" /\ Pend = stack
        /\ arr' = arr /\ unsorted' = unsorted /\ plt' = plt /\ pi' = pi /\ pj' = pj /\ pgt' = pgt /\ r' = r
    BY DEF Pop, Pend
  <1>2. SameElements' /\ Laid(Len(arr), stack) /\ Cuts(arr, stack)
    BY <1>1 DEF Whole, SameElements
  <1>3. CASE stack = <<>>
    <2>1. spc' = "sorted" /\ stack' = stack /\ ptr' = ptr /\ nmemb' = nmemb /\ depth' = depth
      BY <1>3 DEF Pop
    <2>2. SortTypeOK'
      BY <1>1, <2>1 DEF SortTypeOK, Phases
    <2>3. Pend' = stack
      BY <2>1 DEF Pend
    <2>4. Whole'
      BY <1>1, <1>2, <2>3 DEF Whole
    <2>5. DepthBounds'
      BY <1>3, <2>1 DEF DepthBounds
    <2>6. PhaseInv'
      BY <1>3, <2>1 DEF PhaseInv
    <2> QED
      BY <2>2, <2>4, <2>5, <2>6
  <1>4. CASE stack # <<>>
    <2> DEFINE n == Len(stack)
               top == stack[n]
    <2>1. stack \in Seq(Segs) /\ n \in Nat /\ n >= 1 /\ top \in Segs
      BY <1>4 DEF SortTypeOK
    <2>2. /\ stack' = SubSeq(stack, 1, n - 1)
          /\ ptr' = top.base /\ nmemb' = top.count /\ depth' = top.depth /\ spc' = "loop"
      BY <1>4 DEF Pop
    <2>3. stack' \in Seq(Segs) /\ Len(stack') = n - 1 /\ \A k \in 1..(n - 1) : stack'[k] = stack[k]
      BY <2>1, <2>2, FrontFacts
    <2>4. SortTypeOK'
      <3>1. ptr' \in Nat /\ nmemb' \in Nat /\ depth' \in Nat
        BY <2>1, <2>2, SegmentType
      <3> QED
        BY <1>1, <2>2, <2>3, <3>1 DEF SortTypeOK, Phases
    <2> HIDE DEF n
    <2> DEFINE all == Append(stack', Here')
    <2>5. Here' \in Segs /\ Here'.base = top.base /\ Here'.count = top.count
      BY <2>1, <2>2, <2>4 DEF Here, Segment, Segs, SortTypeOK
    <2>6. /\ all \in Seq(Segs) /\ Len(all) = n /\ all[n] = Here'
          /\ \A k \in 1..(n - 1) : all[k] = stack[k]
      BY <2>1, <2>3, <2>5
    <2> HIDE DEF all
    <2>7. \A k \in 1..Len(stack) : all[k].base = stack[k].base /\ all[k].count = stack[k].count
      <3> TAKE k \in 1..Len(stack)
      <3>1. CASE k = n
        BY <2>5, <2>6, <3>1
      <3>2. CASE k # n
        <4>1. k \in 1..(n - 1)
          BY <2>1, <3>2 DEF n
        <4> QED
          BY <2>6, <4>1
      <3> QED
        BY <3>1, <3>2
    <2>8. Laid(Len(arr), all) /\ Cuts(arr, all)
      <3>1. Len(arr) \in Nat /\ Len(all) = Len(stack)
        BY <2>6 DEF SortTypeOK, n
      <3> QED
        BY <1>2, <2>1, <2>6, <2>7, <3>1, SameSpans
    <2>9. Pend' = all
      BY <2>2 DEF Pend, all
    <2>10. Whole'
      BY <1>1, <1>2, <2>8, <2>9 DEF Whole
    <2>11. DepthBounds'
      <3>1. spc' = "loop"
        BY <2>2
      <3>2. CASE n = 1
        BY <2>3, <2>4, <3>1, <3>2 DEF DepthBounds, SortTypeOK
      <3>3. CASE n # 1
        <4>1. \A k \in 1..n : k <= stack[k].depth /\ stack[k].depth <= MaxDepth
          BY <3>3 DEF DepthBounds, n
        <4>2. n <= depth' /\ n - 1 <= depth'
          BY <2>1, <2>2, <2>4, <4>1 DEF SortTypeOK
        <4>3. \A k \in 1..(n - 1) : k \in 1..n
          BY <2>1
        <4> QED
          BY <2>3, <3>1, <4>1, <4>2, <4>3 DEF DepthBounds
      <3> QED
        BY <3>2, <3>3
    <2>12. PhaseInv'
      BY <2>2 DEF PhaseInv
    <2> QED
      BY <2>4, <2>10, <2>11, <2>12
  <1> QED
    BY <1>3, <1>4

LEMMA Quarter ==
  ASSUME NEW n \in Nat, n >= 4
  PROVE  n \div 4 \in Nat /\ 3 * (n \div 4) < n
  OBVIOUS

LEMMA PartitionStep ==
  ASSUME SortInv, Partition
  PROVE  SortInv'
  <1> USE DEF SortInv
  <1> DEFINE m4 == nmemb \div 4
             q == Med3(ptr + m4, ptr + 2 * m4, ptr + 3 * m4)
             hi == ptr + nmemb
  <1>1. /\ spc = "loop" /\ nmemb > SmallSize /\ depth < MaxDepth
        /\ depth' = depth + 1 /\ arr' = Swapped(arr, ptr, q)
        /\ plt' = ptr + 1 /\ pi' = ptr + 1 /\ pj' = hi /\ pgt' = hi /\ spc' = "up"
        /\ unsorted' = unsorted /\ stack' = stack /\ ptr' = ptr /\ nmemb' = nmemb /\ r' = r
    BY DEF Partition
  <1>2. Working /\ Working' /\ ptr \in Nat /\ nmemb \in Nat /\ hi \in Nat /\ nmemb >= 4
    BY <1>1, SortAssumption DEF Working, SortTypeOK
  <1>3. m4 \in Nat /\ 3 * m4 < nmemb
    BY <1>2, Quarter
  <1> HIDE DEF m4
  <1>4. q \in {ptr + m4, ptr + 2 * m4, ptr + 3 * m4}
    BY DEF Med3
  <1>5. q \in ptr..(hi - 1) /\ ptr \in ptr..(hi - 1)
    BY <1>2, <1>3, <1>4
  <1> HIDE DEF q
  <1>6. Rearranged(arr, arr', ptr, hi) /\ arr' \in Seq(Elem)
    <2>1. hi = ptr + nmemb
      OBVIOUS
    <2> HIDE DEF hi
    <2> QED
      BY <1>1, <1>2, <1>5, <2>1, SwapInside
  <1>7. Whole'
    BY <1>1, <1>2, <1>6, WholeInside
  <1>8. SortTypeOK'
    BY <1>1, <1>2, <1>6 DEF SortTypeOK, Phases
  <1>9. DepthBounds'
    <2>1. Len(stack) <= depth /\ Len(stack) \in Nat /\ depth \in Nat
      BY <1>1 DEF DepthBounds, SortTypeOK
    <2>2. Len(stack) < depth' /\ depth' <= MaxDepth
      BY <1>1, <2>1, SortAssumption
    <2> QED
      BY <1>1, <1>2, <2>2, DepthSame
  <1>10. PhaseInv'
    <2>1. Parts(arr', ptr, hi, ptr + 1, ptr + 1, hi, hi)
      <3>1. ptr < ptr + 1 /\ ptr + 1 <= hi /\ ptr + 1 - 1 = ptr
        BY <1>2
      <3>2. \A x \in ptr..(ptr + 1 - 1) : V(arr', x) = V(arr', ptr)
        BY <1>2
      <3>3. \A x \in (ptr + 1)..(ptr + 1 - 1) : FALSE
        BY <1>2
      <3>4. \A x \in hi..(hi - 1) : FALSE
        BY <1>2
      <3> QED
        BY <1>2, <3>1, <3>2, <3>3, <3>4 DEF Parts
    <2> QED
      BY <1>1, <2>1 DEF PhaseInv
  <1> QED
    BY <1>7, <1>8, <1>9, <1>10

LEMMA UpStep ==
  ASSUME SortInv, Up
  PROVE  SortInv'
  <1> USE DEF SortInv
  <1> DEFINE hi == ptr + nmemb
  <1>1. /\ spc = "up" /\ unsorted' = unsorted /\ stack' = stack /\ ptr' = ptr /\ nmemb' = nmemb
        /\ depth' = depth /\ pj' = pj /\ pgt' = pgt /\ r' = r
    BY DEF Up
  <1>2. /\ spc' \in {"up", "down"} /\ Working /\ Working'
        /\ ptr \in Nat /\ hi \in Nat /\ plt \in Nat /\ pi \in Nat /\ pj \in Nat /\ pgt \in Nat
        /\ arr \in Seq(Elem) /\ Len(arr) \in Nat
    BY <1>1 DEF Up, Working, SortTypeOK
  <1>3. hi <= Len(arr)
    BY <1>2, HereFacts
  <1>4. Parts(arr, ptr, hi, plt, pi, pj, pgt)
    BY <1>1 DEF PhaseInv
  <1>h. hi = ptr + nmemb
    OBVIOUS
  <1> HIDE DEF hi
  <1>5. ptr < plt /\ plt <= pi /\ pi <= pj /\ pj <= pgt /\ pgt <= hi
    BY <1>2, <1>4, PartsType
  <1>6. DepthBounds'
    <2>1. Len(stack) < depth' /\ depth' <= MaxDepth
      BY <1>1, <1>2 DEF DepthBounds
    <2> QED
      BY <1>1, <1>2, <2>1, DepthSame
  <1>7. CASE pi < pj /\ V(arr, ptr) = V(arr, pi)
    <2>0. ptr \in 0..(Len(arr) - 1) /\ pi \in 0..(Len(arr) - 1)
      BY <1>2, <1>3, <1>5, <1>7
    <2>1. V(arr, ptr) \in Nat /\ V(arr, ptr) >= V(arr, pi)
      BY <1>2, <1>7, <2>0, Keys
    <2>2. arr' = Swapped(arr, plt, pi) /\ plt' = plt + 1 /\ pi' = pi + 1 /\ spc' = spc
      BY <1>7, <2>1, AtIs DEF Up
    <2>3. plt \in ptr..(hi - 1) /\ pi \in ptr..(hi - 1)
      BY <1>2, <1>5, <1>7
    <2>4. Rearranged(arr, arr', ptr, hi) /\ SwappedAt(arr, arr', plt, pi) /\ arr' \in Seq(Elem)
      BY <1>2, <2>2, <2>3, <1>h, SwapInside
    <2>5. Whole'
      BY <1>1, <1>2, <2>4, WholeInside DEF hi
    <2>6. SortTypeOK'
      BY <1>1, <1>2, <2>2, <2>4 DEF SortTypeOK, Phases
    <2>7. Parts(arr', ptr, hi, plt + 1, pi + 1, pj, pgt)
      BY <1>2, <1>3, <1>4, <1>7, <2>4, UpEqual
    <2>8. PhaseInv'
      BY <1>1, <2>2, <2>7 DEF PhaseInv, hi
    <2> QED
      BY <1>6, <2>5, <2>6, <2>8
  <1>8. CASE pi < pj /\ V(arr, ptr) >= V(arr, pi) /\ V(arr, ptr) # V(arr, pi)
    <2>1. arr' = arr /\ plt' = plt /\ pi' = pi + 1 /\ spc' = spc
      BY <1>8, AtIs DEF Up
    <2>2. Whole'
      BY <1>1, <1>2, <2>1, WholeSame
    <2>3. SortTypeOK'
      BY <1>1, <1>2, <2>1 DEF SortTypeOK
    <2>4. V(arr, pi) < V(arr, ptr)
      <3>1. ptr \in 0..(Len(arr) - 1) /\ pi \in 0..(Len(arr) - 1)
        BY <1>2, <1>3, <1>5, <1>8
      <3>2. V(arr, ptr) \in Nat /\ V(arr, pi) \in Nat
        BY <1>2, <3>1, Keys
      <3> QED
        BY <1>8, <3>2
    <2>5. Parts(arr, ptr, hi, plt, pi + 1, pj, pgt)
      BY <1>2, <1>4, <1>8, <2>4, UpLess
    <2>6. PhaseInv'
      BY <1>1, <2>1, <2>5 DEF PhaseInv, hi
    <2> QED
      BY <1>6, <2>2, <2>3, <2>6
  <1>9. CASE ~(pi < pj /\ V(arr, ptr) >= V(arr, pi))
    <2>1. arr' = arr /\ plt' = plt /\ pi' = pi /\ spc' = "down"
      BY <1>9, AtIs DEF Up
    <2>2. Whole'
      BY <1>1, <1>2, <2>1, WholeSame
    <2>3. SortTypeOK'
      BY <1>1, <2>1 DEF SortTypeOK, Phases
    <2>4. pi < pj => V(arr, pi) > V(arr, ptr)
      <3> SUFFICES ASSUME pi < pj PROVE V(arr, pi) > V(arr, ptr)
        OBVIOUS
      <3>1. ptr \in 0..(Len(arr) - 1) /\ pi \in 0..(Len(arr) - 1)
        BY <1>2, <1>3, <1>5
      <3>2. V(arr, ptr) \in Nat /\ V(arr, pi) \in Nat
        BY <1>2, <3>1, Keys
      <3> QED
        BY <1>9, <3>2
    <2>5. PhaseInv'
      BY <1>1, <1>4, <2>1, <2>4 DEF PhaseInv, hi
    <2> QED
      BY <1>6, <2>2, <2>3, <2>5
  <1> QED
    BY <1>7, <1>8, <1>9

LEMMA DownStep ==
  ASSUME SortInv, Down
  PROVE  SortInv'
  <1> USE DEF SortInv
  <1> DEFINE hi == ptr + nmemb
             q == pj - 1
  <1>1. /\ spc = "down" /\ unsorted' = unsorted /\ stack' = stack /\ ptr' = ptr /\ nmemb' = nmemb
        /\ depth' = depth /\ plt' = plt /\ pj' = q /\ r' = r
    BY DEF Down
  <1>2. /\ spc' \in {"up", "down", "gather"} /\ Working /\ Working'
        /\ ptr \in Nat /\ hi \in Nat /\ plt \in Nat /\ pi \in Nat /\ pj \in Nat /\ pgt \in Nat
        /\ arr \in Seq(Elem) /\ Len(arr) \in Nat
    BY <1>1 DEF Down, Working, SortTypeOK
  <1>3. hi <= Len(arr)
    BY <1>2, HereFacts
  <1>4. Parts(arr, ptr, hi, plt, pi, pj, pgt) /\ (pi < pj => V(arr, pi) > V(arr, ptr))
    BY <1>1 DEF PhaseInv
  <1>h. hi = ptr + nmemb
    OBVIOUS
  <1> HIDE DEF hi
  <1>5. ptr < plt /\ plt <= pi /\ pi <= pj /\ pj <= pgt /\ pgt <= hi
    BY <1>2, <1>4, PartsType
  <1>6. DepthBounds'
    <2>1. Len(stack) < depth' /\ depth' <= MaxDepth
      BY <1>1, <1>2 DEF DepthBounds
    <2> QED
      BY <1>1, <1>2, <2>1, DepthSame
  <1>7. q \in Nat /\ q < pj
    BY <1>2, <1>5
  <1>8. CASE pi < q
    <2>1. ptr \in 0..(Len(arr) - 1) /\ pi \in 0..(Len(arr) - 1) /\ q \in 0..(Len(arr) - 1)
      BY <1>2, <1>3, <1>5, <1>7, <1>8
    <2>2. V(arr, ptr) \in Nat /\ V(arr, pi) \in Nat /\ V(arr, q) \in Nat
      BY <1>2, <2>1, Keys
    <2>3. V(arr, pi) > V(arr, ptr)
      BY <1>2, <1>4, <1>7, <1>8
    <2>4. /\ q \in ptr..(hi - 1) /\ pi \in ptr..(hi - 1) /\ pgt - 1 \in ptr..(hi - 1)
          /\ pgt - 1 \in Nat
      BY <1>2, <1>5, <1>7, <1>8
    <2>5. CASE V(arr, ptr) = V(arr, q)
      <3>1. pgt' = pgt - 1 /\ arr' = Swapped(arr, pgt - 1, q) /\ pi' = pi /\ spc' = spc
        BY <1>2, <1>7, <1>8, <2>2, <2>5, AtIs DEF Down
      <3>2. Rearranged(arr, arr', ptr, hi) /\ SwappedAt(arr, arr', pgt - 1, q) /\ arr' \in Seq(Elem)
        BY <1>2, <2>4, <3>1, <1>h, SwapInside
      <3>3. Whole'
        BY <1>1, <1>2, <3>2, WholeInside DEF hi
      <3>4. SortTypeOK'
        BY <1>1, <1>7, <2>4, <3>1, <3>2 DEF SortTypeOK
      <3>5. Parts(arr', ptr, hi, plt, pi, q, pgt - 1) /\ V(arr', ptr) = V(arr, ptr) /\ V(arr', pi) = V(arr, pi)
        <4> DEFINE p == pgt - 1
        <4>1. p \in Nat /\ Before(p, pgt) /\ SwappedAt(arr, arr', p, q) /\ Before(q, pj)
          BY <2>4, <3>2 DEF Before
        <4>2. arr' \in Seq(Elem)
          BY <3>2
        <4> HIDE DEF p, q
        <4>4. Parts(arr, ptr, hi, plt, pi, pj, pgt)
          BY <1>4
        <4>5. pi < q /\ V(arr, ptr) = V(arr, q)
          BY <1>8, <2>5
        <4>6. Parts(arr', ptr, hi, plt, pi, q, p)
          BY <1>2, <1>3, <1>7, <4>1, <4>2, <4>4, <4>5, DownEqual
        <4>7. V(arr', ptr) = V(arr, ptr) /\ V(arr', pi) = V(arr, pi)
          <5>1. \A x \in 0..(Len(arr) - 1) : x # p /\ x # q => V(arr', x) = V(arr, x)
            BY <4>1 DEF SwappedAt
          <5>2. ptr # p /\ ptr # q /\ pi # p /\ pi # q
            BY <1>2, <1>5, <1>7, <1>8, <4>1 DEF Before
          <5> QED
            BY <2>1, <5>1, <5>2
        <4> QED
          BY <4>6, <4>7 DEF p
      <3>6. PhaseInv'
        BY <1>1, <2>3, <3>1, <3>5 DEF PhaseInv, hi
      <3> QED
        BY <1>6, <3>3, <3>4, <3>6
    <2>6. CASE V(arr, ptr) < V(arr, q)
      <3>1. pgt' = pgt /\ arr' = arr /\ pi' = pi /\ spc' = spc
        BY <1>2, <1>7, <1>8, <2>2, <2>6, AtIs DEF Down
      <3>2. Whole'
        BY <1>1, <1>2, <3>1, WholeSame
      <3>3. SortTypeOK'
        BY <1>1, <1>7, <3>1 DEF SortTypeOK
      <3>4. Parts(arr, ptr, hi, plt, pi, q, pgt)
        <4>1. V(arr, q) > V(arr, ptr) /\ pi <= q
          BY <1>2, <1>7, <1>8, <2>2, <2>6
        <4> QED
          BY <1>2, <1>4, <4>1, DownMore
      <3>5. PhaseInv'
        BY <1>1, <2>3, <3>1, <3>4 DEF PhaseInv, hi
      <3> QED
        BY <1>6, <3>2, <3>3, <3>5
    <2>7. CASE V(arr, ptr) > V(arr, q)
      <3>1. pgt' = pgt /\ arr' = Swapped(arr, pi, q) /\ pi' = pi + 1 /\ spc' = "up"
        BY <1>2, <1>7, <1>8, <2>2, <2>7, AtIs DEF Down
      <3>2. Rearranged(arr, arr', ptr, hi) /\ SwappedAt(arr, arr', pi, q) /\ arr' \in Seq(Elem)
        BY <1>2, <2>4, <3>1, <1>h, SwapInside
      <3>3. Whole'
        BY <1>1, <1>2, <3>2, WholeInside DEF hi
      <3>4. SortTypeOK'
        BY <1>1, <1>2, <1>7, <3>1, <3>2 DEF SortTypeOK, Phases
      <3>5. Parts(arr', ptr, hi, plt, pi + 1, q, pgt)
        BY <1>2, <1>3, <1>4, <1>8, <2>3, <2>7, <3>2, DownSwap
      <3>6. PhaseInv'
        BY <1>1, <3>1, <3>5 DEF PhaseInv, hi
      <3> QED
        BY <1>6, <3>3, <3>4, <3>6
    <2> QED
      BY <2>2, <2>5, <2>6, <2>7
  <1>9. CASE pi >= q
    <2>1. pgt' = pgt /\ arr' = arr /\ pi' = pi /\ spc' = "gather"
      BY <1>2, <1>7, <1>9 DEF Down
    <2>2. Whole'
      BY <1>1, <1>2, <2>1, WholeSame
    <2>3. SortTypeOK'
      BY <1>1, <1>7, <2>1 DEF SortTypeOK, Phases
    <2>4. Parts(arr, ptr, hi, plt, pi, pi, pgt)
      <3>1. CASE pi = pj
        BY <1>4, <3>1
      <3>2. CASE pi = q
        <4>1. pi < pj /\ pi <= pj - 1 /\ pj - 1 = pi
          BY <1>2, <1>7, <3>2
        <4>2. V(arr, pj - 1) > V(arr, ptr)
          BY <1>4, <4>1
        <4>3. Parts(arr, ptr, hi, plt, pi, pj - 1, pgt)
          BY <1>2, <1>4, <4>1, <4>2, DownMore
        <4> QED
          BY <4>1, <4>3
      <3> QED
        BY <1>2, <1>5, <1>9, <3>1, <3>2
    <2>5. PhaseInv'
      BY <1>1, <2>1, <2>4 DEF PhaseInv, hi
    <2> QED
      BY <1>6, <2>2, <2>3, <2>5
  <1> QED
    BY <1>2, <1>7, <1>8, <1>9

\* After partitioning, a smaller and a greater segment take the place of g.
Spans(g, m1, m2, l, h) == l.base = g.base /\ EndOf(l) = m1 /\ h.base = m2 /\ EndOf(h) = EndOf(g)

LEMMA SplitThree ==
  ASSUME NEW s \in Seq(Elem), NEW stk \in Seq(Segs), NEW g \in Segs,
         Laid(Len(s), Append(stk, g)), Cuts(s, Append(stk, g)),
         NEW v \in Nat, NEW m1 \in Nat, NEW m2 \in Nat, Three(s, g.base, EndOf(g), m1, m2, v),
         NEW l \in Segs, NEW h \in Segs, Spans(g, m1, m2, l, h) \/ Spans(g, m1, m2, h, l)
  PROVE  Laid(Len(s), Append(Append(stk, l), h)) /\ Cuts(s, Append(Append(stk, l), h))
  <1> DEFINE segs == Append(Append(stk, l), h)
             n == Len(stk)
  <1>1. /\ g.base \in Nat /\ EndOf(g) \in Nat /\ g.base <= m1 /\ m1 <= m2 /\ m2 <= EndOf(g)
        /\ Len(s) \in Nat
    BY SegmentType DEF Three
  <1>2. Laid(Len(s), segs)
    <2>1. Apart(l, h)
      BY <1>1 DEF Spans, Apart
    <2>2. g.base <= l.base /\ EndOf(l) <= EndOf(g) /\ g.base <= h.base /\ EndOf(h) <= EndOf(g)
      BY <1>1 DEF Spans
    <2> QED
      BY <1>1, <2>1, <2>2, LaidSplit
  <1>3. /\ n \in Nat /\ Len(segs) = n + 2 /\ segs[n + 1] = l /\ segs[n + 2] = h
        /\ \A k \in 1..n : segs[k] = stk[k]
    OBVIOUS
  <1>4. EndOf(g) <= Len(s)
    BY <1>1, LaidFront
  <1> HIDE DEF segs
  <1>5. ASSUME NEW b \in 0..Len(s), Strictly(b, g), \A k \in 1..Len(segs) : ~Strictly(b, segs[k])
        PROVE  CutWithin(s, b, g)
    <2>1. ~Strictly(b, l) /\ ~Strictly(b, h)
      <3>1. n + 1 \in 1..Len(segs) /\ n + 2 \in 1..Len(segs)
        BY <1>3
      <3> QED
        BY <1>3, <1>5, <3>1
    <2>2. b \in Nat /\ m1 <= b /\ b <= m2
      <3>1. b \in Nat
        OBVIOUS
      <3>2. g.base < b /\ b < EndOf(g)
        BY <1>5 DEF Strictly
      <3>3. CASE Spans(g, m1, m2, l, h)
        BY <1>1, <2>1, <3>1, <3>2, <3>3 DEF Spans, Strictly
      <3>4. CASE Spans(g, m1, m2, h, l)
        BY <1>1, <2>1, <3>1, <3>2, <3>4 DEF Spans, Strictly
      <3> QED
        BY <3>3, <3>4
    <2> QED
      BY <1>4, <2>2, ThreeCut
  <1>6. Cuts(s, segs)
    <2>1. Len(stk) <= Len(segs) /\ Len(segs) \in Nat
      BY <1>3
    <2> QED
      BY <1>3, <1>5, <2>1, CutsMade
  <1> QED
    BY <1>2, <1>6 DEF segs

LEMMA GatherStep ==
  ASSUME SortInv, Gather
  PROVE  SortInv'
  <1> USE DEF SortInv
  <1> DEFINE hi == ptr + nmemb
             low == Least(plt - ptr, pi - plt)
             high == Least(hi - pgt, pgt - pi)
             t == BlocksSwapped(arr, ptr, pi - low, low)
             u == BlocksSwapped(t, pi, hi - high, high)
             m1 == ptr + (pi - plt)
             m2 == hi - (pgt - pi)
             l == Segment(ptr, pi - plt, depth)
             h == Segment(m2, pgt - pi, depth)
  <1>1. /\ spc = "gather" /\ spc' = "loop" /\ unsorted' = unsorted /\ depth' = depth
        /\ plt' = plt /\ pi' = pi /\ pj' = pj /\ pgt' = pgt /\ r' = r
    BY DEF Gather
  <1>2. arr' = u
    BY DEF Gather, Gathered
  <1>3. \/ stack' = Append(stack, l) /\ ptr' = h.base /\ nmemb' = h.count
        \/ stack' = Append(stack, h) /\ ptr' = l.base /\ nmemb' = l.count
    BY DEF Gather, StackLarger
  <1>4. /\ Working /\ Working' /\ ptr \in Nat /\ hi \in Nat /\ plt \in Nat /\ pi \in Nat /\ pgt \in Nat
        /\ nmemb \in Nat /\ arr \in Seq(Elem) /\ Len(arr) \in Nat /\ stack \in Seq(Segs) /\ depth \in Nat
    BY <1>1 DEF Working, SortTypeOK
  <1>5. hi <= Len(arr)
    BY <1>4, HereFacts
  <1>6. Parts(arr, ptr, hi, plt, pi, pi, pgt)
    BY <1>1 DEF PhaseInv
  <1>h. hi = ptr + nmemb
    OBVIOUS
  <1>7. Here \in Segs /\ Here.base = ptr /\ EndOf(Here) = hi
    BY <1>4, HereFacts
  <1> HIDE DEF hi
  <1>8. ptr < plt /\ plt <= pi /\ pi <= pgt /\ pgt <= hi
    BY <1>4, <1>6, PartsType
  <1>9. /\ low \in Nat /\ Shortest(low, plt - ptr, pi - plt)
        /\ high \in Nat /\ Shortest(high, hi - pgt, pgt - pi)
    BY <1>4, <1>8 DEF Least, Shortest
  <1> HIDE DEF low, high
  <1>10. t = BlocksSwapped(arr, ptr, pi - low, low) /\ u = BlocksSwapped(t, pi, hi - high, high)
    OBVIOUS
  <1> HIDE DEF t, u
  <1>11. /\ Rearranged(arr, u, ptr, hi)
         /\ V(arr, ptr) \in Nat /\ Three(u, ptr, hi, m1, m2, V(arr, ptr))
    BY <1>4, <1>5, <1>6, <1>9, <1>10, GatherThree
  <1>12. /\ u \in Seq(Elem) /\ Cuts(u, Append(stack, Here)) /\ Laid(Len(u), Append(stack, Here))
         /\ \A e : Count(u, e) = Count(unsorted, e)
    <2>1. u \in Seq(Elem)
      BY <1>11 DEF Rearranged
    <2> QED
      BY <1>4, <1>h, <1>11, <2>1, CutsInside
  <1>13. /\ m1 \in Nat /\ m2 \in Nat /\ m2 + (pgt - pi) = hi /\ pi - plt \in Nat /\ pgt - pi \in Nat
    BY <1>4, <1>8
  <1>14. m1 = ptr + (pi - plt)
    OBVIOUS
  <1> HIDE DEF m1, m2
  <1>15. /\ l \in Segs /\ l.base = ptr /\ l.count = pi - plt /\ l.depth = depth /\ EndOf(l) = m1
         /\ h \in Segs /\ h.base = m2 /\ h.count = pgt - pi /\ h.depth = depth /\ EndOf(h) = hi
    BY <1>4, <1>13, <1>14 DEF Segment, Segs, EndOf
  <1> HIDE DEF l, h
  <1>16. PICK x \in Segs, y \in Segs :
           /\ stack' = Append(stack, x) /\ ptr' = y.base /\ nmemb' = y.count /\ x.depth = depth
           /\ Spans(Here, m1, m2, x, y) \/ Spans(Here, m1, m2, y, x)
    <2>1. Spans(Here, m1, m2, l, h)
      BY <1>7, <1>15 DEF Spans
    <2> QED
      BY <1>3, <1>15, <2>1
  <1>17. ptr' \in Nat /\ nmemb' \in Nat
    BY <1>16, SegmentType
  <1>18. Here' \in Segs /\ Here'.base = y.base /\ EndOf(Here') = EndOf(y)
    BY <1>16, <1>17 DEF Here, Segment, Segs, EndOf
  <1>19. Spans(Here, m1, m2, x, Here') \/ Spans(Here, m1, m2, Here', x)
    BY <1>16, <1>18 DEF Spans
  <1>20. Pend' = Append(Append(stack, x), Here')
    BY <1>1, <1>16 DEF Pend
  <1>21. Whole'
    <2> DEFINE z == Here'
    <2>1. z \in Segs /\ (Spans(Here, m1, m2, x, z) \/ Spans(Here, m1, m2, z, x))
      BY <1>18, <1>19
    <2> HIDE DEF z
    <2>2. Three(u, Here.base, EndOf(Here), m1, m2, V(arr, ptr))
      BY <1>7, <1>11
    <2>3. Laid(Len(u), Append(Append(stack, x), z)) /\ Cuts(u, Append(Append(stack, x), z))
      BY <1>4, <1>7, <1>11, <1>12, <1>13, <2>1, <2>2, SplitThree
    <2>4. SameElements'
      BY <1>1, <1>2, <1>12 DEF SameElements
    <2> QED
      BY <1>2, <1>20, <2>3, <2>4 DEF Whole, z
  <1>22. stack' \in Seq(Segs) /\ Len(stack') = Len(stack) + 1 /\ stack'[Len(stack) + 1] = x
         /\ \A k \in 1..Len(stack) : stack'[k] = stack[k]
    BY <1>4, <1>16
  <1>23. SortTypeOK'
    BY <1>1, <1>2, <1>12, <1>17, <1>22 DEF SortTypeOK, Phases
  <1>24. DepthBounds'
    <2>1. /\ Len(stack) < depth /\ depth <= MaxDepth /\ Len(stack) \in Nat
          /\ \A k \in 1..Len(stack) : k <= stack[k].depth /\ stack[k].depth <= MaxDepth
      BY <1>1, <1>4 DEF DepthBounds
    <2>2. ASSUME NEW k \in 1..Len(stack') PROVE k <= stack'[k].depth /\ stack'[k].depth <= MaxDepth
      <3>1. CASE k \in 1..Len(stack)
        BY <1>22, <2>1, <3>1
      <3>2. CASE k = Len(stack) + 1
        BY <1>4, <1>16, <1>22, <2>1, <3>2
      <3> QED
        BY <1>22, <2>1, <3>1, <3>2
    <2>3. Len(stack') <= depth'
      BY <1>1, <1>4, <1>22, <2>1
    <2> QED
      BY <1>1, <2>2, <2>3 DEF DepthBounds
  <1>25. PhaseInv'
    BY <1>1 DEF PhaseInv
  <1> QED
    BY <1>21, <1>23, <1>24, <1>25

LEMMA InsertionStep ==
  ASSUME SortInv, Insertion
  PROVE  SortInv'
  <1> USE DEF SortInv
  <1>1. /\ spc = "loop" /\ spc' = "insert" /\ pi' = ptr + 1 /\ pj' = ptr + 1
        /\ arr' = arr /\ unsorted' = unsorted /\ stack' = stack /\ ptr' = ptr /\ nmemb' = nmemb
        /\ depth' = depth /\ plt' = plt /\ pgt' = pgt /\ r' = r
    BY DEF Insertion
  <1>2. Working /\ Working' /\ ptr \in Nat /\ nmemb \in Nat
    BY <1>1 DEF Working, SortTypeOK
  <1>3. Whole'
    BY <1>1, <1>2, WholeSame
  <1>4. SortTypeOK'
    BY <1>1, <1>2 DEF SortTypeOK, Phases
  <1>5. DepthBounds'
    BY <1>1, <1>2, DepthSame
  <1>6. Inserting(arr, ptr, ptr + nmemb, ptr + 1, ptr + 1)
    <2>1. ptr <= ptr + 1 /\ ptr + 1 <= ptr + 1 /\ ptr < ptr + 1
      BY <1>2
    <2> DEFINE i == ptr + 1
               hi == ptr + nmemb
    <2> HIDE DEF i, hi
    <2>2. ptr <= i /\ i <= i /\ ptr < i /\ (i >= hi => i = i)
      BY <2>1 DEF i
    <2>3. ASSUME NEW x \in ptr..(hi - 1), NEW y \in ptr..(hi - 1), x < y, y <= i, y # i PROVE FALSE
      BY <1>2, <2>3 DEF i, hi
    <2>4. Inserting(arr, ptr, hi, i, i)
      BY <2>2, <2>3 DEF Inserting
    <2> QED
      BY <2>4 DEF i, hi
  <1>7. PhaseInv'
    BY <1>1, <1>6 DEF PhaseInv
  <1> QED
    BY <1>3, <1>4, <1>5, <1>7

LEMMA InsertStep ==
  ASSUME SortInv, Insert
  PROVE  SortInv'
  <1> USE DEF SortInv
  <1> DEFINE hi == ptr + nmemb
  <1>1. /\ spc = "insert" /\ unsorted' = unsorted /\ stack' = stack /\ ptr' = ptr /\ nmemb' = nmemb
        /\ depth' = depth /\ plt' = plt /\ pgt' = pgt /\ r' = r
    BY DEF Insert
  <1>2. /\ Working /\ ptr \in Nat /\ nmemb \in Nat /\ hi \in Nat /\ pi \in Nat /\ pj \in Nat
        /\ arr \in Seq(Elem) /\ Len(arr) \in Nat /\ stack \in Seq(Segs)
    BY <1>1 DEF Working, SortTypeOK
  <1>3. hi <= Len(arr)
    BY <1>2, HereFacts
  <1>4. Inserting(arr, ptr, hi, pi, pj)
    BY <1>1 DEF PhaseInv
  <1>h. hi = ptr + nmemb
    OBVIOUS
  <1> HIDE DEF hi
  <1>5. ptr <= pj /\ pj <= pi /\ ptr < pi
    BY <1>4 DEF Inserting
  <1>6. CASE pi < hi
    <2>1. spc' = "insert" /\ Working'
      BY <1>1, <1>2, <1>6, <1>h DEF Insert, Working
    <2>2. DepthBounds'
      BY <1>1, <1>2, <2>1, DepthSame
    <2>3. CASE pj > ptr /\ V(arr, pj - 1) > V(arr, pj)
      <3> DEFINE q == pj - 1
      <3>1. arr' = Swapped(arr, pj, q) /\ pj' = q /\ pi' = pi
        BY <1>2, <1>6, <1>h, <2>3, AtIs DEF Insert
      <3>2. q \in Nat /\ q \in ptr..(hi - 1) /\ pj \in ptr..(hi - 1)
        BY <1>2, <1>5, <1>6, <2>3
      <3>3. Rearranged(arr, arr', ptr, hi) /\ SwappedAt(arr, arr', pj, q) /\ arr' \in Seq(Elem)
        BY <1>2, <1>h, <3>1, <3>2, SwapInside
      <3>4. Whole'
        BY <1>1, <1>2, <1>h, <2>1, <3>3, WholeInside
      <3>5. SortTypeOK'
        BY <1>1, <2>1, <3>1, <3>2, <3>3 DEF SortTypeOK, Phases
      <3>6. Inserting(arr', ptr, hi, pi, q)
        BY <1>2, <1>3, <1>4, <1>6, <2>3, <3>3, InsertSwap
      <3>7. PhaseInv'
        BY <1>1, <1>h, <2>1, <3>1, <3>6 DEF PhaseInv
      <3> QED
        BY <2>2, <3>4, <3>5, <3>7
    <2>4. CASE ~(pj > ptr /\ V(arr, pj - 1) > V(arr, pj))
      <3>1. arr' = arr /\ pj' = pi + 1 /\ pi' = pi + 1
        BY <1>2, <1>6, <1>h, <2>4, AtIs DEF Insert
      <3>2. Whole'
        BY <1>1, <1>2, <2>1, <3>1, WholeSame
      <3>3. SortTypeOK'
        BY <1>1, <1>2, <2>1, <3>1 DEF SortTypeOK, Phases
      <3>4. pj = ptr \/ ~(V(arr, pj - 1) > V(arr, pj))
        BY <1>2, <1>5, <2>4
      <3>5. Inserting(arr, ptr, hi, pi + 1, pi + 1)
        BY <1>2, <1>3, <1>4, <1>6, <3>4, InsertNext
      <3>6. PhaseInv'
        BY <1>1, <1>h, <2>1, <3>1, <3>5 DEF PhaseInv
      <3> QED
        BY <2>2, <3>2, <3>3, <3>6
    <2> QED
      BY <2>3, <2>4
  <1>7. CASE pi >= hi
    <2>1. spc' = "pop" /\ arr' = arr /\ pi' = pi /\ pj' = pj
      BY <1>2, <1>7, <1>h DEF Insert
    <2>2. SortTypeOK'
      BY <1>1, <2>1 DEF SortTypeOK, Phases
    <2>3. \A x, y \in ptr..(hi - 1) : x < y => V(arr, x) <= V(arr, y)
      <3>1. \A x, y \in ptr..(hi - 1) : x < y /\ y <= pi /\ y # pj => V(arr, x) <= V(arr, y)
        BY <1>4 DEF Inserting
      <3>2. pj = pi
        BY <1>4, <1>7 DEF Inserting
      <3>3. \A y \in ptr..(hi - 1) : y <= pi /\ y # pj
        BY <1>2, <1>7, <3>2
      <3> QED
        BY <3>1, <3>3
    <2>4. Laid(Len(arr), stack) /\ SameElements
      BY <1>2, HereFacts, LaidFront
    <2>5. Cuts(arr, stack)
      <3>1. Len(stack) \in Nat /\ Len(stack) <= Len(stack)
        BY <1>2
      <3> QED
        BY <1>2, <1>h, <2>3, <3>1, SegmentDone
    <2>6. Pend' = stack
      BY <1>1, <2>1 DEF Pend
    <2>7. Whole'
      BY <1>1, <2>1, <2>4, <2>5, <2>6 DEF Whole, SameElements
    <2>8. DepthBounds'
      BY <1>1, <2>1 DEF DepthBounds
    <2>9. PhaseInv'
      BY <2>1 DEF PhaseInv
    <2> QED
      BY <2>2, <2>7, <2>8, <2>9
  <1> QED
    BY <1>2, <1>6, <1>7

LEMMA Half ==
  ASSUME NEW n \in Nat, NEW k \in Nat, n \div 2 <= k
  PROVE  n \div 2 \in Nat /\ n \div 2 <= n /\ n <= 2 * k + 1
  OBVIOUS

LEMMA HeapsortStep ==
  ASSUME SortInv, Heapsort
  PROVE  SortInv'
  <1> USE DEF SortInv
  <1>1. /\ spc = "loop" /\ nmemb > SmallSize /\ spc' = "heapify" /\ depth' = depth + 1
        /\ pi' = nmemb \div 2 /\ pj' = nmemb
        /\ arr' = arr /\ unsorted' = unsorted /\ stack' = stack /\ ptr' = ptr /\ nmemb' = nmemb
        /\ plt' = plt /\ pgt' = pgt /\ r' = r
    BY DEF Heapsort
  <1>2. Working /\ Working' /\ ptr \in Nat /\ nmemb \in Nat /\ nmemb > 0 /\ depth \in Nat
    BY <1>1, SortAssumption DEF Working, SortTypeOK
  <1>3. Whole'
    BY <1>1, <1>2, WholeSame
  <1> DEFINE m == nmemb \div 2
  <1>4. m \in Nat /\ m <= nmemb /\ \A k \in Nat : m <= k => nmemb <= 2 * k + 1
    <2>1. \A k \in Nat : m <= k => m \in Nat /\ m <= nmemb /\ nmemb <= 2 * k + 1
      BY <1>2, Half
    <2>2. nmemb \div 2 \in Nat
      BY <1>2
    <2> HIDE DEF m
    <2>3. m \in Nat /\ m <= m
      BY <2>2 DEF m
    <2> QED
      BY <2>1, <2>3
  <1> HIDE DEF m
  <1>5. pi' = m
    BY <1>1 DEF m
  <1>6. SortTypeOK'
    BY <1>1, <1>2, <1>4, <1>5 DEF SortTypeOK, Phases
  <1>7. DepthBounds'
    BY <1>1, <1>2, DepthSame
  <1>8. HeapFrom(arr, ptr, m, nmemb)
    <2>1. ASSUME NEW k \in m..(nmemb - 1), NEW c \in m..(nmemb - 1), Below(c, k)
          PROVE  FALSE
      <3>1. k \in Nat /\ m <= k /\ c \in Nat /\ c < nmemb
        BY <1>2, <1>4
      <3>2. nmemb <= 2 * k + 1
        BY <1>4, <3>1
      <3> QED
        BY <1>2, <2>1, <3>1, <3>2 DEF Below
    <2> QED
      BY <2>1 DEF HeapFrom
  <1>9. PhaseInv'
    BY <1>1, <1>2, <1>4, <1>5, <1>8 DEF PhaseInv
  <1> QED
    BY <1>3, <1>6, <1>7, <1>9

LEMMA HeapifyStep ==
  ASSUME SortInv, Heapify
  PROVE  SortInv'
  <1> USE DEF SortInv
  <1>1. /\ spc = "heapify" /\ arr' = arr /\ unsorted' = unsorted /\ stack' = stack /\ ptr' = ptr
        /\ nmemb' = nmemb /\ pj' = pj /\ depth' = depth /\ plt' = plt /\ pgt' = pgt
        /\ spc' \in {"sift", "extract"}
    BY DEF Heapify
  <1>2. Working /\ Working' /\ ptr \in Nat /\ nmemb \in Nat /\ pi \in Nat /\ r \in Nat
    BY <1>1 DEF Working, SortTypeOK
  <1>3. nmemb > 0 /\ pj = nmemb /\ pi <= nmemb /\ HeapFrom(arr, ptr, pi, nmemb)
    BY <1>1 DEF PhaseInv
  <1>4. Whole'
    BY <1>1, <1>2, WholeSame
  <1>5. DepthBounds'
    BY <1>1, <1>2, DepthSame
  <1>6. CASE pi > 0
    <2>1. pi' = pi - 1 /\ r' = pi - 1 /\ spc' = "sift" /\ pi - 1 \in Nat
      BY <1>2, <1>6 DEF Heapify
    <2>2. SortTypeOK'
      BY <1>1, <2>1 DEF SortTypeOK, Phases
    <2>3. HeapBut(arr, ptr, pi - 1, nmemb, pi - 1)
      BY <1>2, <1>3, <1>6, HeapGrows
    <2>4. PhaseInv'
      BY <1>1, <1>3, <2>1, <2>3 DEF PhaseInv
    <2> QED
      BY <1>4, <1>5, <2>2, <2>4
  <1>7. CASE pi = 0
    <2>1. pi' = nmemb - 1 /\ r' = r /\ spc' = "extract" /\ nmemb - 1 \in Nat
      BY <1>2, <1>3, <1>7 DEF Heapify
    <2>2. SortTypeOK'
      BY <1>1, <1>2, <2>1 DEF SortTypeOK, Phases
    <2>3. HeapFrom(arr, ptr, 0, pj)
      BY <1>3, <1>7
    <2>4. TailSorted(arr, ptr, pj, nmemb)
      BY <1>2, <1>3 DEF TailSorted
    <2>5. pj = nmemb - 1 + 1 /\ pj <= nmemb
      BY <1>2, <1>3
    <2>6. PhaseInv'
      BY <1>1, <2>1, <2>3, <2>4, <2>5 DEF PhaseInv
    <2> QED
      BY <1>4, <1>5, <2>2, <2>6
  <1> QED
    BY <1>2, <1>6, <1>7

LEMMA ExtractStep ==
  ASSUME SortInv, Extract
  PROVE  SortInv'
  <1> USE DEF SortInv
  <1> DEFINE hi == ptr + nmemb
  <1>1. /\ spc = "extract" /\ unsorted' = unsorted /\ stack' = stack /\ ptr' = ptr
        /\ depth' = depth /\ plt' = plt /\ pgt' = pgt
        /\ spc' \in {"sink", "loop"}
    BY DEF Extract
  <1>2. /\ Working /\ Working' /\ ptr \in Nat /\ nmemb \in Nat /\ hi \in Nat /\ pi \in Nat /\ r \in Nat
        /\ arr \in Seq(Elem) /\ Len(arr) \in Nat /\ stack \in Seq(Segs)
    BY <1>1 DEF Working, SortTypeOK
  <1>3. /\ pj = pi + 1 /\ pj <= nmemb
        /\ HeapFrom(arr, ptr, 0, pj) /\ TailSorted(arr, ptr, pj, nmemb)
    BY <1>1 DEF PhaseInv
  <1>4. hi <= Len(arr)
    BY <1>2, HereFacts
  <1>h. hi = ptr + nmemb
    OBVIOUS
  <1>5. CASE pi > 0
    <2> DEFINE q == ptr + pi
    <2>1. /\ arr' = Swapped(arr, ptr, q) /\ pj' = pi /\ pi' = pi - 1 /\ r' = 0 /\ spc' = "sink"
          /\ nmemb' = nmemb /\ pi - 1 \in Nat
      BY <1>2, <1>5 DEF Extract
    <2>2. ptr \in ptr..(hi - 1) /\ q \in ptr..(hi - 1)
      BY <1>2, <1>3
    <2> HIDE DEF hi
    <2>3. Rearranged(arr, arr', ptr, hi) /\ SwappedAt(arr, arr', ptr, q) /\ arr' \in Seq(Elem)
      BY <1>2, <1>h, <2>1, <2>2, SwapInside
    <2>4. Whole'
      BY <1>1, <1>2, <1>h, <2>1, <2>3, WholeInside
    <2>5. SortTypeOK'
      BY <1>1, <1>2, <2>1, <2>3 DEF SortTypeOK, Phases
    <2>6. HeapBut(arr', ptr, 0, pi, 0) /\ TailSorted(arr', ptr, pi, nmemb)
      <3>1. /\ ptr + nmemb <= Len(arr) /\ pi + 1 <= nmemb
            /\ HeapFrom(arr, ptr, 0, pi + 1) /\ TailSorted(arr, ptr, pi + 1, nmemb)
            /\ SwappedAt(arr, arr', ptr, ptr + pi) /\ arr' \in Seq(Elem)
        BY <1>3, <1>4, <1>h, <2>3
      <3> QED
        BY <1>2, <1>5, <3>1, TopToEnd
    <2>7. pi = pi - 1 + 1 /\ pi <= nmemb
      BY <1>2, <1>3
    <2>8. PhaseInv'
      BY <1>1, <2>1, <2>6, <2>7 DEF PhaseInv
    <2>9. DepthBounds'
      BY <1>1, <1>2, <2>1, DepthSame
    <2> QED
      BY <2>4, <2>5, <2>8, <2>9
  <1>6. CASE pi = 0
    <2>1. nmemb' = 0 /\ spc' = "loop" /\ arr' = arr /\ pj' = pj /\ pi' = pi /\ r' = r
      BY <1>2, <1>6 DEF Extract
    <2>2. SortTypeOK'
      BY <1>1, <2>1 DEF SortTypeOK, Phases
    <2>3. \A x, y \in ptr..(hi - 1) : x < y => V(arr, x) <= V(arr, y)
      <3> SUFFICES ASSUME NEW x \in ptr..(hi - 1), NEW y \in ptr..(hi - 1), x < y
                   PROVE  V(arr, x) <= V(arr, y)
        OBVIOUS
      <3> DEFINE i == x - ptr
                 j == y - ptr
      <3>1. i \in 0..(nmemb - 1) /\ j \in 0..(nmemb - 1) /\ i < j /\ pj <= j /\ ptr + i = x /\ ptr + j = y
        BY <1>2, <1>3, <1>6
      <3> HIDE DEF i, j
      <3>2. V(arr, ptr + i) <= V(arr, ptr + j)
        BY <1>3, <3>1 DEF TailSorted
      <3> QED
        BY <3>1, <3>2
    <2> HIDE DEF hi
    <2> DEFINE z == Here'
               all == Append(stack, z)
    <2>4. z \in Segs /\ z.base = ptr /\ EndOf(z) = ptr
      BY <1>1, <1>2, <2>1 DEF Here, Segment, Segs, EndOf
    <2> HIDE DEF z
    <2>5. Len(all) = Len(stack) + 1 /\ Len(stack) \in Nat /\ \A k \in 1..Len(stack) : all[k] = stack[k]
      BY <1>2, <2>4
    <2> HIDE DEF all
    <2>6. Cuts(arr, all)
      <3>1. Len(all) \in Nat /\ Len(stack) <= Len(all)
        BY <2>5
      <3> QED
        BY <1>2, <1>h, <2>3, <2>5, <3>1, SegmentDone
    <2>7. Laid(Len(arr), all) /\ SameElements
      <3>1. Laid(Len(arr), Append(stack, Here)) /\ SameElements /\ Here \in Segs /\ Here.base = ptr
            /\ EndOf(Here) = hi
        BY <1>2, <1>h, HereFacts
      <3>2. Laid(Len(arr), stack) /\ \A k \in 1..Len(stack) : Apart(stack[k], Here)
        BY <1>2, <3>1, LaidFront
      <3>3. ASSUME NEW k \in 1..Len(stack) PROVE Apart(stack[k], z)
        <4>1. stack[k] \in Segs
          BY <1>2
        <4>2. stack[k].base \in Nat /\ EndOf(stack[k]) \in Nat
          BY <4>1, SegmentType
        <4>3. ptr <= hi
          BY <1>2, <1>h
        <4>4. EndOf(stack[k]) <= ptr \/ hi <= stack[k].base
          BY <3>1, <3>2 DEF Apart
        <4> QED
          BY <1>2, <2>4, <4>2, <4>3, <4>4 DEF Apart
      <3>4. ptr <= Len(arr)
        BY <1>2, <1>4, <1>h
      <3> QED
        BY <1>2, <2>4, <3>1, <3>2, <3>3, <3>4, LaidAppend DEF all
    <2>8. Pend' = all
      BY <1>1, <2>1 DEF Pend, all, z
    <2>9. Whole'
      BY <1>1, <2>1, <2>6, <2>7, <2>8 DEF Whole, SameElements
    <2>10. DepthBounds'
      BY <1>1, <1>2, <2>1, DepthSame
    <2>11. PhaseInv'
      BY <2>1 DEF PhaseInv
    <2> QED
      BY <2>2, <2>9, <2>10, <2>11
  <1> QED
    BY <1>2, <1>5, <1>6

\* The greater of those below r in a heap of n, if there are any.
Greater(base, q, n, c) ==
  /\ Below(c, q) /\ c < n
  /\ \A k \in Nat : Below(k, q) /\ k < n => V(arr, base + k) <= V(arr, base + c)

Sunk(base, q, n, c) ==
  /\ c \in Nat /\ Greater(base, q, n, c) /\ V(arr, base + q) <= V(arr, base + c)
  /\ arr' = Swapped(arr, base + q, base + c) /\ r' = c

Settled(base, q, n) ==
  /\ arr' = arr /\ r' = r
  /\ \A k \in Nat : Below(k, q) /\ k < n => V(arr, base + k) <= V(arr, base + q)

LEMMA SiftCases ==
  ASSUME SortTypeOK, Whole, Working, pj <= nmemb, r < pj, NEW pc, SiftStep(pc)
  PROVE  \/ spc' = spc /\ \E c \in Nat : Sunk(ptr, r, pj, c)
         \/ spc' = pc /\ Settled(ptr, r, pj)
  <1> DEFINE left == 2 * r + 1
             right == left + 1
             c == IF left < pj - 1 /\ At(ptr + left) <= At(ptr + left + 1) THEN left + 1 ELSE left
  <1>1. IF left < pj /\ At(ptr + r) <= At(ptr + c)
          THEN arr' = Swapped(arr, ptr + r, ptr + c) /\ r' = c /\ spc' = spc
          ELSE spc' = pc /\ arr' = arr /\ r' = r
    BY DEF SiftStep
  <1>2. /\ ptr \in Nat /\ pj \in Nat /\ r \in Nat /\ left \in Nat /\ right \in Nat /\ nmemb \in Nat
        /\ arr \in Seq(Elem) /\ Len(arr) \in Nat /\ ptr + nmemb <= Len(arr)
    BY HereFacts DEF SortTypeOK
  <1>3. \A k \in Nat : k < pj => V(arr, ptr + k) \in Nat
    <2> TAKE k \in Nat
    <2> HAVE k < pj
    <2>1. ptr + k \in 0..(Len(arr) - 1)
      BY <1>2
    <2> QED
      BY <1>2, <2>1, Keys
  <1>4. \A k \in Nat : Below(k, r) <=> (k = left \/ k = right)
    BY <1>2 DEF Below
  <1>5. c = IF left < pj - 1 /\ V(arr, ptr + left) <= V(arr, ptr + right) THEN right ELSE left
    <2>1. ptr + left + 1 = ptr + right
      BY <1>2
    <2>2. At(ptr + left) = V(arr, ptr + left) /\ At(ptr + left + 1) = V(arr, ptr + right)
      BY <2>1, AtIs
    <2> QED
      BY <2>2
  <1>6. right = left + 1
    OBVIOUS
  <1> HIDE DEF c, left, right
  <1>7. c \in Nat
    BY <1>2, <1>5
  <1>8. ASSUME left < pj PROVE Greater(ptr, r, pj, c)
    <2>1. Below(c, r) /\ c < pj
      BY <1>2, <1>4, <1>5, <1>6, <1>7, <1>8
    <2>2. ASSUME NEW k \in Nat, Below(k, r), k < pj PROVE V(arr, ptr + k) <= V(arr, ptr + c)
      <3>1. V(arr, ptr + k) \in Nat /\ V(arr, ptr + c) \in Nat /\ V(arr, ptr + left) \in Nat
        BY <1>2, <1>3, <1>7, <1>8, <2>1, <2>2
      <3>2. CASE k = left
        BY <1>5, <3>1, <3>2
      <3>3. CASE k = right
        <4>1. left < pj - 1 /\ V(arr, ptr + right) \in Nat
          BY <1>2, <1>6, <2>2, <3>1, <3>3
        <4> QED
          BY <1>5, <3>1, <3>3, <4>1
      <3> QED
        BY <1>4, <2>2, <3>2, <3>3
    <2> QED
      BY <2>1, <2>2 DEF Greater
  <1>9. CASE left < pj /\ V(arr, ptr + r) <= V(arr, ptr + c)
    <2>1. arr' = Swapped(arr, ptr + r, ptr + c) /\ r' = c /\ spc' = spc
      BY <1>1, <1>9, AtIs
    <2>2. Sunk(ptr, r, pj, c)
      BY <1>7, <1>8, <1>9, <2>1 DEF Sunk
    <2> QED
      BY <1>7, <2>1, <2>2
  <1>10. CASE ~(left < pj /\ V(arr, ptr + r) <= V(arr, ptr + c))
    <2>1. spc' = pc /\ arr' = arr /\ r' = r
      BY <1>1, <1>10, AtIs
    <2>2. ASSUME NEW k \in Nat, Below(k, r), k < pj PROVE V(arr, ptr + k) <= V(arr, ptr + r)
      <3>1. left < pj
        BY <1>2, <1>4, <1>6, <2>2
      <3>2. Greater(ptr, r, pj, c)
        BY <1>8, <3>1
      <3>3. c < pj /\ V(arr, ptr + k) <= V(arr, ptr + c)
        BY <2>2, <3>2 DEF Greater
      <3>4. V(arr, ptr + k) \in Nat /\ V(arr, ptr + c) \in Nat /\ V(arr, ptr + r) \in Nat
        BY <1>2, <1>3, <1>7, <2>2, <3>3
      <3> QED
        BY <1>10, <3>1, <3>3, <3>4
    <2> QED
      BY <2>1, <2>2 DEF Settled
  <1> QED
    BY <1>9, <1>10

\* The element moves down inside of the heap.
LEMMA SunkFacts ==
  ASSUME SortTypeOK, Whole, Working, NEW m \in Nat, pj <= nmemb, HeapBut(arr, ptr, m, pj, r),
         NEW c \in Nat, Sunk(ptr, r, pj, c)
  PROVE  /\ Rearranged(arr, arr', ptr, ptr + nmemb) /\ arr' \in Seq(Elem)
         /\ SwappedAt(arr, arr', ptr + r, ptr + c) /\ HeapBut(arr', ptr, m, pj, c)
         /\ r \in 0..(pj - 1) /\ c \in 0..(pj - 1)
  <1> DEFINE hi == ptr + nmemb
             p == ptr + r
             q == ptr + c
  <1>1. /\ ptr \in Nat /\ nmemb \in Nat /\ hi \in Nat /\ pj \in Nat /\ r \in Nat
        /\ arr \in Seq(Elem) /\ Len(arr) \in Nat /\ hi <= Len(arr)
    BY HereFacts DEF SortTypeOK
  <1>2. r \in m..(pj - 1)
    BY DEF HeapBut
  <1>3. /\ Below(c, r) /\ c < pj /\ arr' = Swapped(arr, p, q) /\ V(arr, p) <= V(arr, q)
        /\ \A k \in Nat : Below(k, r) /\ k < pj => V(arr, ptr + k) <= V(arr, q)
    BY DEF Sunk, Greater
  <1>4. c \in m..(pj - 1)
    BY <1>1, <1>2, <1>3 DEF Below
  <1>5. p \in ptr..(hi - 1) /\ q \in ptr..(hi - 1)
    BY <1>1, <1>2, <1>4
  <1>6. hi = ptr + nmemb
    OBVIOUS
  <1>7. ptr + pj <= Len(arr)
    BY <1>1
  <1> HIDE DEF hi
  <1>8. Rearranged(arr, arr', ptr, hi) /\ SwappedAt(arr, arr', p, q) /\ arr' \in Seq(Elem)
    BY <1>3, <1>5, <1>6, SwapInside
  <1>9. \A k \in m..(pj - 1) : Below(k, r) => V(arr, ptr + k) <= V(arr, ptr + c)
    <2> TAKE k \in m..(pj - 1)
    <2>1. k \in Nat /\ k < pj
      BY <1>1
    <2> QED
      BY <1>3, <2>1
  <1>10. HeapBut(arr', ptr, m, pj, c)
    <2>1. V(arr, ptr + r) <= V(arr, ptr + c) /\ SwappedAt(arr, arr', ptr + r, ptr + c)
      BY <1>3, <1>8
    <2> QED
      BY <1>1, <1>3, <1>4, <1>7, <1>8, <1>9, <2>1, SiftDown
  <1>11. r \in 0..(pj - 1) /\ c \in 0..(pj - 1)
    BY <1>1, <1>2, <1>4
  <1> QED
    BY <1>8, <1>10, <1>11 DEF hi

LEMMA SettledFacts ==
  ASSUME SortTypeOK, NEW m \in Nat, HeapBut(arr, ptr, m, pj, r), Settled(ptr, r, pj)
  PROVE  HeapFrom(arr, ptr, m, pj)
  <1>1. \A k \in m..(pj - 1) : Below(k, r) => V(arr, ptr + k) <= V(arr, ptr + r)
    <2> TAKE k \in m..(pj - 1)
    <2>1. k \in Nat /\ k < pj
      BY DEF SortTypeOK
    <2> QED
      BY <2>1 DEF Settled
  <1> QED
    BY <1>1, SiftDone

LEMMA SiftingStep ==
  ASSUME SortInv, Sift
  PROVE  SortInv'
  <1> USE DEF SortInv
  <1>1. /\ spc = "sift" /\ SiftStep("heapify")
        /\ unsorted' = unsorted /\ stack' = stack /\ ptr' = ptr /\ nmemb' = nmemb
        /\ depth' = depth /\ plt' = plt /\ pi' = pi /\ pj' = pj /\ pgt' = pgt
    BY DEF Sift, SiftStep
  <1>2. Working /\ pi \in Nat /\ pj \in Nat /\ nmemb \in Nat /\ r \in Nat
    BY <1>1 DEF Working, SortTypeOK
  <1>3. pj = nmemb /\ HeapBut(arr, ptr, pi, pj, r)
    BY <1>1 DEF PhaseInv
  <1>4. r < pj /\ pi <= pj /\ nmemb > 0 /\ pj <= nmemb
    BY <1>2, <1>3 DEF HeapBut
  <1>5. \/ spc' = spc /\ \E c \in Nat : Sunk(ptr, r, pj, c)
        \/ spc' = "heapify" /\ Settled(ptr, r, pj)
    BY <1>1, <1>2, <1>4, SiftCases
  <1>6. Working'
    BY <1>1, <1>5 DEF Working
  <1>7. DepthBounds'
    BY <1>1, <1>2, <1>5, DepthSame
  <1>8. ASSUME spc' = spc, NEW c \in Nat, Sunk(ptr, r, pj, c) PROVE SortInv'
    <2>1. /\ Rearranged(arr, arr', ptr, ptr + nmemb) /\ arr' \in Seq(Elem)
          /\ HeapBut(arr', ptr, pi, pj, c) /\ r' = c
      BY <1>2, <1>3, <1>4, <1>8, SunkFacts DEF Sunk
    <2>2. Whole'
      BY <1>1, <1>2, <1>6, <2>1, WholeInside
    <2>3. SortTypeOK'
      BY <1>1, <1>8, <2>1 DEF SortTypeOK
    <2>4. PhaseInv'
      BY <1>1, <1>3, <1>8, <2>1 DEF PhaseInv
    <2> QED
      BY <1>7, <2>2, <2>3, <2>4
  <1>9. ASSUME spc' = "heapify", Settled(ptr, r, pj) PROVE SortInv'
    <2>1. arr' = arr /\ r' = r /\ HeapFrom(arr, ptr, pi, pj)
      BY <1>2, <1>3, <1>9, SettledFacts DEF Settled
    <2>2. Whole'
      BY <1>1, <1>2, <1>6, <2>1, WholeSame
    <2>3. SortTypeOK'
      BY <1>1, <1>9, <2>1 DEF SortTypeOK, Phases
    <2>4. PhaseInv'
      BY <1>1, <1>3, <1>4, <1>9, <2>1 DEF PhaseInv
    <2> QED
      BY <1>7, <2>2, <2>3, <2>4
  <1> QED
    BY <1>5, <1>8, <1>9

LEMMA SinkStep ==
  ASSUME SortInv, Sink
  PROVE  SortInv'
  <1> USE DEF SortInv
  <1>1. /\ spc = "sink" /\ SiftStep("extract")
        /\ unsorted' = unsorted /\ stack' = stack /\ ptr' = ptr /\ nmemb' = nmemb
        /\ depth' = depth /\ plt' = plt /\ pi' = pi /\ pj' = pj /\ pgt' = pgt
    BY DEF Sink, SiftStep
  <1>2. /\ Working /\ ptr \in Nat /\ pi \in Nat /\ pj \in Nat /\ nmemb \in Nat /\ r \in Nat
        /\ arr \in Seq(Elem)
    BY <1>1 DEF Working, SortTypeOK
  <1>3. pj = pi + 1 /\ pj <= nmemb /\ HeapBut(arr, ptr, 0, pj, r) /\ TailSorted(arr, ptr, pj, nmemb)
    BY <1>1 DEF PhaseInv
  <1>4. r < pj
    BY <1>2, <1>3 DEF HeapBut
  <1>5. \/ spc' = spc /\ \E c \in Nat : Sunk(ptr, r, pj, c)
        \/ spc' = "extract" /\ Settled(ptr, r, pj)
    BY <1>1, <1>2, <1>3, <1>4, SiftCases
  <1>6. Working'
    BY <1>1, <1>5 DEF Working
  <1>7. DepthBounds'
    BY <1>1, <1>2, <1>5, DepthSame
  <1>8. ASSUME spc' = spc, NEW c \in Nat, Sunk(ptr, r, pj, c) PROVE SortInv'
    <2>1. /\ Rearranged(arr, arr', ptr, ptr + nmemb) /\ arr' \in Seq(Elem)
          /\ SwappedAt(arr, arr', ptr + r, ptr + c) /\ HeapBut(arr', ptr, 0, pj, c)
          /\ r \in 0..(pj - 1) /\ c \in 0..(pj - 1) /\ r' = c
      BY <1>2, <1>3, <1>8, SunkFacts DEF Sunk
    <2>2. Whole'
      BY <1>1, <1>2, <1>6, <2>1, WholeInside
    <2>3. SortTypeOK'
      BY <1>1, <1>8, <2>1 DEF SortTypeOK
    <2>4. TailSorted(arr', ptr, pj, nmemb)
      <3>1. ptr + nmemb <= Len(arr)
        BY <1>2, HereFacts
      <3> QED
        BY <1>2, <1>3, <2>1, <3>1, TailKept
    <2>5. PhaseInv'
      BY <1>1, <1>3, <1>8, <2>1, <2>4 DEF PhaseInv
    <2> QED
      BY <1>7, <2>2, <2>3, <2>5
  <1>9. ASSUME spc' = "extract", Settled(ptr, r, pj) PROVE SortInv'
    <2>1. arr' = arr /\ r' = r /\ HeapFrom(arr, ptr, 0, pj)
      BY <1>2, <1>3, <1>9, SettledFacts DEF Settled
    <2>2. Whole'
      BY <1>1, <1>2, <1>6, <2>1, WholeSame
    <2>3. SortTypeOK'
      BY <1>1, <1>9, <2>1 DEF SortTypeOK, Phases
    <2>4. PhaseInv'
      BY <1>1, <1>3, <1>9, <2>1 DEF PhaseInv
    <2> QED
      BY <1>7, <2>2, <2>3, <2>4
  <1> QED
    BY <1>5, <1>8, <1>9

LEMMA SortStepInv == SortInv /\ [SortStep]_sortVars => SortInv'
  <1> SUFFICES ASSUME SortInv, [SortStep]_sortVars PROVE SortInv'
    OBVIOUS
  <1>1. CASE Pop
    BY <1>1, PopStep
  <1>2. CASE Partition
    BY <1>2, PartitionStep
  <1>3. CASE Up
    BY <1>3, UpStep
  <1>4. CASE Down
    BY <1>4, DownStep
  <1>5. CASE Gather
    BY <1>5, GatherStep
  <1>6. CASE Insertion
    BY <1>6, InsertionStep
  <1>7. CASE Insert
    BY <1>7, InsertStep
  <1>8. CASE Heapsort
    BY <1>8, HeapsortStep
  <1>9. CASE Heapify
    BY <1>9, HeapifyStep
  <1>10. CASE Extract
    BY <1>10, ExtractStep
  <1>11. CASE Sift
    BY <1>11, SiftingStep
  <1>12. CASE Sink
    BY <1>12, SinkStep
  <1>13. CASE UNCHANGED sortVars
    <2>1. SortTypeOK'
      BY <1>13 DEF SortInv, SortTypeOK, sortVars
    <2>2. Pend' = Pend
      BY <1>13 DEF Pend, Here, sortVars
    <2>3. Whole'
      BY <1>13, <2>2 DEF SortInv, Whole, SameElements, sortVars
    <2>4. DepthBounds'
      BY <1>13 DEF SortInv, DepthBounds, sortVars
    <2>5. PhaseInv'
      BY <1>13 DEF SortInv, PhaseInv, sortVars
    <2> QED
      BY <2>1, <2>3, <2>4, <2>5 DEF SortInv
  <1> QED
    BY <1>1, <1>2, <1>3, <1>4, <1>5, <1>6, <1>7, <1>8, <1>9, <1>10, <1>11, <1>12, <1>13 DEF SortStep

\* A call does not change what it was given.
LEMMA GivenKept == SortStep => unsorted' = unsorted
  BY DEF SortStep, Pop, Partition, Up, Down, Gather, Insertion, Insert, Heapsort, Heapify, Extract,
         Sift, Sink, SiftStep

LEMMA SortInvCorrect == SortInv => SortCorrect
  <1> SUFFICES ASSUME SortInv PROVE SortCorrect
    OBVIOUS
  <1>1. stack \in Seq(Segs) /\ Len(stack) \in Nat /\ arr \in Seq(Elem) /\ Len(arr) \in Nat
    BY DEF SortInv, SortTypeOK
  <1>2. Len(stack) <= MaxDepth
    <2>1. CASE Len(stack) = 0
      BY <2>1, SortAssumption
    <2>2. CASE Len(stack) = 1 /\ spc = "pop"
      BY <2>2, SortAssumption
    <2>3. CASE Len(stack) # 0 /\ ~(Len(stack) = 1 /\ spc = "pop")
      <3> DEFINE k == Len(stack)
      <3>1. k \in 1..Len(stack)
        BY <1>1, <2>3
      <3>2. k <= stack[k].depth /\ stack[k].depth <= MaxDepth
        BY <2>3, <3>1 DEF SortInv, DepthBounds
      <3>3. stack[k].depth \in Nat
        BY <1>1, <3>1, SegmentType
      <3> QED
        BY <1>1, <3>2, <3>3, SortAssumption
    <2> QED
      BY <2>1, <2>2, <2>3
  <1>3. ASSUME spc = "sorted", NEW n \in 2..Len(arr) PROVE arr[n - 1][1] <= arr[n][1]
    <2>1. Pend = <<>> /\ Cuts(arr, Pend)
      BY <1>3 DEF SortInv, PhaseInv, Whole, Pend
    <2>2. \A b \in 0..Len(arr) : Cut(arr, b)
      BY <2>1 DEF Cuts
    <2> DEFINE b == n - 1
               x == n - 2
    <2>3. b \in 0..Len(arr) /\ b \in 0..(Len(arr) - 1) /\ x \in 0..(Len(arr) - 1) /\ x < b /\ b <= b
          /\ x + 1 = n - 1 /\ b + 1 = n
      BY <1>1, <1>3
    <2> HIDE DEF b, x
    <2>4. V(arr, x) <= V(arr, b)
      BY <2>2, <2>3 DEF Cut
    <2> QED
      BY <2>3, <2>4 DEF V
  <1>4. \A n \in DOMAIN unsorted : Count(arr, unsorted[n]) = Count(unsorted, unsorted[n])
    BY DEF SortInv, Whole, SameElements
  <1> QED
    BY <1>2, <1>3, <1>4 DEF SortCorrect

--------------------------------------------------------------------------------
\* SortInv holds in every state of rqsort, whatever the array.  (rqsort, heapsortx)
THEOREM SortInvariant == SortSpec => []SortInv
  <1>1. SortInit => SortInv
    BY SortInit_Inv
  <1>2. SortInv /\ [SortStep]_sortVars => SortInv'
    BY SortStepInv
  <1> QED
    BY <1>1, <1>2, PTL DEF SortSpec

\* Every array is sorted, no element is lost or doubled, and the stack has room
\* for all segments, however often partitioning goes wrong.  (rqsort, heapsortx)
THEOREM ArraysSorted == SortSpec => []SortCorrect
  <1>1. SortInv => SortCorrect
    BY SortInvCorrect
  <1> QED
    BY <1>1, SortInvariant, PTL
================================================================================
