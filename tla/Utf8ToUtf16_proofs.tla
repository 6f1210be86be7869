------------------------- MODULE Utf8ToUtf16_proofs -------------------------
(***************************************************************************)
(* The index tables of utf8_to_utf16, for every input string.              *)
(*                                                                         *)
(* The invariant LoopInv speaks of the entries below the loop's position:  *)
(* whatever is stored is stored in both tables, so they are inverse to     *)
(* each other on the entries that are not zero, and later entries are      *)
(* larger.  The entries at and after the position are still zero.          *)
(*                                                                         *)
(* TextInv adds which they are: with the characters counted one by one,    *)
(* the loop stands at the start of one, and what is stored is where the    *)
(* characters before it begin.  At the end that is the closed form of      *)
(* JsString.                                                               *)
(***************************************************************************)
EXTENDS JsStringNew, SequenceTheorems, WellFoundedInduction, TLAPS

InputOK == input \in Inputs

\* Positions of the loop: no more units than bytes, and both zero or neither.
Progress == q <= pos /\ (q = 0 <=> pos = 0)

\* The entries stored before the current position.
Stored(u, p) ==
  /\ \A x \in 0..u : x < u /\ (x = 0 \/ indices[x] # 0) => indices[x] < p /\ rev[indices[x]] = x
  /\ \A y \in 0..p : y < p /\ (y = 0 \/ rev[y] # 0) => rev[y] < u /\ indices[rev[y]] = y
  /\ \A x, y \in 0..u : x < y /\ y < u /\ indices[y] # 0 => indices[x] < indices[y]

\* The entries that are still as calloc left them.
Untouched(u, p) ==
  /\ \A x \in u..input.n : indices[x] = 0
  /\ \A y \in p..input.n : rev[y] = 0

LoopInv == status \in {"start", "loop"} => Stored(q, pos) /\ Untouched(q, pos)

IInv == TypeOK /\ InputOK /\ Progress /\ LoopInv
             /\ (status = "start" => pos = 0 /\ q = 0)
             /\ TablesInverse /\ IndicesIncrease

-----------------------------------------------------------------------------
LEMMA InputFacts ==
  ASSUME InputOK
  PROVE  /\ input.n \in Nat
         /\ input.width \in [0..(input.n - 1) -> 0..4]
         /\ \A p \in 0..(input.n - 1) : p + input.width[p] <= input.n
  BY InputsAssumption DEF InputOK

\* The start of the loop satisfies the invariant.
LEMMA InitIInv == Init => IInv
  <1> SUFFICES ASSUME Init PROVE IInv
    OBVIOUS
  <1>1. InputOK
    BY DEF Init, InputOK
  <1>2. input.n \in Nat
    BY <1>1, InputFacts
  <1>3. TypeOK
    BY <1>2 DEF Init, TypeOK, Zeroed
  <1>4. Stored(q, pos) /\ Untouched(q, pos) /\ Progress
    BY <1>2 DEF Init, Stored, Untouched, Progress, Zeroed
  <1>5. TablesInverse /\ IndicesIncrease
    BY DEF Init, TablesInverse, IndicesIncrease
  <1> QED
    BY <1>1, <1>3, <1>4, <1>5 DEF IInv, LoopInv, Init

\* One iteration of the loop, for a character of one or two units.
LEMMA IterationStored ==
  ASSUME IInv, status = "loop", pos < input.n, RecordStart,
         NEW w \in 1..4, NEW k \in 1..2, k <= w, pos + w <= input.n,
         pos' = pos + w, q' = q + k, input' = input
  PROVE  Stored(q, pos)' /\ Untouched(q, pos)' /\ Progress'
         /\ indices' \in [0..input.n -> 0..input.n] /\ rev' \in [0..input.n -> 0..input.n]
  <1> USE DEF TypeOK
  <1>1. input.n \in Nat
    BY InputFacts DEF IInv
  <1>2. /\ pos \in 0..input.n /\ q \in 0..input.n /\ q <= pos
        /\ indices \in [0..input.n -> 0..input.n] /\ rev \in [0..input.n -> 0..input.n]
        /\ Stored(q, pos) /\ Untouched(q, pos) /\ (q = 0 <=> pos = 0)
    BY DEF IInv, LoopInv, Progress
  <1>3. /\ \A x \in 0..input.n : indices'[x] = IF x = q THEN pos ELSE indices[x]
        /\ \A y \in 0..input.n : rev'[y] = IF y = pos THEN q ELSE rev[y]
    BY <1>2 DEF RecordStart
  <1>4. /\ indices' \in [0..input.n -> 0..input.n]
        /\ rev' \in [0..input.n -> 0..input.n]
    BY <1>1, <1>2 DEF RecordStart
  <1>5. Untouched(q, pos)'
    BY <1>1, <1>2, <1>3 DEF Untouched
  <1>6. Progress'
    BY <1>1, <1>2 DEF Progress
  <1>7. Stored(q, pos)'
    <2>1. ASSUME NEW x \in 0..q', x < q', x = 0 \/ indices'[x] # 0
          PROVE  indices'[x] < pos' /\ rev'[indices'[x]] = x
      <3>1. CASE x = q
        BY <1>1, <1>2, <1>3, <3>1
      <3>2. CASE x < q
        <4>1. indices[x] < pos /\ rev[indices[x]] = x
          BY <1>1, <1>2, <1>3, <2>1, <3>2 DEF Stored
        <4> QED
          BY <1>1, <1>2, <1>3, <3>2, <4>1
      <3>3. CASE x > q
        BY <1>1, <1>2, <1>3, <2>1, <3>3 DEF Untouched
      <3> QED
        BY <1>1, <1>2, <3>1, <3>2, <3>3
    <2>2. ASSUME NEW y \in 0..pos', y < pos', y = 0 \/ rev'[y] # 0
          PROVE  rev'[y] < q' /\ indices'[rev'[y]] = y
      <3>1. CASE y = pos
        BY <1>1, <1>2, <1>3, <3>1
      <3>2. CASE y < pos
        <4>1. rev[y] < q /\ indices[rev[y]] = y
          BY <1>1, <1>2, <1>3, <2>2, <3>2 DEF Stored
        <4> QED
          BY SMTT(30), <1>1, <1>2, <1>3, <3>2, <4>1
      <3>3. CASE y > pos
        BY <1>1, <1>2, <1>3, <2>2, <3>3 DEF Untouched
      <3> QED
        BY <1>1, <1>2, <3>1, <3>2, <3>3
    <2>3. ASSUME NEW x \in 0..q', NEW y \in 0..q', x < y, y < q', indices'[y] # 0
          PROVE  indices'[x] < indices'[y]
      <3>1. CASE y < q
        BY <1>1, <1>2, <1>3, <2>3, <3>1 DEF Stored
      <3>2. CASE y = q
        <4>1. indices'[y] = pos /\ indices'[x] = indices[x]
          BY <1>1, <1>2, <1>3, <2>3, <3>2
        <4>2. indices[x] = 0 \/ indices[x] < pos
          BY <1>1, <1>2, <2>3, <3>2 DEF Stored
        <4> QED
          BY <1>1, <1>2, <2>3, <4>1, <4>2
      <3>3. CASE y > q
        BY <1>1, <1>2, <1>3, <2>3, <3>3 DEF Untouched
      <3> QED
        BY <1>1, <1>2, <2>3, <3>1, <3>2, <3>3
    <2> QED
      BY <2>1, <2>2, <2>3 DEF Stored
  <1> QED
    BY <1>4, <1>5, <1>6, <1>7

\* The entries for the ends complete the tables.
LEMMA FinishTables ==
  ASSUME IInv, Finish
  PROVE  TablesInverse' /\ IndicesIncrease' /\ TypeOK'
  <1> USE DEF TypeOK
  <1>1. input.n \in Nat
    BY InputFacts DEF IInv
  <1>2. /\ pos = input.n /\ q \in 0..input.n /\ q <= pos
        /\ indices \in [0..input.n -> 0..input.n] /\ rev \in [0..input.n -> 0..input.n]
        /\ Stored(q, pos) /\ Untouched(q, pos) /\ (q = 0 <=> pos = 0)
    BY DEF IInv, LoopInv, Progress, Finish
  <1>3. /\ \A x \in 0..input.n : indices'[x] = IF x = q THEN input.n ELSE indices[x]
        /\ \A y \in 0..input.n : rev'[y] = IF y = input.n THEN q ELSE rev[y]
        /\ input' = input /\ q' = q /\ pos' = pos
    BY <1>1, <1>2 DEF Finish
  <1>4. TypeOK'
    BY <1>1, <1>2 DEF Finish
  <1>5. ASSUME NEW u \in 0..q, u = 0 \/ indices'[u] # 0
        PROVE  rev'[indices'[u]] = u
    <2>1. CASE u = q
      BY <1>1, <1>2, <1>3, <2>1
    <2>2. CASE u < q
      <3>1. indices[u] < input.n /\ rev[indices[u]] = u
        BY <1>1, <1>2, <1>3, <1>5, <2>2 DEF Stored
      <3> QED
        BY <1>1, <1>2, <1>3, <2>2, <3>1
    <2> QED
      BY <1>1, <1>2, <2>1, <2>2
  <1>6. ASSUME NEW p \in 0..input.n, p = 0 \/ rev'[p] # 0
        PROVE  indices'[rev'[p]] = p
    <2>1. CASE p = input.n
      BY <1>1, <1>2, <1>3, <2>1
    <2>2. CASE p < input.n
      <3>1. rev[p] < q /\ indices[rev[p]] = p
        BY <1>1, <1>2, <1>3, <1>6, <2>2 DEF Stored
      <3> QED
        BY <1>1, <1>2, <1>3, <2>2, <3>1
    <2> QED
      BY <1>1, <1>2, <2>1, <2>2
  <1>7. ASSUME NEW u \in 0..q, NEW v \in 0..q, u < v, indices'[v] # 0
        PROVE  indices'[u] < indices'[v]
    <2>1. CASE v < q
      BY <1>1, <1>2, <1>3, <1>7, <2>1 DEF Stored
    <2>2. CASE v = q
      <3>1. indices'[v] = input.n /\ indices'[u] = indices[u]
        BY <1>1, <1>2, <1>3, <1>7, <2>2
      <3>2. indices[u] = 0 \/ indices[u] < input.n
        BY <1>1, <1>2, <1>7, <2>2 DEF Stored
      <3> QED
        BY <1>1, <1>2, <1>7, <3>1, <3>2
    <2> QED
      BY <1>1, <1>2, <2>1, <2>2
  <1>8. TablesInverse'
    BY <1>1, <1>2, <1>3, <1>5, <1>6 DEF TablesInverse
  <1>9. IndicesIncrease'
    BY <1>1, <1>2, <1>3, <1>7 DEF IndicesIncrease
  <1> QED
    BY <1>4, <1>8, <1>9

\* Every step of the conversion keeps the invariant.
LEMMA NextIInv == IInv /\ [Next]_vars => IInv'
  <1> SUFFICES ASSUME IInv, [Next]_vars PROVE IInv'
    OBVIOUS
  <1>0. input.n \in Nat /\ input.width \in [0..(input.n - 1) -> 0..4]
        /\ \A p \in 0..(input.n - 1) : p + input.width[p] <= input.n
    BY InputFacts DEF IInv
  <1>1. CASE StayNarrow
    BY <1>1 DEF IInv, StayNarrow, TypeOK, InputOK, Progress, LoopInv, TablesInverse, IndicesIncrease
  <1>2. CASE BeginLoop
    BY <1>2 DEF IInv, BeginLoop, TypeOK, InputOK, Progress, LoopInv, Stored, Untouched,
                TablesInverse, IndicesIncrease
  <1>3. CASE DecodeBmp
    <2>1. Stored(q, pos)' /\ Untouched(q, pos)' /\ Progress'
          /\ indices' \in [0..input.n -> 0..input.n] /\ rev' \in [0..input.n -> 0..input.n]
      <3>1. pos \in 0..(input.n - 1) /\ pos + input.width[pos] <= input.n
        BY <1>0, <1>3 DEF DecodeBmp, IInv, TypeOK
      <3>2. /\ input.width[pos] \in 1..4 /\ 1 \in 1..2 /\ 1 <= input.width[pos]
            /\ status = "loop" /\ pos < input.n /\ RecordStart
            /\ pos' = pos + input.width[pos] /\ q' = q + 1 /\ input' = input
        BY <1>3 DEF DecodeBmp
      <3> QED
        BY <3>1, <3>2, IterationStored
    <2> QED
      BY SMTT(30), <1>0, <1>3, <2>1 DEF IInv, DecodeBmp, TypeOK, InputOK, Progress, LoopInv,
                              TablesInverse, IndicesIncrease
  <1>4. CASE DecodePair
    <2>1. Stored(q, pos)' /\ Untouched(q, pos)' /\ Progress'
          /\ indices' \in [0..input.n -> 0..input.n] /\ rev' \in [0..input.n -> 0..input.n]
      <3>1. pos \in 0..(input.n - 1) /\ pos + 4 <= input.n
        BY <1>0, <1>4 DEF DecodePair, IInv, TypeOK
      <3> QED
        BY <1>0, <1>4, <3>1, IterationStored DEF DecodePair
    <2> QED
      BY <1>0, <1>4, <2>1 DEF IInv, DecodePair, TypeOK, InputOK, Progress, LoopInv,
                              TablesInverse, IndicesIncrease
  <1>5. CASE Malformed
    BY <1>0, <1>5 DEF IInv, Malformed, RecordStart, TypeOK, InputOK, Progress, LoopInv,
                      TablesInverse, IndicesIncrease
  <1>6. CASE Finish
    <2>1. TablesInverse' /\ IndicesIncrease' /\ TypeOK'
      BY <1>6, FinishTables
    <2> QED
      BY <1>6, <2>1 DEF IInv, Finish, InputOK, Progress, LoopInv
  <1>7. CASE UNCHANGED vars
    BY <1>7 DEF IInv, vars, TypeOK, InputOK, Progress, LoopInv, Stored, Untouched,
                TablesInverse, IndicesIncrease
  <1> QED
    BY <1>1, <1>2, <1>3, <1>4, <1>5, <1>6, <1>7 DEF Next

LEMMA Invariance == Spec => []IInv
  BY InitIInv, NextIInv, PTL DEF Spec

-----------------------------------------------------------------------------
\* The conversion never stores outside the arrays it allocated, whatever the
\* string: the positions stay in range and the tables hold in-range entries.
THEOREM TypeCorrect == Spec => []TypeOK
  <1>1. IInv => TypeOK
    BY DEF IInv
  <1> QED
    BY <1>1, Invariance, PTL

\* The two tables regexp_exec translates through are inverse to each other at
\* the boundaries of characters, for every well-formed string.
THEOREM TablesAreInverse == Spec => []TablesInverse
  <1>1. IInv => TablesInverse
    BY DEF IInv
  <1> QED
    BY <1>1, Invariance, PTL

\* Translated positions keep the order of the units they translate.
THEOREM TranslationIsMonotone == Spec => []IndicesIncrease
  <1>1. IInv => IndicesIncrease
    BY DEF IInv
  <1> QED
    BY <1>1, Invariance, PTL

-----------------------------------------------------------------------------
(***************************************************************************)
(* The userdata of a finished conversion.                                  *)
(*                                                                         *)
(* Offsets is chosen, so that it has the sums of its sizes needs a         *)
(* function that has them.                                                 *)
(***************************************************************************)
\* What holds of 0, and of k + 1 whenever it holds of k, holds up to L.
LEMMA Ascent ==
  ASSUME NEW D \in SUBSET Nat, NEW L \in Nat, 0 \in D, \A k \in 0..(L - 1) : k \in D => k + 1 \in D
  PROVE  \A k \in 0..L : k \in D
  <1> DEFINE R == {ss \in Nat \X Nat : ss[1] < ss[2]}
             S == {k \in 0..L : k \notin D}
  <1>1. SUFFICES ASSUME S # {} PROVE FALSE
    OBVIOUS
  <1>2. IsWellFoundedOn(R, Nat) /\ S \in SUBSET Nat
    BY NatLessThanWellFounded DEF OpToRel
  <1>3. PICK p \in S : \A n \in S : ~(<<n, p>> \in R)
    <2> HIDE DEF R, S
    <2> QED
      BY <1>1, <1>2, WFMin
  <1>4. p # 0 /\ p \in Nat /\ p <= L /\ p \notin D
    OBVIOUS
  <1>5. p - 1 \in 0..(L - 1) /\ (p - 1) + 1 = p
    BY <1>4
  <1>6. p - 1 \in D
    <2>1. p - 1 \in Nat /\ p - 1 < p /\ p - 1 \in 0..L
      BY <1>4, <1>5
    <2>2. <<p - 1, p>> \in R
      BY <1>4, <2>1
    <2>3. p - 1 \notin S
      BY <1>3, <2>2
    <2> QED
      BY <2>1, <2>3
  <1> QED
    BY <1>4, <1>5, <1>6

Sums(sizes, n, f) == f = [k \in 0..n |-> IF k = 0 THEN 0 ELSE f[k - 1] + sizes[k]]

LEMMA SumsExist ==
  ASSUME NEW sizes \in Seq(Nat)
  PROVE  \E f : Sums(sizes, Len(sizes), f)
  <1> DEFINE L == Len(sizes)
             D == {n \in Nat : \E f : Sums(sizes, n, f)}
  <1>1. L \in Nat
    OBVIOUS
  <1>2. 0 \in D
    <2> DEFINE f == [k \in 0..0 |-> 0]
    <2>1. Sums(sizes, 0, f)
      BY DEF Sums
    <2> QED
      BY <2>1
  <1>3. ASSUME NEW n \in 0..(L - 1), n \in D PROVE n + 1 \in D
    <2>1. PICK f : Sums(sizes, n, f)
      BY <1>3
    <2>2. n \in Nat /\ n + 1 \in Nat
      OBVIOUS
    <2> DEFINE g == [k \in 0..(n + 1) |-> IF k = n + 1 THEN f[n] + sizes[n + 1] ELSE f[k]]
    <2>3. \A k \in 0..n : g[k] = f[k] /\ f[k] = IF k = 0 THEN 0 ELSE f[k - 1] + sizes[k]
      BY <2>1, <2>2 DEF Sums
    <2>4. \A k \in 0..(n + 1) : g[k] = IF k = 0 THEN 0 ELSE g[k - 1] + sizes[k]
      <3> SUFFICES ASSUME NEW k \in 0..(n + 1)
                   PROVE  g[k] = IF k = 0 THEN 0 ELSE g[k - 1] + sizes[k]
        OBVIOUS
      <3>1. CASE k = n + 1
        <4>1. g[k] = f[n] + sizes[n + 1] /\ k # 0 /\ k - 1 = n
          BY <2>2, <3>1
        <4>2. g[n] = f[n]
          BY <2>2, <2>3
        <4> HIDE DEF g
        <4> QED
          BY <3>1, <4>1, <4>2
      <3>2. CASE k # n + 1
        <4>1. k \in 0..n /\ (k # 0 => k - 1 \in 0..n)
          BY <2>2, <3>2
        <4> HIDE DEF g
        <4> QED
          BY <2>3, <4>1
      <3> QED
        BY <3>1, <3>2
    <2>5. g = [k \in 0..(n + 1) |-> g[k]]
      OBVIOUS
    <2> HIDE DEF g
    <2>6. Sums(sizes, n + 1, g)
      BY <2>4, <2>5 DEF Sums
    <2> QED
      BY <2>2, <2>6
  <1>4. D \in SUBSET Nat
    OBVIOUS
  <1> HIDE DEF D
  <1>5. \A k \in 0..L : k \in D
    BY <1>1, <1>2, <1>3, <1>4, Ascent
  <1>6. L \in D
    BY <1>1, <1>5
  <1> QED
    BY <1>6 DEF D

LEMMA OffsetsEquation ==
  ASSUME NEW sizes \in Seq(Nat)
  PROVE  /\ Offsets(sizes) \in [0..Len(sizes) -> Nat]
         /\ Offsets(sizes)[0] = 0
         /\ \A k \in 1..Len(sizes) : Offsets(sizes)[k] = Offsets(sizes)[k - 1] + sizes[k]
  <1> DEFINE L == Len(sizes)
             o == Offsets(sizes)
  <1>0. L \in Nat
    OBVIOUS
  <1>1. Sums(sizes, L, o)
    <2> DEFINE s == CHOOSE f : Sums(sizes, L, f)
    <2>1. Sums(sizes, L, s)
      BY SumsExist
    <2>2. o = s
      BY DEF Offsets, Sums
    <2> QED
      BY <2>1, <2>2
  <1>2. o = [k \in 0..L |-> IF k = 0 THEN 0 ELSE o[k - 1] + sizes[k]]
    BY <1>1 DEF Sums
  <1> HIDE DEF o
  <1>3. o[0] = 0
    BY <1>0, <1>2
  <1>4. \A k \in 1..L : o[k] = o[k - 1] + sizes[k]
    BY <1>0, <1>2
  <1>5. \A k \in 0..L : o[k] \in Nat
    <2> DEFINE D == {k \in Nat : o[k] \in Nat}
    <2>1. 0 \in D
      BY <1>3
    <2>2. ASSUME NEW k \in 0..(L - 1), k \in D PROVE k + 1 \in D
      <3>1. k + 1 \in 1..L /\ (k + 1) - 1 = k
        BY <1>0
      <3>2. sizes[k + 1] \in Nat
        BY <3>1
      <3> QED
        BY <1>4, <2>2, <3>1, <3>2
    <2>3. D \in SUBSET Nat
      OBVIOUS
    <2> HIDE DEF D
    <2>4. \A k \in 0..L : k \in D
      BY <1>0, <2>1, <2>2, <2>3, Ascent
    <2> QED
      BY <2>4 DEF D
  <1>6. o \in [0..L -> Nat]
    <2>1. o = [k \in 0..L |-> o[k]]
      BY <1>2
    <2> QED
      BY <1>5, <2>1
  <1> QED
    BY <1>3, <1>4, <1>6 DEF o

LEMMA OffsetsIncrease ==
  ASSUME NEW sizes \in Seq(Nat), \A n \in 1..Len(sizes) : sizes[n] > 0,
         NEW j \in 0..Len(sizes), NEW k \in 0..Len(sizes), j < k
  PROVE  Offsets(sizes)[j] < Offsets(sizes)[k]
  <1> DEFINE L == Len(sizes)
             o == Offsets(sizes)
             D == {m \in Nat : \A n \in 0..L : n < m /\ m <= L => o[n] < o[m]}
  <1>1. /\ L \in Nat /\ o \in [0..L -> Nat]
        /\ \A m \in 1..L : o[m] = o[m - 1] + sizes[m]
    BY OffsetsEquation
  <1> HIDE DEF o
  <1>2. 0 \in D
    BY <1>1
  <1>3. ASSUME NEW m \in 0..(L - 1), m \in D PROVE m + 1 \in D
    <2>1. m + 1 \in 1..L /\ (m + 1) - 1 = m /\ m \in 0..L /\ m + 1 \in 0..L
      BY <1>1
    <2>2. o[m + 1] = o[m] + sizes[m + 1] /\ sizes[m + 1] \in Nat /\ sizes[m + 1] > 0
      BY <1>1, <2>1
    <2>3. o[m] \in Nat /\ o[m] < o[m + 1]
      <3>1. o[m] \in Nat
        BY <1>1, <2>1
      <3> QED
        BY <2>2, <3>1
    <2>4. ASSUME NEW n \in 0..L, n < m + 1 PROVE o[n] < o[m + 1]
      <3>1. o[n] \in Nat
        BY <1>1
      <3>2. n = m \/ o[n] < o[m]
        <4>1. n = m \/ n < m
          BY <1>1, <2>4
        <4>2. m <= L
          BY <1>1
        <4> QED
          BY <1>3, <4>1, <4>2
      <3> QED
        BY <2>2, <2>3, <3>1, <3>2
    <2> QED
      BY <2>1, <2>4
  <1>4. D \in SUBSET Nat
    OBVIOUS
  <1> HIDE DEF D
  <1>5. \A m \in 0..L : m \in D
    BY <1>1, <1>2, <1>3, <1>4, Ascent
  <1> QED
    BY <1>5 DEF D, o

-----------------------------------------------------------------------------
(***************************************************************************)
(* A text: where its characters start, in bytes and in units.              *)
(***************************************************************************)
Texts == Seq(0..4)

Bytes(text) == Offsets(BytesOf(text))

LEMMA TextFacts ==
  ASSUME NEW text \in Texts
  PROVE  LET L == Len(text)
             b == Bytes(text)
             u == UnitOffsets(text)
         IN  /\ L \in Nat
             /\ b \in [0..L -> Nat] /\ u \in [0..L -> Nat]
             /\ b[0] = 0 /\ u[0] = 0
             /\ \A k \in 1..L : /\ text[k] \in 0..4
                                /\ b[k] = b[k - 1] + (IF text[k] = 0 THEN 1 ELSE text[k])
                                /\ u[k] = u[k - 1] + UnitsOf(text[k])
             /\ \A j, k \in 0..L : j < k => b[j] < b[k] /\ u[j] < u[k]
  <1> DEFINE L == Len(text)
             sizes == BytesOf(text)
             units == [k \in 1..L |-> UnitsOf(text[k])]
  <1>1. L \in Nat /\ \A k \in 1..L : text[k] \in 0..4
    BY DEF Texts
  <1>2. /\ \A k \in 1..L : sizes[k] = (IF text[k] = 0 THEN 1 ELSE text[k]) /\ sizes[k] \in Nat /\ sizes[k] > 0
        /\ sizes = [k \in 1..L |-> sizes[k]]
    BY <1>1 DEF BytesOf
  <1>3. \A k \in 1..L : units[k] = UnitsOf(text[k]) /\ units[k] \in Nat /\ units[k] > 0
    BY <1>1 DEF UnitsOf
  <1> HIDE DEF sizes
  <1>4. sizes \in Seq(Nat) /\ Len(sizes) = L
    <2>1. sizes \in [1..L -> Nat]
      BY <1>2
    <2> QED
      BY <1>1, <2>1
  <1>5. units \in Seq(Nat) /\ Len(units) = L
    <2>1. units \in [1..L -> Nat]
      BY <1>3
    <2> HIDE DEF units
    <2> QED
      BY <1>1, <2>1
  <1>6. Bytes(text) = Offsets(sizes) /\ UnitOffsets(text) = Offsets(units)
    BY DEF Bytes, sizes, UnitOffsets
  <1> HIDE DEF units
  <1>7. /\ Offsets(sizes) \in [0..L -> Nat] /\ Offsets(sizes)[0] = 0
        /\ \A k \in 1..L : Offsets(sizes)[k] = Offsets(sizes)[k - 1] + sizes[k]
    BY <1>4, OffsetsEquation
  <1>8. /\ Offsets(units) \in [0..L -> Nat] /\ Offsets(units)[0] = 0
        /\ \A k \in 1..L : Offsets(units)[k] = Offsets(units)[k - 1] + units[k]
    BY <1>5, OffsetsEquation
  <1>9. ASSUME NEW j \in 0..L, NEW k \in 0..L, j < k
        PROVE  Offsets(sizes)[j] < Offsets(sizes)[k] /\ Offsets(units)[j] < Offsets(units)[k]
    <2>1. Offsets(sizes)[j] < Offsets(sizes)[k]
      BY <1>2, <1>4, <1>9, OffsetsIncrease
    <2>2. Offsets(units)[j] < Offsets(units)[k]
      BY <1>3, <1>5, <1>9, OffsetsIncrease
    <2> QED
      BY <2>1, <2>2
  <1> QED
    BY <1>1, <1>2, <1>3, <1>6, <1>7, <1>8, <1>9

\* A character has no more units than bytes.
LEMMA UnitsBelowBytes ==
  ASSUME NEW text \in Texts, NEW k \in 0..Len(text)
  PROVE  UnitOffsets(text)[k] <= Bytes(text)[k]
  <1> DEFINE L == Len(text)
             b == Bytes(text)
             u == UnitOffsets(text)
             D == {m \in Nat : u[m] <= b[m]}
  <1>1. /\ L \in Nat /\ b \in [0..L -> Nat] /\ u \in [0..L -> Nat]
        /\ b[0] = 0 /\ u[0] = 0
        /\ \A m \in 1..L : /\ text[m] \in 0..4
                           /\ b[m] = b[m - 1] + (IF text[m] = 0 THEN 1 ELSE text[m])
                           /\ u[m] = u[m - 1] + UnitsOf(text[m])
    BY TextFacts
  <1> HIDE DEF b, u
  <1>2. 0 \in D
    BY <1>1
  <1>3. ASSUME NEW m \in 0..(L - 1), m \in D PROVE m + 1 \in D
    <2>1. m + 1 \in 1..L /\ (m + 1) - 1 = m /\ m \in 0..L
      BY <1>1
    <2>2. b[m] \in Nat /\ u[m] \in Nat /\ u[m] <= b[m]
      BY <1>1, <1>3, <2>1
    <2>3. text[m + 1] \in 0..4
      BY <1>1, <2>1
    <2>4. b[m + 1] = b[m] + (IF text[m + 1] = 0 THEN 1 ELSE text[m + 1]) /\ u[m + 1] = u[m] + UnitsOf(text[m + 1])
      BY <1>1, <2>1
    <2> QED
      BY <2>1, <2>2, <2>3, <2>4 DEF UnitsOf
  <1>4. D \in SUBSET Nat
    OBVIOUS
  <1> HIDE DEF D
  <1>5. \A m \in 0..L : m \in D
    BY <1>1, <1>2, <1>3, <1>4, Ascent
  <1> QED
    BY <1>5 DEF D, b, u

\* In a text of single bytes, characters, bytes and units are counted alike.
LEMMA SingleBytes ==
  ASSUME NEW text \in Texts, \A j \in 1..Len(text) : text[j] = 1, NEW k \in 0..Len(text)
  PROVE  Bytes(text)[k] = k /\ UnitOffsets(text)[k] = k
  <1> DEFINE L == Len(text)
             b == Bytes(text)
             u == UnitOffsets(text)
             D == {m \in Nat : b[m] = m /\ u[m] = m}
  <1>1. /\ L \in Nat
        /\ b[0] = 0 /\ u[0] = 0
        /\ \A m \in 1..L : /\ b[m] = b[m - 1] + (IF text[m] = 0 THEN 1 ELSE text[m])
                           /\ u[m] = u[m - 1] + UnitsOf(text[m])
    BY TextFacts
  <1> HIDE DEF b, u
  <1>2. 0 \in D
    BY <1>1
  <1>3. ASSUME NEW m \in 0..(L - 1), m \in D PROVE m + 1 \in D
    <2>1. m + 1 \in 1..L /\ (m + 1) - 1 = m /\ m \in Nat
      BY <1>1
    <2>2. text[m + 1] = 1 /\ b[m] = m /\ u[m] = m
      BY <1>3, <2>1
    <2>3. b[m + 1] = b[m] + 1 /\ u[m + 1] = u[m] + 1
      BY <1>1, <2>1, <2>2 DEF UnitsOf
    <2> QED
      BY <2>1, <2>2, <2>3
  <1>4. D \in SUBSET Nat
    OBVIOUS
  <1> HIDE DEF D
  <1>5. \A m \in 0..L : m \in D
    BY <1>1, <1>2, <1>3, <1>4, Ascent
  <1> QED
    BY <1>5 DEF D, b, u

\* What the loop is given.
LEMMA InputWidths ==
  ASSUME NEW text \in Texts
  PROVE  /\ InputOf(text).text = text /\ InputOf(text).n = Bytes(text)[Len(text)]
         /\ \A k \in 1..Len(text) : /\ Bytes(text)[k - 1] \in 0..(InputOf(text).n - 1)
                                    /\ InputOf(text).width[Bytes(text)[k - 1]] = text[k]
         /\ \A p \in 0..(InputOf(text).n - 1) :
              InputOf(text).width[p] # 0 => \E k \in 1..Len(text) : p = Bytes(text)[k - 1]
  <1> DEFINE L == Len(text)
             b == Bytes(text)
             n == b[L]
             width == [p \in 0..(n - 1) |->
                         IF \E k \in 1..L : b[k - 1] = p
                           THEN text[CHOOSE k \in 1..L : b[k - 1] = p]
                           ELSE 0]
  <1>1. InputOf(text) = [text |-> text, n |-> n, width |-> width]
    BY DEF InputOf, Bytes
  <1>2. /\ L \in Nat /\ b \in [0..L -> Nat]
        /\ \A j, k \in 0..L : j < k => b[j] < b[k]
    BY TextFacts
  <1> HIDE DEF b
  <1>3. InputOf(text).text = text /\ InputOf(text).n = n /\ InputOf(text).width = width
    BY <1>1
  <1>4. ASSUME NEW k \in 1..L PROVE b[k - 1] \in 0..(n - 1) /\ width[b[k - 1]] = text[k]
    <2>1. k - 1 \in 0..L /\ L \in 0..L /\ k - 1 < L
      BY <1>2
    <2>2. b[k - 1] \in Nat /\ n \in Nat /\ b[k - 1] < n
      BY <1>2, <2>1
    <2>3. b[k - 1] \in 0..(n - 1)
      BY <2>2
    <2> DEFINE m == CHOOSE j \in 1..L : b[j - 1] = b[k - 1]
    <2>4. m \in 1..L /\ b[m - 1] = b[k - 1]
      OBVIOUS
    <2> HIDE DEF m
    <2>5. m - 1 \in 0..L /\ b[m - 1] \in Nat
      BY <1>2, <2>4
    <2>6. m - 1 = k - 1
      <3>1. ~(m - 1 < k - 1)
        BY <1>2, <2>1, <2>2, <2>4, <2>5
      <3>2. ~(k - 1 < m - 1)
        BY <1>2, <2>1, <2>2, <2>4, <2>5
      <3> QED
        BY <2>1, <2>5, <3>1, <3>2
    <2>7. m = k
      BY <2>4, <2>6
    <2>8. width[b[k - 1]] = text[m]
      BY <2>3 DEF m
    <2> QED
      BY <2>3, <2>7, <2>8
  <1>5. ASSUME NEW p \in 0..(n - 1), width[p] # 0 PROVE \E k \in 1..L : p = b[k - 1]
    BY <1>5
  <1> HIDE DEF width, n
  <1>6. /\ \A k \in 1..Len(text) : /\ Bytes(text)[k - 1] \in 0..(InputOf(text).n - 1)
                                   /\ InputOf(text).width[Bytes(text)[k - 1]] = text[k]
    BY <1>3, <1>4 DEF b
  <1>7. /\ \A p \in 0..(InputOf(text).n - 1) :
             InputOf(text).width[p] # 0 => \E k \in 1..Len(text) : p = Bytes(text)[k - 1]
    BY <1>3, <1>5 DEF b
  <1>8. n = Bytes(text)[Len(text)]
    BY DEF n, b
  <1> QED
    BY <1>3, <1>6, <1>7, <1>8

-----------------------------------------------------------------------------
(***************************************************************************)
(* The userdata of a text without malformed characters.                    *)
(***************************************************************************)
WellFormed(text) == \A k \in 1..Len(text) : text[k] # 0

\* An entry is stored for each of the keys, and there is none for others.
Table(f, n, L, key, value) ==
  /\ f = [x \in 0..n |-> f[x]]
  /\ \A k \in 0..L : f[key[k]] = value[k]
  /\ \A x \in 0..n : f[x] = 0 \/ \E k \in 0..L : key[k] = x

\* It is the only function that has them.
LEMMA TableUnique ==
  ASSUME NEW f, NEW g, NEW n, NEW L, NEW key, NEW value, Table(f, n, L, key, value), Table(g, n, L, key, value)
  PROVE  f = g
  <1>1. ASSUME NEW x \in 0..n PROVE f[x] = g[x]
    <2>1. CASE \E k \in 0..L : key[k] = x
      <3>1. PICK k \in 0..L : key[k] = x
        BY <2>1
      <3>2. f[key[k]] = value[k] /\ g[key[k]] = value[k]
        BY DEF Table
      <3> QED
        BY <3>1, <3>2
    <2>2. CASE ~ \E k \in 0..L : key[k] = x
      <3>1. f[x] = 0 /\ g[x] = 0
        BY <2>2 DEF Table
      <3> QED
        BY <3>1
    <2> QED
      BY <2>1, <2>2
  <1> QED
    BY <1>1 DEF Table

LEMMA TableOfKeys ==
  ASSUME NEW L \in Nat, NEW n \in Nat, NEW key \in [0..L -> Nat], NEW value \in [0..L -> Nat],
         \A k \in 0..L : key[k] <= n,
         \A j, k \in 0..L : j < k => key[j] < key[k]
  PROVE  Table([x \in 0..n |-> IF \E k \in 0..L : key[k] = x
                                 THEN value[CHOOSE k \in 0..L : key[k] = x] ELSE 0],
               n, L, key, value)
  <1> DEFINE f == [x \in 0..n |-> IF \E k \in 0..L : key[k] = x
                                    THEN value[CHOOSE k \in 0..L : key[k] = x] ELSE 0]
  <1>1. f = [x \in 0..n |-> f[x]]
    OBVIOUS
  <1>2. ASSUME NEW k \in 0..L PROVE f[key[k]] = value[k]
    <2> DEFINE m == CHOOSE j \in 0..L : key[j] = key[k]
    <2>1. m \in 0..L /\ key[m] = key[k]
      OBVIOUS
    <2>2. key[k] \in 0..n
      <3>1. key[k] \in Nat /\ key[k] <= n
        OBVIOUS
      <3> QED
        BY <3>1
    <2>3. f[key[k]] = value[m]
      BY <2>2
    <2> HIDE DEF m, f
    <2>4. m = k
      <3>1. key[m] \in Nat /\ key[k] \in Nat
        BY <2>1
      <3>2. ~(m < k) /\ ~(k < m)
        BY <2>1, <3>1
      <3> QED
        BY <2>1, <3>2
    <2> QED
      BY <2>3, <2>4
  <1>3. \A x \in 0..n : f[x] = 0 \/ \E k \in 0..L : key[k] = x
    OBVIOUS
  <1> HIDE DEF f
  <1>4. Table(f, n, L, key, value)
    BY <1>1, <1>2, <1>3 DEF Table
  <1> QED
    BY <1>4 DEF f

LEMMA UserdataFacts ==
  ASSUME NEW text \in Texts, WellFormed(text)
  PROVE  LET js == JsStringOf(text)
             L == Len(text)
             b == Bytes(text)
             u == UnitOffsets(text)
         IN  /\ js.wide = (\E k \in 1..L : text[k] > 1)
             /\ js.blen = b[L] /\ js.len = u[L]
             /\ js.bounds = {u[k] : k \in 0..L}
             /\ js.wide => Table(js.indices, b[L], L, u, b) /\ Table(js.rev, b[L], L, b, u)
  <1> DEFINE L == Len(text)
             b == Bytes(text)
             u == UnitOffsets(text)
             n == b[L]
             indices0 == [x \in 0..n |-> IF \E k \in 0..L : u[k] = x
                                           THEN b[CHOOSE k \in 0..L : u[k] = x] ELSE 0]
             rev0 == [x \in 0..n |-> IF \E k \in 0..L : b[k] = x
                                       THEN u[CHOOSE k \in 0..L : b[k] = x] ELSE 0]
             wide == \E k \in 1..L : text[k] > 1
             js == JsStringOf(text)
  <1>1. ByteOffsets(text) = b
    <2>1. \A k \in 1..L : BytesOf(text)[k] = text[k]
      BY DEF WellFormed, BytesOf
    <2>2. BytesOf(text) = text
      <3>1. text = [k \in 1..L |-> text[k]]
        BY DEF Texts
      <3>2. BytesOf(text) = [k \in 1..L |-> BytesOf(text)[k]]
        BY DEF BytesOf
      <3> QED
        BY <2>1, <3>1, <3>2
    <2> QED
      BY <2>2 DEF ByteOffsets, Bytes
  <1>2. js = [wide |-> wide, blen |-> n, len |-> u[L], bounds |-> {u[k] : k \in 0..L},
              indices |-> IF wide THEN indices0 ELSE <<>>, rev |-> IF wide THEN rev0 ELSE <<>>]
    BY <1>1 DEF JsStringOf
  <1>3. /\ L \in Nat /\ b \in [0..L -> Nat] /\ u \in [0..L -> Nat]
        /\ \A j, k \in 0..L : j < k => b[j] < b[k] /\ u[j] < u[k]
    BY TextFacts
  <1>4. \A k \in 0..L : b[k] <= n /\ u[k] <= n
    <2> SUFFICES ASSUME NEW k \in 0..L PROVE b[k] <= n /\ u[k] <= n
      OBVIOUS
    <2>1. L \in 0..L /\ (k = L \/ k < L) /\ b[k] \in Nat /\ u[k] \in Nat /\ n \in Nat
      BY <1>3
    <2>2. b[k] <= n
      BY <1>3, <2>1
    <2>3. u[k] <= b[k]
      BY UnitsBelowBytes
    <2> QED
      BY <2>1, <2>2, <2>3
  <1>5. n \in Nat
    BY <1>3
  <1>6. Table(indices0, n, L, u, b)
    <2>1. \A j, k \in 0..L : j < k => u[j] < u[k]
      BY <1>3
    <2> HIDE DEF n, b, u
    <2> QED
      BY <1>3, <1>4, <1>5, <2>1, TableOfKeys
  <1>7. Table(rev0, n, L, b, u)
    <2>1. \A j, k \in 0..L : j < k => b[j] < b[k]
      BY <1>3
    <2> HIDE DEF n, b, u
    <2> QED
      BY <1>3, <1>4, <1>5, <2>1, TableOfKeys
  <1> HIDE DEF indices0, rev0
  <1>8. /\ js.wide = wide /\ js.blen = n /\ js.len = u[L] /\ js.bounds = {u[k] : k \in 0..L}
        /\ wide => js.indices = indices0 /\ js.rev = rev0
    BY <1>2
  <1> QED
    BY <1>6, <1>7, <1>8

\* Whatever the text, its userdata is as regexp_exec needs it: this is what the
\* methods of a RegExp are proved from.  (jsstring_new, jsregexp.c)
THEOREM UserdataIsRight ==
  ASSUME NEW text \in Texts, WellFormed(text)
  PROVE  JsStringOK(JsStringOf(text))
  <1> DEFINE js == JsStringOf(text)
             L == Len(text)
             b == Bytes(text)
             u == UnitOffsets(text)
  <1>1. /\ js.wide = (\E k \in 1..L : text[k] > 1)
        /\ js.blen = b[L] /\ js.len = u[L]
        /\ js.bounds = {u[k] : k \in 0..L}
        /\ js.wide => Table(js.indices, b[L], L, u, b) /\ Table(js.rev, b[L], L, b, u)
    BY UserdataFacts
  <1>2. /\ L \in Nat /\ b \in [0..L -> Nat] /\ u \in [0..L -> Nat]
        /\ b[0] = 0 /\ u[0] = 0
        /\ \A j, k \in 0..L : j < k => b[j] < b[k] /\ u[j] < u[k]
    BY TextFacts
  <1>3. \A k \in 0..L : u[k] <= b[k]
    BY UnitsBelowBytes
  <1>0. \A k \in 1..L : text[k] \in 0..4
    BY TextFacts
  <1>4. ~js.wide => \A k \in 0..L : b[k] = k /\ u[k] = k
    <2> SUFFICES ASSUME ~js.wide, NEW k \in 0..L PROVE b[k] = k /\ u[k] = k
      OBVIOUS
    <2>1. \A j \in 1..L : text[j] = 1
      BY <1>0, <1>1 DEF WellFormed
    <2> QED
      BY <2>1, SingleBytes
  <1> HIDE DEF b, u, js
  <1>5. 0 \in 0..L /\ L \in 0..L
    BY <1>2
  <1>6. \A k \in 0..L : b[k] \in 0..b[L] /\ u[k] \in 0..u[L]
    <2> SUFFICES ASSUME NEW k \in 0..L PROVE b[k] \in 0..b[L] /\ u[k] \in 0..u[L]
      OBVIOUS
    <2>1. (k = L \/ k < L) /\ b[k] \in Nat /\ u[k] \in Nat /\ b[L] \in Nat /\ u[L] \in Nat
      BY <1>2, <1>5
    <2>2. b[k] <= b[L] /\ u[k] <= u[L]
      BY <1>2, <1>5, <2>1
    <2> QED
      BY <2>1, <2>2
  <1>7. js.wide \in BOOLEAN /\ js.blen \in Nat /\ js.len \in 0..js.blen
    <2>1. b[L] \in Nat /\ u[L] \in Nat /\ u[L] <= b[L]
      BY <1>2, <1>3, <1>5
    <2> QED
      BY <1>1, <2>1
  <1>8. js.bounds \subseteq 0..js.len /\ 0 \in js.bounds /\ js.len \in js.bounds
    BY <1>1, <1>2, <1>5, <1>6
  <1>9. CASE js.wide
    <2>1. /\ js.indices = [x \in 0..b[L] |-> js.indices[x]]
          /\ \A k \in 0..L : js.indices[u[k]] = b[k]
          /\ \A x \in 0..b[L] : js.indices[x] = 0 \/ \E k \in 0..L : u[k] = x
      BY <1>1, <1>9 DEF Table
    <2>2. /\ js.rev = [x \in 0..b[L] |-> js.rev[x]]
          /\ \A k \in 0..L : js.rev[b[k]] = u[k]
          /\ \A x \in 0..b[L] : js.rev[x] = 0 \/ \E k \in 0..L : b[k] = x
      BY <1>1, <1>9 DEF Table
    <2>0. b[L] \in Nat /\ u[L] \in Nat
      BY <1>2, <1>5
    <2>3. js.indices \in [0..js.blen -> 0..js.blen]
      <3>1. ASSUME NEW x \in 0..b[L] PROVE js.indices[x] \in 0..b[L]
        <4>1. CASE js.indices[x] = 0
          BY <2>0, <4>1
        <4>2. CASE \E k \in 0..L : u[k] = x
          <5>1. PICK k \in 0..L : u[k] = x
            BY <4>2
          <5>2. js.indices[x] = b[k]
            BY <2>1, <5>1
          <5> QED
            BY <1>6, <5>2
        <4> QED
          BY <2>1, <4>1, <4>2
      <3> QED
        BY <1>1, <2>1, <3>1
    <2>4. js.rev \in [0..js.blen -> 0..js.len]
      <3>1. ASSUME NEW x \in 0..b[L] PROVE js.rev[x] \in 0..u[L]
        <4>1. CASE js.rev[x] = 0
          BY <2>0, <4>1
        <4>2. CASE \E k \in 0..L : b[k] = x
          <5>1. PICK k \in 0..L : b[k] = x
            BY <4>2
          <5>2. js.rev[x] = u[k]
            BY <2>2, <5>1
          <5> QED
            BY <1>6, <5>2
        <4> QED
          BY <2>2, <4>1, <4>2
      <3> QED
        BY <1>1, <2>2, <3>1
    <2>5. js.indices[0] = 0 /\ js.indices[js.len] = js.blen /\ js.rev[js.blen] = js.len
      <3>1. js.indices[u[0]] = b[0] /\ js.indices[u[L]] = b[L]
        BY <1>5, <2>1
      <3>2. js.rev[b[L]] = u[L]
        BY <1>5, <2>2
      <3>3. js.blen = b[L] /\ js.len = u[L]
        BY <1>1
      <3>4. u[0] = 0 /\ b[0] = 0
        BY <1>2
      <3> QED
        BY <3>1, <3>2, <3>3, <3>4
    <2>6. \A v \in js.bounds : js.rev[js.indices[v]] = v
      BY <1>1, <2>1, <2>2
    <2>7. ASSUME NEW v \in js.bounds, NEW w \in js.bounds, v < w PROVE js.indices[v] < js.indices[w]
      <3>1. PICK j \in 0..L : u[j] = v
        BY <1>1
      <3>2. PICK k \in 0..L : u[k] = w
        BY <1>1
      <3>3. j < k
        <4>1. u[j] \in Nat /\ u[k] \in Nat
          BY <1>2
        <4>2. ~(k < j) /\ k # j
          BY <1>2, <2>7, <3>1, <3>2, <4>1
        <4> QED
          BY <4>2
      <3> QED
        BY <1>2, <2>1, <3>1, <3>2, <3>3
    <2>8. ASSUME NEW x \in 1..js.blen, js.rev[x] # 0
          PROVE  js.rev[x] \in js.bounds /\ js.indices[js.rev[x]] = x
      <3>1. x \in 0..b[L]
        BY <1>1, <2>0
      <3>2. PICK k \in 0..L : b[k] = x
        BY <2>2, <2>8, <3>1
      <3>3. js.rev[x] = u[k]
        BY <2>2, <3>2
      <3> QED
        BY <1>1, <2>1, <3>2, <3>3
    <2>9. TablesOK(js)
      BY <2>3, <2>4, <2>5, <2>6, <2>7, <2>8 DEF TablesOK
    <2> QED
      BY <1>7, <1>8, <1>9, <2>9 DEF JsStringOK, js
  <1>10. CASE ~js.wide
    <2>1. js.len = L /\ js.blen = L /\ js.bounds = {k : k \in 0..L}
      BY <1>1, <1>4, <1>5, <1>10
    <2>2. js.bounds = 0..js.len
      BY <2>1
    <2> QED
      BY <1>7, <1>8, <1>10, <2>1, <2>2 DEF JsStringOK, js
  <1> QED
    BY <1>9, <1>10

-----------------------------------------------------------------------------
(***************************************************************************)
(* The loop makes that userdata.                                           *)
(***************************************************************************)
\* The first k characters are decoded, and their entries are stored.
UpTo(k) ==
  LET b == Bytes(input.text)
      u == UnitOffsets(input.text)
  IN  /\ pos = b[k] /\ q = u[k]
      /\ \A j \in 1..k : input.text[j] # 0
      /\ \A j \in 0..(k - 1) : indices[u[j]] = b[j] /\ rev[b[j]] = u[j]
      /\ \A x \in 0..input.n : indices[x] = 0 \/ \E j \in 0..(k - 1) : u[j] = x
      /\ \A x \in 0..input.n : rev[x] = 0 \/ \E j \in 0..(k - 1) : b[j] = x

Converting ==
  /\ status \in {"start", "loop"} => \E k \in 0..Len(input.text) : UpTo(k)
  /\ status \in {"loop", "wide", "malformed"} => ContainsNonAscii

TextInv == IInv /\ Converting /\ MatchesJsString

\* The input of a text that is converted.
LEMMA InputText ==
  ASSUME InputOK
  PROVE  LET text == input.text
             b == Bytes(text)
         IN  /\ text \in Texts /\ input.n = b[Len(text)] /\ input.n \in Nat
             /\ \A k \in 1..Len(text) : b[k - 1] \in 0..(input.n - 1) /\ input.width[b[k - 1]] = text[k]
             /\ \A p \in 0..(input.n - 1) :
                  input.width[p] # 0 => \E k \in 1..Len(text) : p = b[k - 1]
  <1>1. input.text \in Texts /\ input = InputOf(input.text)
    BY TextsAssumption DEF InputOK, Texts
  <1>2. input.n \in Nat
    BY InputFacts
  <1> QED
    BY <1>1, <1>2, InputWidths

\* Where the loop is, a character begins.
LEMMA CharacterHere ==
  ASSUME InputOK, NEW k \in 0..Len(input.text), pos = Bytes(input.text)[k]
  PROVE  /\ pos = input.n => k = Len(input.text)
         /\ pos # input.n => /\ k + 1 \in 1..Len(input.text)
                             /\ input.width[pos] = input.text[k + 1] /\ input.text[k + 1] \in 0..4
  <1> DEFINE text == input.text
             L == Len(text)
             b == Bytes(text)
  <1>1. /\ text \in Texts /\ input.n = b[L]
        /\ \A j \in 1..L : input.width[b[j - 1]] = text[j]
    BY InputText
  <1>2. /\ L \in Nat /\ b \in [0..L -> Nat]
        /\ \A j \in 1..L : text[j] \in 0..4
        /\ \A i, j \in 0..L : i < j => b[i] < b[j]
    BY <1>1, TextFacts
  <1> HIDE DEF b
  <1>3. CASE k = L
    BY <1>1, <1>3 DEF b
  <1>4. CASE k < L
    <2>1. b[k] < b[L] /\ b[k] \in Nat /\ b[L] \in Nat
      BY <1>2, <1>4
    <2>2. k + 1 \in 1..L /\ (k + 1) - 1 = k
      BY <1>2, <1>4
    <2>3. input.width[b[k]] = text[k + 1] /\ text[k + 1] \in 0..4
      BY <1>1, <1>2, <2>2
    <2> QED
      BY <1>1, <2>1, <2>2, <2>3 DEF b
  <1> QED
    BY <1>2, <1>3, <1>4

LEMMA InitText == Init => TextInv
  <1> SUFFICES ASSUME Init PROVE TextInv
    OBVIOUS
  <1>1. IInv /\ InputOK
    BY InitIInv DEF IInv
  <1>2. /\ input.text \in Texts /\ input.n \in Nat
    BY <1>1, InputText
  <1>3. Len(input.text) \in Nat /\ Bytes(input.text)[0] = 0 /\ UnitOffsets(input.text)[0] = 0
    BY <1>2, TextFacts
  <1>4. UpTo(0)
    BY <1>2, <1>3 DEF UpTo, Init, Zeroed
  <1> QED
    BY <1>1, <1>3, <1>4 DEF TextInv, Converting, MatchesJsString, Init

\* A turn of the loop.
LEMMA TurnText ==
  ASSUME TextInv, DecodeBmp \/ DecodePair
  PROVE  Converting' /\ MatchesJsString'
  <1> DEFINE text == input.text
             L == Len(text)
             b == Bytes(text)
             u == UnitOffsets(text)
  <1>1. /\ status = "loop" /\ status' = "loop" /\ input' = input /\ pos < input.n /\ RecordStart
        /\ pos' = pos + input.width[pos] /\ q' = q + UnitsOf(input.width[pos])
        /\ input.width[pos] # 0
    BY DEF DecodeBmp, DecodePair, UnitsOf
  <1>2. InputOK /\ TypeOK /\ q <= pos
    BY DEF TextInv, IInv, Progress
  <1>3. text \in Texts /\ input.n \in Nat
    BY <1>2, InputText
  <1>4. PICK k \in 0..L : UpTo(k)
    BY <1>1 DEF TextInv, Converting
  <1>5. pos = b[k] /\ q = u[k]
    BY <1>4 DEF UpTo
  <1>6. k + 1 \in 1..L /\ input.width[pos] = text[k + 1] /\ text[k + 1] \in 0..4
    <2>1. pos # input.n
      BY <1>1, <1>3
    <2> QED
      BY <1>2, <1>5, <2>1, CharacterHere
  <1>7. /\ L \in Nat /\ b \in [0..L -> Nat] /\ u \in [0..L -> Nat]
        /\ \A j \in 1..L : /\ b[j] = b[j - 1] + (IF text[j] = 0 THEN 1 ELSE text[j])
                           /\ u[j] = u[j - 1] + UnitsOf(text[j])
        /\ \A i, j \in 0..L : i < j => b[i] < b[j] /\ u[i] < u[j]
    BY <1>3, TextFacts
  <1>8. /\ pos \in 0..input.n /\ q \in 0..input.n
        /\ indices \in [0..input.n -> 0..input.n] /\ rev \in [0..input.n -> 0..input.n]
    BY <1>2 DEF TypeOK
  <1>9. /\ indices' = [indices EXCEPT ![u[k]] = b[k]]
        /\ rev' = [rev EXCEPT ![b[k]] = u[k]]
    BY <1>1, <1>5 DEF RecordStart
  <1> HIDE DEF b, u
  <1>10. pos' = b[k + 1] /\ q' = u[k + 1]
    <2>1. (k + 1) - 1 = k
      BY <1>7
    <2> QED
      BY <1>1, <1>5, <1>6, <1>7, <2>1
  <1>11. \A j \in 1..(k + 1) : text[j] # 0
    <2>1. \A j \in 1..k : text[j] # 0
      BY <1>4 DEF UpTo
    <2>2. \A j \in 1..(k + 1) : j \in 1..k \/ j = k + 1
      BY <1>7
    <2> QED
      BY <1>1, <1>6, <2>1, <2>2
  <1>12. ASSUME NEW j \in 0..k PROVE indices'[u[j]] = b[j] /\ rev'[b[j]] = u[j]
    <2>1. CASE j = k
      <3>1. u[k] \in DOMAIN indices /\ b[k] \in DOMAIN rev
        BY <1>5, <1>8
      <3> QED
        BY <1>9, <2>1, <3>1
    <2>2. CASE j # k
      <3>1. j \in 0..(k - 1) /\ j < k /\ j \in 0..L /\ k \in 0..L
        BY <1>7, <2>2
      <3>2. indices[u[j]] = b[j] /\ rev[b[j]] = u[j]
        BY <1>4, <3>1 DEF UpTo, b, u
      <3>3. b[j] < b[k] /\ u[j] < u[k] /\ b[j] \in Nat /\ b[k] \in Nat /\ u[j] \in Nat /\ u[k] \in Nat
        BY <1>7, <3>1
      <3>4. b[j] # b[k] /\ u[j] # u[k]
        BY <3>3
      <3>5. u[j] \in DOMAIN indices /\ b[j] \in DOMAIN rev
        BY <1>3, <1>5, <1>8, <3>3
      <3> QED
        BY <1>9, <3>2, <3>4, <3>5
    <2> QED
      BY <2>1, <2>2
  <1>13. ASSUME NEW x \in 0..input.n PROVE indices'[x] = 0 \/ \E j \in 0..k : u[j] = x
    <2>1. CASE x = u[k]
      BY <1>7, <2>1
    <2>2. CASE x # u[k]
      <3>1. indices'[x] = indices[x]
        BY <1>8, <1>9, <2>2
      <3>2. indices[x] = 0 \/ \E j \in 0..(k - 1) : u[j] = x
        BY <1>4 DEF UpTo, u
      <3>3. \A j \in 0..(k - 1) : j \in 0..k
        BY <1>7
      <3> QED
        BY <3>1, <3>2, <3>3
    <2> QED
      BY <2>1, <2>2
  <1>14. ASSUME NEW x \in 0..input.n PROVE rev'[x] = 0 \/ \E j \in 0..k : b[j] = x
    <2>1. CASE x = b[k]
      BY <1>7, <2>1
    <2>2. CASE x # b[k]
      <3>1. rev'[x] = rev[x]
        BY <1>8, <1>9, <2>2
      <3>2. rev[x] = 0 \/ \E j \in 0..(k - 1) : b[j] = x
        BY <1>4 DEF UpTo, b
      <3>3. \A j \in 0..(k - 1) : j \in 0..k
        BY <1>7
      <3> QED
        BY <3>1, <3>2, <3>3
    <2> QED
      BY <2>1, <2>2
  <1>15. k + 1 \in 0..L /\ (k + 1) - 1 = k
    BY <1>6, <1>7
  <1>16. UpTo(k + 1)'
    BY <1>1, <1>10, <1>11, <1>12, <1>13, <1>14, <1>15 DEF UpTo, b, u
  <1>17. Converting'
    BY <1>1, <1>15, <1>16 DEF TextInv, Converting, ContainsNonAscii
  <1> QED
    BY <1>1, <1>17 DEF MatchesJsString

LEMMA FinishText ==
  ASSUME TextInv, Finish
  PROVE  MatchesJsString'
  <1> DEFINE text == input.text
             L == Len(text)
             b == Bytes(text)
             u == UnitOffsets(text)
             js == JsStringOf(text)
  <1>1. /\ status = "loop" /\ status' = "wide" /\ input' = input /\ pos' = pos /\ q' = q
        /\ pos = input.n /\ indices' = [indices EXCEPT ![q] = input.n]
        /\ rev' = [rev EXCEPT ![input.n] = q]
    BY DEF Finish
  <1>2. InputOK /\ TypeOK
    BY DEF TextInv, IInv
  <1>3. /\ text \in Texts /\ input.n \in Nat /\ input.n = b[L]
        /\ \A j \in 1..L : b[j - 1] \in 0..(input.n - 1) /\ input.width[b[j - 1]] = text[j]
        /\ \A p \in 0..(input.n - 1) : input.width[p] # 0 => \E k \in 1..L : p = b[k - 1]
    BY <1>2, InputText
  <1>4. PICK k \in 0..L : UpTo(k)
    BY <1>1 DEF TextInv, Converting
  <1>5. k = L
    <2>1. pos = Bytes(input.text)[k]
      BY <1>4 DEF UpTo
    <2> QED
      BY <1>1, <1>2, <2>1, CharacterHere
  <1>6. q = u[L] /\ WellFormed(text)
    BY <1>4, <1>5 DEF UpTo, WellFormed
  <1>7. JsStringOK(js)
    BY <1>3, <1>6, UserdataIsRight
  <1>8. /\ js.wide = (\E j \in 1..L : text[j] > 1)
        /\ js.blen = b[L] /\ js.len = u[L]
        /\ js.wide => Table(js.indices, b[L], L, u, b) /\ Table(js.rev, b[L], L, b, u)
    BY <1>3, <1>6, UserdataFacts
  <1>9. /\ L \in Nat /\ b \in [0..L -> Nat] /\ u \in [0..L -> Nat]
        /\ \A j \in 1..L : text[j] \in 0..4
        /\ \A i, j \in 0..L : i < j => b[i] < b[j] /\ u[i] < u[j]
    BY <1>3, TextFacts
  <1>10. js.wide
    <2>1. SUFFICES ASSUME ~js.wide PROVE FALSE
      OBVIOUS
    <2>2. \A j \in 1..L : text[j] = 1
      BY <1>6, <1>8, <1>9, <2>1 DEF WellFormed
    <2>3. PICK p \in 0..(input.n - 1) : input.width[p] # 1
      BY <1>1 DEF TextInv, Converting, ContainsNonAscii
    <2>4. \A j \in 0..L : b[j] = j
      BY <1>3, <2>2, SingleBytes
    <2> HIDE DEF b
    <2>5. p + 1 \in 1..L /\ b[(p + 1) - 1] = p
      <3>1. L \in 0..L
        BY <1>9
      <3>2. b[L] = L
        BY <2>4, <3>1
      <3>3. input.n = L
        BY <1>3, <3>2 DEF b
      <3>4. p \in 0..L /\ p + 1 \in 1..L /\ (p + 1) - 1 = p
        BY <1>9, <3>3
      <3> QED
        BY <2>4, <3>4
    <2>6. input.width[p] = text[p + 1]
      BY <1>3, <2>5
    <2> QED
      BY <2>2, <2>3, <2>5, <2>6
  <1>11. /\ q \in 0..input.n /\ input.n \in 0..input.n
         /\ indices \in [0..input.n -> 0..input.n] /\ rev \in [0..input.n -> 0..input.n]
    BY <1>2, <1>3 DEF TypeOK
  <1>12. /\ \A j \in 0..(L - 1) : indices[u[j]] = b[j] /\ rev[b[j]] = u[j]
         /\ \A x \in 0..input.n : indices[x] = 0 \/ \E j \in 0..(L - 1) : u[j] = x
         /\ \A x \in 0..input.n : rev[x] = 0 \/ \E j \in 0..(L - 1) : b[j] = x
    BY <1>4, <1>5 DEF UpTo
  <1> HIDE DEF b, u, js
  <1>13. \A j \in 0..L : j = L \/ j \in 0..(L - 1)
    BY <1>9
  <1>14. \A j \in 0..(L - 1) : /\ j \in 0..L /\ j < L
                               /\ b[j] \in 0..input.n /\ b[j] # input.n /\ u[j] \in 0..input.n /\ u[j] # q
    <2> SUFFICES ASSUME NEW j \in 0..(L - 1)
                 PROVE  /\ j \in 0..L /\ j < L
                        /\ b[j] \in 0..input.n /\ b[j] # input.n /\ u[j] \in 0..input.n /\ u[j] # q
      OBVIOUS
    <2>1. j \in 0..L /\ L \in 0..L /\ j < L
      BY <1>9
    <2>2. b[j] \in Nat /\ u[j] \in Nat /\ b[j] < b[L] /\ u[j] < u[L] /\ u[L] \in Nat
      BY <1>9, <2>1
    <2> QED
      BY <1>3, <1>6, <1>11, <2>1, <2>2 DEF b, u
  <1>15. L \in 0..L
    BY <1>9
  <1>16. Table(indices', input.n, L, u, b)
    <2>1. indices' = [x \in 0..input.n |-> indices'[x]]
      BY <1>1, <1>11
    <2>2. \A j \in 0..L : indices'[u[j]] = b[j]
      <3>1. indices'[u[L]] = b[L]
        BY <1>1, <1>3, <1>6, <1>11 DEF b, u
      <3>2. \A j \in 0..(L - 1) : indices'[u[j]] = b[j]
        BY <1>1, <1>11, <1>12, <1>14
      <3> QED
        BY <1>13, <3>1, <3>2
    <2>3. \A x \in 0..input.n : indices'[x] = 0 \/ \E j \in 0..L : u[j] = x
      <3> SUFFICES ASSUME NEW x \in 0..input.n PROVE indices'[x] = 0 \/ \E j \in 0..L : u[j] = x
        OBVIOUS
      <3>1. CASE x = q
        BY <1>6, <1>15, <3>1 DEF u
      <3>2. CASE x # q
        <4>1. indices'[x] = indices[x]
          BY <1>1, <1>11, <3>2
        <4> QED
          BY <1>12, <1>14, <4>1
      <3> QED
        BY <3>1, <3>2
    <2> QED
      BY <2>1, <2>2, <2>3 DEF Table
  <1>17. Table(rev', input.n, L, b, u)
    <2>1. rev' = [x \in 0..input.n |-> rev'[x]]
      BY <1>1, <1>11
    <2>2. \A j \in 0..L : rev'[b[j]] = u[j]
      <3>1. rev'[b[L]] = u[L]
        BY <1>1, <1>3, <1>6, <1>11 DEF b, u
      <3>2. \A j \in 0..(L - 1) : rev'[b[j]] = u[j]
        BY <1>1, <1>11, <1>12, <1>14
      <3> QED
        BY <1>13, <3>1, <3>2
    <2>3. \A x \in 0..input.n : rev'[x] = 0 \/ \E j \in 0..L : b[j] = x
      <3> SUFFICES ASSUME NEW x \in 0..input.n PROVE rev'[x] = 0 \/ \E j \in 0..L : b[j] = x
        OBVIOUS
      <3>1. CASE x = input.n
        BY <1>3, <1>15, <3>1 DEF b
      <3>2. CASE x # input.n
        <4>1. rev'[x] = rev[x]
          BY <1>1, <1>11, <3>2
        <4> QED
          BY <1>12, <1>14, <4>1
      <3> QED
        BY <3>1, <3>2
    <2> QED
      BY <2>1, <2>2, <2>3 DEF Table
  <1>18. js.indices = indices' /\ js.rev = rev'
    <2>1. Table(js.indices, input.n, L, u, b) /\ Table(js.rev, input.n, L, b, u)
      BY <1>3, <1>8, <1>10 DEF b
    <2> QED
      BY <1>16, <1>17, <2>1, TableUnique
  <1>19. js.len = q' /\ js.blen = input.n
    BY <1>1, <1>3, <1>6, <1>8 DEF b, u
  <1>20. ~ \E j \in 1..L : text[j] = 0
    BY <1>6 DEF WellFormed
  <1> QED
    BY <1>1, <1>7, <1>10, <1>18, <1>19, <1>20 DEF MatchesJsString, js

LEMMA NarrowText ==
  ASSUME TextInv, StayNarrow
  PROVE  MatchesJsString'
  <1> DEFINE text == input.text
             L == Len(text)
             b == Bytes(text)
             js == JsStringOf(text)
  <1>1. status' = "narrow" /\ input' = input /\ ~ContainsNonAscii
    BY DEF StayNarrow
  <1>2. /\ text \in Texts /\ input.n = b[L]
        /\ \A j \in 1..L : b[j - 1] \in 0..(input.n - 1) /\ input.width[b[j - 1]] = text[j]
    BY InputText DEF TextInv, IInv
  <1>3. \A j \in 1..L : text[j] = 1
    BY <1>1, <1>2 DEF ContainsNonAscii
  <1>4. WellFormed(text)
    BY <1>3 DEF WellFormed
  <1>5. JsStringOK(js)
    BY <1>2, <1>4, UserdataIsRight
  <1>6. js.wide = (\E j \in 1..L : text[j] > 1) /\ js.blen = b[L]
    BY <1>2, <1>4, UserdataFacts
  <1>7. ~js.wide
    BY <1>3, <1>6
  <1> QED
    BY <1>1, <1>2, <1>3, <1>5, <1>6, <1>7 DEF MatchesJsString

LEMMA MalformedText ==
  ASSUME TextInv, Malformed
  PROVE  MatchesJsString'
  <1>1. /\ status = "loop" /\ status' = "malformed" /\ input' = input
        /\ pos < input.n /\ input.width[pos] = 0
    BY DEF Malformed
  <1>2. InputOK /\ input.n \in Nat
    BY InputText DEF TextInv, IInv
  <1>3. PICK k \in 0..Len(input.text) : UpTo(k)
    BY <1>1 DEF TextInv, Converting
  <1>4. pos = Bytes(input.text)[k] /\ pos # input.n
    BY <1>1, <1>2, <1>3 DEF UpTo
  <1>5. k + 1 \in 1..Len(input.text) /\ input.width[pos] = input.text[k + 1]
    BY <1>2, <1>4, CharacterHere
  <1> QED
    BY <1>1, <1>5 DEF MatchesJsString

LEMMA NextText == TextInv /\ [Next]_vars => TextInv'
  <1> SUFFICES ASSUME TextInv, [Next]_vars PROVE TextInv'
    OBVIOUS
  <1>1. IInv'
    BY NextIInv DEF TextInv
  <1>2. CASE StayNarrow
    <2>1. MatchesJsString'
      BY <1>2, NarrowText
    <2> QED
      BY <1>1, <1>2, <2>1 DEF TextInv, Converting, StayNarrow
  <1>3. CASE BeginLoop
    <2>1. Converting'
      BY <1>3 DEF TextInv, Converting, BeginLoop, UpTo, ContainsNonAscii
    <2> QED
      BY <1>1, <1>3, <2>1 DEF TextInv, BeginLoop, MatchesJsString
  <1>4. CASE DecodeBmp \/ DecodePair
    BY <1>1, <1>4, TurnText DEF TextInv
  <1>5. CASE Malformed
    <2>1. MatchesJsString'
      BY <1>5, MalformedText
    <2> QED
      BY <1>1, <1>5, <2>1 DEF TextInv, Converting, Malformed, ContainsNonAscii
  <1>6. CASE Finish
    <2>1. MatchesJsString'
      BY <1>6, FinishText
    <2> QED
      BY <1>1, <1>6, <2>1 DEF TextInv, Converting, Finish, ContainsNonAscii
  <1>7. CASE UNCHANGED vars
    BY <1>1, <1>7 DEF TextInv, Converting, UpTo, ContainsNonAscii, MatchesJsString, vars
  <1> QED
    BY <1>2, <1>3, <1>4, <1>5, <1>6, <1>7 DEF Next

\* For every text the loop makes the userdata that regexp_exec is modelled with, and
\* gives up exactly when a character cannot be decoded.  (jsstring_new, jsregexp.c)
THEOREM ConversionIsRight == Spec => []MatchesJsString
  <1>1. TextInv => MatchesJsString
    BY DEF TextInv
  <1> QED
    BY <1>1, InitText, NextText, PTL DEF Spec
=============================================================================
