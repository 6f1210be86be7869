--------------------------- MODULE CharProps_proofs ---------------------------
(***************************************************************************)
(* The lookups of properties of characters, for every character.           *)
(*                                                                         *)
(* Whether a character has a property is the parity of the number of runs  *)
(* of its table that end at it or before.  Each run that starts before the *)
(* end of all is followed by the next in the table (Reading), so a byte    *)
(* that is read moves that number as it moves bit (Parities); a block of   *)
(* the index starts a run with an even number before it, and behind the    *)
(* last block the number is even.  LookupInv says so for each place.       *)
(*                                                                         *)
(* The set of the characters that conversions change is joined in halves   *)
(* from the points of the entries, and what an entry changes is found type *)
(* by type.                                                                *)
(***************************************************************************)
EXTENDS CharProps, Canon_proofs

--------------------------------------------------------------------------------
(***************************************************************************)
(* Reading the runs of a table, which are recursive functions.             *)
(***************************************************************************)
InRound(table, s, n, f) == f = [m \in 0..n |-> IF m = 0 THEN s ELSE MoreRuns(table, f[m - 1])]
InRounds(table, n, f) == f = [m \in 0..n |-> IF m = 0 THEN NoRuns ELSE Round(table, f[m - 1])]

LEMMA RoundExists ==
  ASSUME NEW table, NEW s, NEW n \in Nat
  PROVE  \E f : InRound(table, s, n, f)
  <1> DEFINE D == {m \in Nat : \E f : InRound(table, s, m, f)}
  <1>1. 0 \in D
    <2> DEFINE f == [m \in 0..0 |-> s]
    <2>1. InRound(table, s, 0, f)
      BY DEF InRound
    <2> QED
      BY <2>1
  <1>2. ASSUME NEW m \in Nat, m \in D PROVE m + 1 \in D
    <2>1. PICK f : InRound(table, s, m, f)
      BY <1>2
    <2> DEFINE g == [k \in 0..(m + 1) |-> IF k = m + 1 THEN MoreRuns(table, f[m]) ELSE f[k]]
    <2>2. \A k \in 0..m : g[k] = f[k] /\ f[k] = IF k = 0 THEN s ELSE MoreRuns(table, f[k - 1])
      BY <2>1 DEF InRound
    <2>3. g[m + 1] = MoreRuns(table, f[m])
      OBVIOUS
    <2>4. g = [k \in 0..(m + 1) |-> g[k]]
      OBVIOUS
    <2> HIDE DEF g
    <2>5. \A k \in 0..(m + 1) : g[k] = IF k = 0 THEN s ELSE MoreRuns(table, g[k - 1])
      <3> SUFFICES ASSUME NEW k \in 0..(m + 1)
                   PROVE  g[k] = IF k = 0 THEN s ELSE MoreRuns(table, g[k - 1])
        OBVIOUS
      <3>1. CASE k = m + 1
        <4>1. k # 0 /\ k - 1 = m /\ m \in 0..m
          BY <3>1
        <4>2. g[m] = f[m]
          BY <2>2, <4>1
        <4> QED
          BY <2>3, <3>1, <4>1, <4>2
      <3>2. CASE k # m + 1
        <4>1. k \in 0..m /\ (k # 0 => k - 1 \in 0..m)
          BY <3>2
        <4> QED
          BY <2>2, <4>1
      <3> QED
        BY <3>1, <3>2
    <2>6. InRound(table, s, m + 1, g)
      BY <2>4, <2>5 DEF InRound
    <2> QED
      BY <2>6
  <1>3. \A m \in Nat : m \in D
    <2> HIDE DEF D
    <2> QED
      BY <1>1, <1>2, Ascent
  <1> QED
    BY <1>3

LEMMA RoundsExist ==
  ASSUME NEW table, NEW n \in Nat
  PROVE  \E f : InRounds(table, n, f)
  <1> DEFINE D == {m \in Nat : \E f : InRounds(table, m, f)}
  <1>1. 0 \in D
    <2> DEFINE f == [m \in 0..0 |-> NoRuns]
    <2>1. InRounds(table, 0, f)
      BY DEF InRounds
    <2> QED
      BY <2>1
  <1>2. ASSUME NEW m \in Nat, m \in D PROVE m + 1 \in D
    <2>1. PICK f : InRounds(table, m, f)
      BY <1>2
    <2> DEFINE g == [k \in 0..(m + 1) |-> IF k = m + 1 THEN Round(table, f[m]) ELSE f[k]]
    <2>2. \A k \in 0..m : g[k] = f[k] /\ f[k] = IF k = 0 THEN NoRuns ELSE Round(table, f[k - 1])
      BY <2>1 DEF InRounds
    <2>3. g[m + 1] = Round(table, f[m])
      OBVIOUS
    <2>4. g = [k \in 0..(m + 1) |-> g[k]]
      OBVIOUS
    <2> HIDE DEF g
    <2>5. \A k \in 0..(m + 1) : g[k] = IF k = 0 THEN NoRuns ELSE Round(table, g[k - 1])
      <3> SUFFICES ASSUME NEW k \in 0..(m + 1)
                   PROVE  g[k] = IF k = 0 THEN NoRuns ELSE Round(table, g[k - 1])
        OBVIOUS
      <3>1. CASE k = m + 1
        <4>1. k # 0 /\ k - 1 = m /\ m \in 0..m
          BY <3>1
        <4>2. g[m] = f[m]
          BY <2>2, <4>1
        <4> QED
          BY <2>3, <3>1, <4>1, <4>2
      <3>2. CASE k # m + 1
        <4>1. k \in 0..m /\ (k # 0 => k - 1 \in 0..m)
          BY <3>2
        <4> QED
          BY <2>2, <4>1
      <3> QED
        BY <3>1, <3>2
    <2>6. InRounds(table, m + 1, g)
      BY <2>4, <2>5 DEF InRounds
    <2> QED
      BY <2>6
  <1>3. \A m \in Nat : m \in D
    <2> HIDE DEF D
    <2> QED
      BY <1>1, <1>2, Ascent
  <1> QED
    BY <1>3

--------------------------------------------------------------------------------
(***************************************************************************)
(* What is known when some bytes are read: all runs but the last one start *)
(* with their bytes in the table, and nothing ends inside of one.          *)
(***************************************************************************)
Middle(table, p, from) == from + First(table[p + 1])
RunEnd(table, p, from) ==
  IF IsPacked(table[p + 1]) THEN Middle(table, p, from) + Second(table[p + 1])
  ELSE from + RunLength(table, p)

\* The run that starts with the byte p at a character is read, or the two of the byte.
Followed(table, s, p, from) ==
  /\ p < Len(table)
  /\ from < RunEnd(table, p, from) /\ RunEnd(table, p, from) \in Nat
  /\ <<p + RunBytes(table[p + 1]), RunEnd(table, p, from)>> \in s.starts
  /\ RunEnd(table, p, from) \in s.ends
  /\ IsPacked(table[p + 1]) => /\ Middle(table, p, from) \in s.ends
                               /\ from < Middle(table, p, from)
                               /\ Middle(table, p, from) < RunEnd(table, p, from)
  /\ \A e \in s.ends : \/ e <= from
                       \/ RunEnd(table, p, from) <= e
                       \/ IsPacked(table[p + 1]) /\ e = Middle(table, p, from)

Reading(table, s) ==
  /\ s.p \in Nat /\ s.end \in Nat
  /\ s.ends \in SUBSET Nat /\ IsFiniteSet(s.ends)
  /\ \A e \in s.ends : 0 < e /\ e <= s.end
  /\ s.starts \in SUBSET (Nat \X Nat)
  /\ <<0, 0>> \in s.starts /\ <<s.p, s.end>> \in s.starts
  /\ \A p, from \in Nat :
       <<p, from>> \in s.starts => (p = s.p /\ from = s.end) \/ Followed(table, s, p, from)

LEMMA RunLengthIs ==
  ASSUME NEW table, NEW p \in Nat, NEW b, b = table[p + 1]
  PROVE  RunLength(table, p) =
           IF b >= 128 THEN b - 128 + 1
           ELSE IF b < 96 THEN (b - 64) * 256 + table[p + 1 + 1] + 1
           ELSE (b - 96) * 65536 + table[p + 1 + 1] * 256 + table[p + 2 + 1] + 1
  <1>1. table[p + 0 + 1] = b
    OBVIOUS
  <1> QED
    BY <1>1 DEF RunLength

LEMMA RunOK ==
  ASSUME NEW table \in Seq(0..255), NEW p \in Nat, NEW from \in Nat, p < Len(table),
         p + RunBytes(table[p + 1]) <= Len(table)
  PROVE  /\ RunBytes(table[p + 1]) \in Nat
         /\ RunEnd(table, p, from) \in Nat /\ from < RunEnd(table, p, from)
         /\ IsPacked(table[p + 1]) => /\ Middle(table, p, from) \in Nat
                                      /\ from < Middle(table, p, from)
                                      /\ Middle(table, p, from) < RunEnd(table, p, from)
  <1> DEFINE b == table[p + 1]
  <1>0. b = table[p + 1] /\ p + RunBytes(b) <= Len(table) /\ Len(table) \in Nat
    OBVIOUS
  <1>1. \A n \in 1..Len(table) : table[n] \in 0..255
    BY ElementOfSeq
  <1>2. b \in 0..255
    BY <1>1
  <1>3. RunBytes(b) \in Nat
    BY <1>2 DEF RunBytes
  <1> HIDE DEF b
  <1>4. RunLength(table, p) =
          IF b >= 128 THEN b - 128 + 1
          ELSE IF b < 96 THEN (b - 64) * 256 + table[p + 1 + 1] + 1
          ELSE (b - 96) * 65536 + table[p + 1 + 1] * 256 + table[p + 2 + 1] + 1
    BY <1>0, RunLengthIs
  <1>5. ASSUME IsPacked(b)
        PROVE  /\ Middle(table, p, from) \in Nat /\ from < Middle(table, p, from)
               /\ RunEnd(table, p, from) \in Nat /\ Middle(table, p, from) < RunEnd(table, p, from)
    <2>1. First(b) \in Nat /\ Second(b) \in Nat /\ First(b) > 0 /\ Second(b) > 0
      BY <1>2 DEF First, Second
    <2> QED
      BY <1>5, <2>1 DEF Middle, RunEnd, b
  <1>6. ASSUME ~IsPacked(b)
        PROVE  RunEnd(table, p, from) \in Nat /\ from < RunEnd(table, p, from)
    <2>1. b >= 64
      BY <1>2, <1>6 DEF IsPacked
    <2>2. RunLength(table, p) \in Nat /\ RunLength(table, p) > 0
      <3>1. CASE b >= 128
        BY <1>0, <1>2, <3>1 DEF RunLength
      <3>2. CASE ~(b >= 128) /\ b < 96
        <4>1. p + 2 <= Len(table)
          BY <1>0, <1>2, <1>6, <3>2 DEF RunBytes
        <4>2. table[p + 1 + 1] \in 0..255
          BY <1>1, <4>1
        <4>3. RunLength(table, p) = (b - 64) * 256 + table[p + 1 + 1] + 1
          BY <1>4, <3>2
        <4>4. PICK y \in 0..255 : y = table[p + 1 + 1]
          BY <4>2
        <4>5. (b - 64) * 256 + y + 1 \in Nat /\ (b - 64) * 256 + y + 1 > 0
          BY <1>2, <2>1
        <4> QED
          BY <4>3, <4>4, <4>5
      <3>3. CASE ~(b >= 128) /\ ~(b < 96)
        <4>1. p + 3 <= Len(table)
          BY <1>0, <1>2, <1>6, <3>3 DEF RunBytes
        <4>2. table[p + 1 + 1] \in 0..255 /\ table[p + 2 + 1] \in 0..255
          BY <1>1, <4>1
        <4>3. RunLength(table, p) = (b - 96) * 65536 + table[p + 1 + 1] * 256 + table[p + 2 + 1] + 1
          BY <1>4, <3>3
        <4>4. PICK y \in 0..255 : y = table[p + 1 + 1]
          BY <4>2, Zenon
        <4>5. PICK z \in 0..255 : z = table[p + 2 + 1]
          BY <4>2, Zenon
        <4>6. /\ (b - 96) * 65536 + y * 256 + z + 1 \in Nat
              /\ (b - 96) * 65536 + y * 256 + z + 1 > 0
          BY <1>2, <3>3
        <4> QED
          BY <4>3, <4>4, <4>5, <4>6
      <3> QED
        BY <3>1, <3>2, <3>3
    <2> QED
      BY <1>0, <1>6, <2>2 DEF RunEnd
  <1> QED
    BY <1>0, <1>3, <1>5, <1>6

LEMMA NextRunIs ==
  ASSUME NEW table, NEW s, NEW next, next = NextRun(table, s)
  PROVE  /\ next.p = s.p + RunBytes(table[s.p + 1])
         /\ next.end = RunEnd(table, s.p, s.end)
         /\ next.starts = s.starts \cup {<<next.p, next.end>>}
         /\ next.ends = s.ends \cup {next.end}
                          \cup (IF IsPacked(table[s.p + 1]) THEN {Middle(table, s.p, s.end)} ELSE {})
  BY DEF NextRun, RunEnd, Middle

LEMMA MoreRunsReading ==
  ASSUME NEW table \in Seq(0..255), NEW s, Reading(table, s)
  PROVE  Reading(table, MoreRuns(table, s))
  <1> DEFINE next == NextRun(table, s)
             b == table[s.p + 1]
  <1>1. CASE ~(s.p < Len(table) /\ s.p + RunBytes(b) <= Len(table))
    BY <1>1 DEF MoreRuns
  <1>2. CASE s.p < Len(table) /\ s.p + RunBytes(b) <= Len(table)
    <2>0. MoreRuns(table, s) = next
      BY <1>2 DEF MoreRuns
    <2>1. s.p \in Nat /\ s.end \in Nat
      BY DEF Reading
    <2>2. /\ next.p = s.p + RunBytes(b)
          /\ next.end = RunEnd(table, s.p, s.end)
          /\ next.starts = s.starts \cup {<<next.p, next.end>>}
          /\ next.ends = s.ends \cup {next.end}
                          \cup (IF IsPacked(b) THEN {Middle(table, s.p, s.end)} ELSE {})
      BY NextRunIs
    <2>3. /\ next.p \in Nat /\ next.end \in Nat /\ s.end < next.end
          /\ IsPacked(b) => /\ Middle(table, s.p, s.end) \in Nat
                            /\ s.end < Middle(table, s.p, s.end)
                            /\ Middle(table, s.p, s.end) < next.end
      <3>1. /\ RunBytes(b) \in Nat
            /\ RunEnd(table, s.p, s.end) \in Nat /\ s.end < RunEnd(table, s.p, s.end)
            /\ IsPacked(b) => /\ Middle(table, s.p, s.end) \in Nat
                              /\ s.end < Middle(table, s.p, s.end)
                              /\ Middle(table, s.p, s.end) < RunEnd(table, s.p, s.end)
        BY <1>2, <2>1, RunOK
      <3> HIDE DEF next, b
      <3> QED
        BY <2>1, <2>2, <3>1
    <2> HIDE DEF next, b
    <2>4. /\ next.ends \in SUBSET Nat /\ IsFiniteSet(next.ends)
          /\ \A e \in next.ends : 0 < e /\ e <= next.end
      <3>1. s.ends \in SUBSET Nat /\ IsFiniteSet(s.ends) /\ \A e \in s.ends : 0 < e /\ e <= s.end
        BY DEF Reading
      <3>2. CASE IsPacked(b)
        <4>1. next.ends = (s.ends \cup {next.end}) \cup {Middle(table, s.p, s.end)}
          BY <2>2, <3>2
        <4>2. IsFiniteSet(next.ends)
          <5>1. IsFiniteSet(s.ends \cup {next.end})
            BY <3>1, FS_AddElement
          <5>2. IsFiniteSet((s.ends \cup {next.end}) \cup {Middle(table, s.p, s.end)})
            BY <5>1, FS_AddElement
          <5> QED
            BY <4>1, <5>2
        <4>3. \A e \in next.ends : e \in s.ends \/ e = next.end \/ e = Middle(table, s.p, s.end)
          BY <4>1
        <4> QED
          BY <2>1, <2>3, <3>1, <3>2, <4>2, <4>3
      <3>3. CASE ~IsPacked(b)
        <4>1. next.ends = s.ends \cup {next.end}
          BY <2>2, <3>3
        <4>2. IsFiniteSet(next.ends)
          <5>1. IsFiniteSet(s.ends \cup {next.end})
            BY <3>1, FS_AddElement
          <5> QED
            BY <4>1, <5>1
        <4>3. \A e \in next.ends : e \in s.ends \/ e = next.end
          BY <4>1
        <4> QED
          BY <2>1, <2>3, <3>1, <4>2, <4>3
      <3> QED
        BY <3>2, <3>3
    <2>5. /\ next.starts \in SUBSET (Nat \X Nat)
          /\ <<0, 0>> \in next.starts /\ <<next.p, next.end>> \in next.starts
      BY <2>2, <2>3 DEF Reading
    <2>6. Followed(table, next, s.p, s.end)
      <3>1. \A e \in next.ends : \/ e <= s.end
                                 \/ next.end <= e
                                 \/ IsPacked(b) /\ e = Middle(table, s.p, s.end)
        <4> SUFFICES ASSUME NEW e \in next.ends
                     PROVE  \/ e <= s.end
                            \/ next.end <= e
                            \/ IsPacked(b) /\ e = Middle(table, s.p, s.end)
          OBVIOUS
        <4>1. e \in s.ends \/ e = next.end \/ (IsPacked(b) /\ e = Middle(table, s.p, s.end))
          BY <2>2
        <4> QED
          BY <2>3, <4>1 DEF Reading
      <3>2. <<next.p, next.end>> \in next.starts /\ next.end \in next.ends
        BY <2>2
      <3>3. IsPacked(b) => Middle(table, s.p, s.end) \in next.ends
        BY <2>2
      <3> QED
        BY <1>2, <2>2, <2>3, <3>1, <3>2, <3>3 DEF Followed, b
    <2>7. ASSUME NEW p \in Nat, NEW from \in Nat, Followed(table, s, p, from)
          PROVE  Followed(table, next, p, from)
      <3> DEFINE end == RunEnd(table, p, from)
      <3>1. end \in s.ends /\ end \in Nat /\ end <= s.end
        BY <2>7 DEF Followed, Reading
      <3>2. \A e \in next.ends : \/ e <= from
                                 \/ end <= e
                                 \/ IsPacked(table[p + 1]) /\ e = Middle(table, p, from)
        <4> SUFFICES ASSUME NEW e \in next.ends
                     PROVE  \/ e <= from
                            \/ end <= e
                            \/ IsPacked(table[p + 1]) /\ e = Middle(table, p, from)
          OBVIOUS
        <4>1. e \in s.ends \/ e = next.end \/ (IsPacked(b) /\ e = Middle(table, s.p, s.end))
          BY <2>2
        <4>2. CASE e \in s.ends
          BY <2>7, <4>2 DEF Followed
        <4>3. CASE e = next.end \/ (IsPacked(b) /\ e = Middle(table, s.p, s.end))
          <5>1. e \in Nat /\ s.end < e
            BY <2>3, <4>3
          <5> QED
            BY <2>1, <3>1, <5>1
        <4> QED
          BY <4>1, <4>2, <4>3
      <3>3. s.starts \subseteq next.starts /\ s.ends \subseteq next.ends
        BY <2>2
      <3> QED
        BY <2>7, <3>2, <3>3 DEF Followed
    <2>8. ASSUME NEW p \in Nat, NEW from \in Nat, <<p, from>> \in next.starts
          PROVE  (p = next.p /\ from = next.end) \/ Followed(table, next, p, from)
      <3>1. <<p, from>> \in s.starts \/ <<p, from>> = <<next.p, next.end>>
        BY <2>2, <2>8
      <3>2. CASE <<p, from>> \in s.starts
        <4>1. (p = s.p /\ from = s.end) \/ Followed(table, s, p, from)
          BY <3>2 DEF Reading
        <4> QED
          BY <2>6, <2>7, <4>1
      <3> QED
        BY <3>1, <3>2
    <2>9. Reading(table, next)
      BY <2>3, <2>4, <2>5, <2>8 DEF Reading
    <2> QED
      BY <2>0, <2>9
  <1> QED
    BY <1>1, <1>2

LEMMA RoundReading ==
  ASSUME NEW table \in Seq(0..255), NEW s, Reading(table, s)
  PROVE  Reading(table, Round(table, s))
  <1> DEFINE f == CHOOSE g : InRound(table, s, BLOCK_LEN, g)
  <1>0. BLOCK_LEN \in Nat
    BY DEF BLOCK_LEN
  <1>1. InRound(table, s, BLOCK_LEN, f)
    BY <1>0, RoundExists
  <1>2. Round(table, s) = IF s.p = Len(table) THEN s ELSE f[BLOCK_LEN]
    BY DEF Round, InRound
  <1> HIDE DEF f
  <1> DEFINE D == {n \in Nat : n <= BLOCK_LEN => Reading(table, f[n])}
  <1>3. 0 \in D
    <2>1. 0 \in 0..BLOCK_LEN
      BY <1>0
    <2>2. f[0] = s
      BY <1>1, <2>1 DEF InRound
    <2> QED
      BY <2>2
  <1>4. ASSUME NEW n \in Nat, n \in D PROVE n + 1 \in D
    <2> SUFFICES ASSUME n + 1 <= BLOCK_LEN PROVE Reading(table, f[n + 1])
      OBVIOUS
    <2>1. n + 1 \in 0..BLOCK_LEN /\ n + 1 # 0 /\ (n + 1) - 1 = n /\ n <= BLOCK_LEN
      BY <1>0
    <2>2. f[n + 1] = MoreRuns(table, f[n])
      BY <1>1, <2>1 DEF InRound
    <2> QED
      BY <1>4, <2>1, <2>2, MoreRunsReading
  <1> HIDE DEF D
  <1>5. BLOCK_LEN \in D
    BY <1>0, <1>3, <1>4, Ascent
  <1> QED
    BY <1>0, <1>2, <1>5 DEF D

LEMMA NothingRead ==
  ASSUME NEW table
  PROVE  Reading(table, NoRuns)
  BY FS_EmptySet DEF Reading, NoRuns

LEMMA TablesRead ==
  ASSUME NEW table \in Seq(0..255)
  PROVE  Reading(table, AllRuns(table))
  <1> DEFINE N == Len(table) \div BLOCK_LEN + 1
             f == CHOOSE g : InRounds(table, N, g)
  <1>0. N \in Nat
    BY DEF BLOCK_LEN
  <1>1. InRounds(table, N, f)
    BY <1>0, RoundsExist
  <1>2. AllRuns(table) = f[N]
    BY DEF AllRuns, InRounds
  <1> HIDE DEF f, N
  <1> DEFINE D == {n \in Nat : n <= N => Reading(table, f[n])}
  <1>3. 0 \in D
    <2>1. 0 \in 0..N
      BY <1>0
    <2>2. f[0] = NoRuns
      BY <1>1, <2>1 DEF InRounds
    <2> QED
      BY <2>2, NothingRead
  <1>4. ASSUME NEW n \in Nat, n \in D PROVE n + 1 \in D
    <2> SUFFICES ASSUME n + 1 <= N PROVE Reading(table, f[n + 1])
      OBVIOUS
    <2>1. n + 1 \in 0..N /\ n + 1 # 0 /\ (n + 1) - 1 = n /\ n <= N
      BY <1>0
    <2>2. f[n + 1] = Round(table, f[n])
      BY <1>1, <2>1 DEF InRounds
    <2> QED
      BY <1>4, <2>1, <2>2, RoundReading
  <1> HIDE DEF D
  <1>5. N \in D
    BY <1>0, <1>3, <1>4, Ascent
  <1> QED
    BY <1>0, <1>2, <1>5 DEF D

--------------------------------------------------------------------------------
(***************************************************************************)
(* The parity of the ends up to a character changes at each of them.       *)
(***************************************************************************)
LEMMA RankSame ==
  ASSUME NEW S \in SUBSET Nat, NEW a \in Int, NEW b \in Int, a <= b,
         \A e \in S : e <= a \/ b < e
  PROVE  Rank(S, a) = Rank(S, b)
  <1>1. \A e \in S : e <= a <=> e <= b
    OBVIOUS
  <1>2. Upto(S, a) = Upto(S, b)
    BY <1>1, Zenon DEF Upto
  <1> QED
    BY <1>2 DEF Rank

LEMMA RankNext ==
  ASSUME NEW S \in SUBSET Nat, IsFiniteSet(S), NEW a \in Int, NEW b \in S, a < b,
         \A e \in S : e <= a \/ b <= e
  PROVE  Rank(S, b) = Rank(S, a) + 1
  <1>1. b \in Int /\ b - 1 \in Int /\ a <= b - 1
    OBVIOUS
  <1>2. \A e \in S : e <= a \/ b - 1 < e
    OBVIOUS
  <1>3. Rank(S, a) = Rank(S, b - 1)
    BY <1>1, <1>2, RankSame
  <1> QED
    BY <1>1, <1>3, RankStep

LEMMA EndsUpToIs ==
  ASSUME NEW t, NEW x
  PROVE  EndsUpTo(t, x) = Rank(Runs[t].ends, x)
  BY DEF EndsUpTo, Rank, Upto

LEMMA TableFacts ==
  ASSUME NEW t \in DOMAIN PropTable
  PROVE  /\ PropTable[t] \in Seq(0..255) /\ PropIndex[t] \in Seq(Nat \X Nat) /\ Len(PropIndex[t]) > 1
         /\ Reading(PropTable[t], Runs[t]) /\ Runs[t].p = Len(PropTable[t])
         /\ \A k \in 1..(Len(PropIndex[t]) - 1) :
              <<k * BLOCK_LEN + PropIndex[t][k][2], PropIndex[t][k][1]>> \in Runs[t].starts
         /\ PropIndex[t][Len(PropIndex[t])][1] = Runs[t].end
         /\ \A k \in 1..Len(PropIndex[t]) : EndsUpTo(t, PropIndex[t][k][1]) % 2 = 0
         /\ \A x \in Int : EndsUpTo(t, x) \in Nat
  <1>1. /\ PropTable[t] \in Seq(0..255) /\ PropIndex[t] \in Seq(Nat \X Nat) /\ Len(PropIndex[t]) > 1
        /\ Runs[t].p = Len(PropTable[t])
        /\ \A k \in 1..(Len(PropIndex[t]) - 1) :
             <<k * BLOCK_LEN + PropIndex[t][k][2], PropIndex[t][k][1]>> \in Runs[t].starts
        /\ PropIndex[t][Len(PropIndex[t])][1] = Runs[t].end
        /\ \A k \in 1..Len(PropIndex[t]) : EndsUpTo(t, PropIndex[t][k][1]) % 2 = 0
    BY IndexAssumption
  <1>2. Runs[t] = AllRuns(PropTable[t])
    BY DEF Runs
  <1>3. Reading(PropTable[t], Runs[t])
    BY <1>1, <1>2, TablesRead
  <1>4. \A x \in Int : EndsUpTo(t, x) \in Nat
    BY <1>3, EndsUpToIs, RankStep DEF Reading
  <1> QED
    BY <1>1, <1>3, <1>4

\* Where the runs and the index end.
LEMMA EndFacts ==
  ASSUME NEW t \in DOMAIN PropTable
  PROVE  /\ PropIndex[t] \in Seq(Nat \X Nat) /\ Len(PropIndex[t]) \in Nat /\ Len(PropIndex[t]) > 1
         /\ Runs[t].end \in Nat /\ Runs[t].ends \in SUBSET Nat
         /\ \A e \in Runs[t].ends : e <= Runs[t].end
         /\ PropIndex[t][Len(PropIndex[t])][1] = Runs[t].end
         /\ EndsUpTo(t, Runs[t].end) % 2 = 0
  <1>1. PropIndex[t] \in Seq(Nat \X Nat) /\ Len(PropIndex[t]) > 1
    BY TableFacts
  <1>2. Len(PropIndex[t]) \in Nat
    BY <1>1
  <1>3. Reading(PropTable[t], Runs[t])
    BY TableFacts
  <1>4. /\ Runs[t].end \in Nat /\ Runs[t].ends \in SUBSET Nat
        /\ \A e \in Runs[t].ends : e <= Runs[t].end
    BY <1>3 DEF Reading
  <1>5. PropIndex[t][Len(PropIndex[t])][1] = Runs[t].end
    BY TableFacts
  <1>6. EndsUpTo(t, Runs[t].end) % 2 = 0
    <2>1. Len(PropIndex[t]) \in 1..Len(PropIndex[t])
      BY <1>1, <1>2
    <2>2. EndsUpTo(t, PropIndex[t][Len(PropIndex[t])][1]) % 2 = 0
      BY <2>1, TableFacts
    <2> QED
      BY <1>5, <2>2
  <1> QED
    BY <1>1, <1>2, <1>4, <1>5, <1>6

\* Every run starts at the end of all or before.
LEMMA StartsBefore ==
  ASSUME NEW t \in DOMAIN PropTable, NEW p \in Nat, NEW from \in Nat, <<p, from>> \in Runs[t].starts
  PROVE  from <= Runs[t].end
  <1>1. Reading(PropTable[t], Runs[t])
    BY TableFacts
  <1>2. CASE from = Runs[t].end
    BY <1>2
  <1>3. CASE from # Runs[t].end
    <2>1. Followed(PropTable[t], Runs[t], p, from)
      BY <1>1, <1>3 DEF Reading
    <2> DEFINE next == RunEnd(PropTable[t], p, from)
    <2>2. next \in Nat /\ from < next /\ next \in Runs[t].ends
      BY <2>1 DEF Followed
    <2>3. Runs[t].end \in Nat /\ \A e \in Runs[t].ends : e <= Runs[t].end
      BY <1>1 DEF Reading
    <2> HIDE DEF next
    <2> QED
      BY <2>2, <2>3
  <1> QED
    BY <1>2, <1>3

\* Before the end of all runs there is one more.
LEMMA RunAhead ==
  ASSUME NEW t \in DOMAIN PropTable, NEW p \in Nat, NEW from \in Nat,
         <<p, from>> \in Runs[t].starts, from < Runs[t].end
  PROVE  Followed(PropTable[t], Runs[t], p, from)
  <1>1. Reading(PropTable[t], Runs[t])
    BY TableFacts
  <1>2. from # Runs[t].end
    BY <1>1 DEF Reading
  <1> QED
    BY <1>1, <1>2 DEF Reading

LEMMA Parities ==
  ASSUME NEW t \in DOMAIN PropTable, NEW p \in Nat, NEW from \in Nat,
         Followed(PropTable[t], Runs[t], p, from),
         NEW end, end = RunEnd(PropTable[t], p, from),
         NEW middle, middle = Middle(PropTable[t], p, from),
         NEW packed, packed <=> IsPacked(PropTable[t][p + 1])
  PROVE  /\ \A x \in Nat : from <= x /\ x < (IF packed THEN middle ELSE end) =>
                             EndsUpTo(t, x) = EndsUpTo(t, from)
         /\ ~packed => EndsUpTo(t, end) = EndsUpTo(t, from) + 1
         /\ packed => /\ \A x \in Nat : middle <= x /\ x < end =>
                                          EndsUpTo(t, x) = EndsUpTo(t, from) + 1
                      /\ EndsUpTo(t, end) = EndsUpTo(t, from) + 2
  <1> DEFINE S == Runs[t].ends
  <1>1. S \in SUBSET Nat /\ IsFiniteSet(S)
    BY TableFacts DEF Reading
  <1>2. /\ from < end /\ end \in Nat /\ end \in S
        /\ packed => middle \in S /\ from < middle /\ middle < end
        /\ \A e \in S : e <= from \/ end <= e \/ (packed /\ e = middle)
    BY DEF Followed
  <1>3. \A x : EndsUpTo(t, x) = Rank(S, x)
    BY EndsUpToIs
  <1> HIDE DEF S
  <1>4. ASSUME NEW x \in Nat, from <= x, x < (IF packed THEN middle ELSE end)
        PROVE  Rank(S, x) = Rank(S, from)
    <2>1. packed => middle \in Nat
      BY <1>1, <1>2
    <2>2. \A e \in S : e <= from \/ x < e
      BY <1>1, <1>2, <1>4, <2>1
    <2> QED
      BY <1>1, <1>4, <2>2, RankSame
  <1>5. ASSUME ~packed PROVE Rank(S, end) = Rank(S, from) + 1
    <2>1. \A e \in S : e <= from \/ end <= e
      BY <1>2, <1>5
    <2> QED
      BY <1>1, <1>2, <2>1, RankNext
  <1>6. ASSUME packed
        PROVE  /\ \A x \in Nat : middle <= x /\ x < end => Rank(S, x) = Rank(S, from) + 1
               /\ Rank(S, end) = Rank(S, from) + 2
    <2>1. middle \in S /\ middle \in Nat /\ from < middle /\ middle < end
      BY <1>1, <1>2, <1>6
    <2>2. \A e \in S : e <= from \/ middle <= e
      BY <1>1, <1>2, <2>1
    <2>3. Rank(S, middle) = Rank(S, from) + 1
      BY <1>1, <2>1, <2>2, RankNext
    <2>4. \A e \in S : e <= middle \/ end <= e
      BY <1>1, <1>2, <2>1
    <2>5. Rank(S, end) = Rank(S, middle) + 1
      BY <1>1, <1>2, <2>1, <2>4, RankNext
    <2>6. Rank(S, from) \in Nat
      BY <1>1, RankStep
    <2>7. ASSUME NEW x \in Nat, middle <= x, x < end PROVE Rank(S, x) = Rank(S, middle)
      <3>1. \A e \in S : e <= middle \/ x < e
        <4> SUFFICES ASSUME NEW e \in S PROVE e <= middle \/ x < e
          OBVIOUS
        <4>1. e \in Nat /\ end \in Nat /\ (e <= middle \/ end <= e)
          BY <1>1, <1>2, <2>4
        <4> QED
          BY <2>1, <2>7, <4>1
      <3> QED
        BY <1>1, <2>1, <2>7, <3>1, RankSame
    <2> QED
      BY <2>3, <2>5, <2>6, <2>7
  <1> QED
    BY <1>3, <1>4, <1>5, <1>6

--------------------------------------------------------------------------------
(***************************************************************************)
(* The lookups.                                                            *)
(***************************************************************************)
\* What the tables and the entries say of a question.
Said(q) ==
  \/ q[1] = "is_cased" /\ EntryOf(q[2]) # {}
  \/ \E n \in DOMAIN TablesOf(q[1]) : InProp(TablesOf(q[1])[n], q[2])

\* All the tables are left to be asked, or the first said no.
Left(q, ts) ==
  \/ ts = TablesOf(q[1])
  \/ /\ q[1] = "is_id_continue" /\ ts = <<"ID_Continue1">>
     /\ ~InProp("ID_Start", q[2])

\* A table is asked.
Asked(q, ts) == ts # <<>> /\ (q[1] = "is_cased" => EntryOf(q[2]) = {})

\* The character is in one of the blocks that are left.
Between(t, lo, hi, x) ==
  /\ lo \in Nat /\ hi \in Nat /\ lo < hi /\ hi < Len(PropIndex[t])
  /\ PropIndex[t][lo + 1][1] <= x /\ x < PropIndex[t][hi + 1][1]

\* The byte p starts a run at a character up to x, and b is what that run is.
RunAt(t, p, from, b, x) ==
  /\ p \in Nat /\ from \in Nat /\ b \in BOOLEAN
  /\ <<p, from>> \in Runs[t].starts
  /\ from <= x /\ x < Runs[t].end
  /\ b <=> EndsUpTo(t, from) % 2 = 1

LookupInv ==
  /\ query \in Questions \X Nat \X SUBSET Conversions
  /\ qpc \in {"ask", "index", "runs", "answered"}
  /\ Left(query, tables)
  /\ qpc \in {"index", "runs"} => Asked(query, tables)
  /\ qpc = "index" => Between(tables[1], idx_min, idx_max, query[2])
  /\ qpc = "runs" => RunAt(tables[1], pos, code, bit, query[2])
  /\ qpc = "answered" /\ query[1] # "is_changed" => (answer <=> Said(query))

LEMMA Names == DOMAIN PropTable = {"Cased1", "Case_Ignorable", "ID_Start", "ID_Continue1"}
  BY DEF PropTable

LEMMA TablesAre ==
  ASSUME NEW q \in Questions \X Nat \X SUBSET Conversions, NEW ts, Left(q, ts), Asked(q, ts)
  PROVE  \/ q[1] = "is_cased" /\ TablesOf(q[1]) = <<"Cased1">> /\ ts = <<"Cased1">>
         \/ q[1] = "is_case_ignorable" /\ TablesOf(q[1]) = <<"Case_Ignorable">> /\ ts = <<"Case_Ignorable">>
         \/ q[1] = "is_id_start" /\ TablesOf(q[1]) = <<"ID_Start">> /\ ts = <<"ID_Start">>
         \/ /\ q[1] = "is_id_continue" /\ TablesOf(q[1]) = <<"ID_Start", "ID_Continue1">>
            /\ ts = <<"ID_Start", "ID_Continue1">>
         \/ /\ q[1] = "is_id_continue" /\ TablesOf(q[1]) = <<"ID_Start", "ID_Continue1">>
            /\ ts = <<"ID_Continue1">> /\ ~InProp("ID_Start", q[2])
  <1>1. q[1] \in Questions
    OBVIOUS
  <1>2. \/ ts = TablesOf(q[1])
        \/ q[1] = "is_id_continue" /\ ts = <<"ID_Continue1">> /\ ~InProp("ID_Start", q[2])
    BY DEF Left
  <1>3. ts # <<>>
    BY DEF Asked
  <1>4. CASE q[1] = "is_cased"
    BY <1>2, <1>4 DEF TablesOf
  <1>5. CASE q[1] = "is_case_ignorable"
    BY <1>2, <1>5 DEF TablesOf
  <1>6. CASE q[1] = "is_id_start"
    BY <1>2, <1>6 DEF TablesOf
  <1>7. CASE q[1] = "is_id_continue"
    BY <1>2, <1>7 DEF TablesOf
  <1>8. CASE q[1] = "is_changed"
    BY <1>2, <1>3, <1>8 DEF TablesOf
  <1> QED
    BY <1>1, <1>4, <1>5, <1>6, <1>7, <1>8 DEF Questions

LEMMA FirstTable ==
  ASSUME NEW q \in Questions \X Nat \X SUBSET Conversions, NEW ts, Left(q, ts), Asked(q, ts)
  PROVE  ts[1] \in DOMAIN PropTable /\ q[1] # "is_changed"
  BY TablesAre, Names

LEMMA SaysYes ==
  ASSUME NEW q \in Questions \X Nat \X SUBSET Conversions, NEW ts, Left(q, ts), Asked(q, ts),
         InProp(ts[1], q[2])
  PROVE  Said(q)
  <1>1. \E n \in DOMAIN TablesOf(q[1]) : TablesOf(q[1])[n] = ts[1]
    <2>1. CASE q[1] = "is_id_continue" /\ ts = <<"ID_Continue1">>
      <3>1. TablesOf(q[1]) = <<"ID_Start", "ID_Continue1">>
        BY <2>1, TablesAre
      <3> QED
        BY <2>1, <3>1
    <2>2. CASE ~(q[1] = "is_id_continue" /\ ts = <<"ID_Continue1">>)
      <3>1. TablesOf(q[1]) = ts /\ 1 \in DOMAIN ts
        BY <2>2, TablesAre
      <3> QED
        BY <3>1
    <2> QED
      BY <2>1, <2>2
  <1> QED
    BY <1>1 DEF Said

LEMMA SaysNo ==
  ASSUME NEW q \in Questions \X Nat \X SUBSET Conversions, NEW ts, Left(q, ts), Asked(q, ts),
         ~InProp(ts[1], q[2])
  PROVE  IF Len(ts) > 1 THEN Left(q, Tail(ts)) ELSE ~Said(q)
  <1>1. CASE Len(ts) > 1
    <2>0. \A name : Len(<<name>>) = 1
      OBVIOUS
    <2>1. \A name : ts # <<name>>
      <3> SUFFICES ASSUME NEW name, ts = <<name>> PROVE FALSE
        OBVIOUS
      <3>1. Len(ts) = 1
        BY <2>0
      <3> QED
        BY <1>1, <3>1
    <2>2. q[1] = "is_id_continue" /\ ts = <<"ID_Start", "ID_Continue1">>
      BY <2>1, TablesAre
    <2>3. Tail(ts) = <<"ID_Continue1">> /\ ts[1] = "ID_Start"
      BY <2>2
    <2> QED
      BY <1>1, <2>2, <2>3 DEF Left
  <1>2. CASE ~(Len(ts) > 1)
    <2>1. ~(q[1] = "is_cased" /\ EntryOf(q[2]) # {})
      BY DEF Asked
    <2>2. \A n \in DOMAIN TablesOf(q[1]) : ~InProp(TablesOf(q[1])[n], q[2])
      <3>1. CASE q[1] = "is_id_continue"
        <4>1. /\ TablesOf(q[1]) = <<"ID_Start", "ID_Continue1">> /\ ts = <<"ID_Continue1">>
              /\ ~InProp("ID_Start", q[2])
          BY <1>2, <3>1, TablesAre
        <4>2. ~InProp("ID_Continue1", q[2])
          BY <4>1
        <4> QED
          BY <4>1, <4>2
      <3>2. CASE q[1] # "is_id_continue"
        <4>1. TablesOf(q[1]) = ts /\ DOMAIN ts = {1}
          BY <3>2, TablesAre
        <4> QED
          BY <4>1
      <3> QED
        BY <3>1, <3>2
    <2> QED
      BY <1>2, <2>1, <2>2 DEF Said
  <1> QED
    BY <1>1, <1>2

\* What a table says decides the question or leads to the next table.
LEMMA Decided ==
  ASSUME LookupInv, Asked(query, tables), UNCHANGED query,
         NEW b, b <=> InProp(tables[1], char),
         IF b THEN Answer(TRUE) /\ UNCHANGED tables ELSE No
  PROVE  LookupInv'
  <1>1. /\ query \in Questions \X Nat \X SUBSET Conversions /\ Left(query, tables)
        /\ char = query[2]
    BY DEF LookupInv, char
  <1>2. CASE b
    <2>1. tables' = tables /\ query' = query /\ answer' = TRUE /\ qpc' = "answered" /\ Said(query)
      BY <1>1, <1>2, SaysYes DEF Answer
    <2> QED
      BY <1>1, <2>1 DEF LookupInv
  <1>3. CASE ~b /\ Len(tables) > 1
    <2>1. tables' = Tail(tables) /\ query' = query /\ qpc' = "ask" /\ Left(query, Tail(tables))
      BY <1>1, <1>3, SaysNo DEF No
    <2> QED
      BY <1>1, <2>1 DEF LookupInv
  <1>4. CASE ~b /\ ~(Len(tables) > 1)
    <2>1. tables' = tables /\ query' = query /\ answer' = FALSE /\ qpc' = "answered" /\ ~Said(query)
      BY <1>1, <1>4, SaysNo DEF No, Answer
    <2> QED
      BY <1>1, <2>1 DEF LookupInv
  <1> QED
    BY <1>2, <1>3, <1>4

LEMMA NoEndsBefore ==
  ASSUME NEW t \in DOMAIN PropTable
  PROVE  EndsUpTo(t, 0) = 0
  <1>1. \A e \in Runs[t].ends : 0 < e /\ e \in Nat
    BY TableFacts DEF Reading
  <1>2. {e \in Runs[t].ends : e <= 0} = {}
    BY <1>1
  <1> QED
    BY <1>2, FS_EmptySet DEF EndsUpTo

\* Behind the last block there is nothing of the property.
LEMMA NothingBehind ==
  ASSUME NEW t \in DOMAIN PropTable, NEW x \in Nat, Runs[t].end <= x
  PROVE  ~InProp(t, x)
  <1>1. /\ Runs[t].end \in Nat /\ Runs[t].ends \in SUBSET Nat
        /\ \A e \in Runs[t].ends : e <= Runs[t].end
        /\ EndsUpTo(t, Runs[t].end) % 2 = 0
    BY EndFacts
  <1>2. EndsUpTo(t, Runs[t].end) = EndsUpTo(t, x)
    BY <1>1, RankSame, EndsUpToIs
  <1> QED
    BY <1>1, <1>2 DEF InProp

\* A block starts before the end of all runs.
LEMMA BlocksBefore ==
  ASSUME NEW t \in DOMAIN PropTable, NEW k \in 1..Len(PropIndex[t])
  PROVE  /\ PropIndex[t][k][1] \in Nat /\ PropIndex[t][k][1] <= Runs[t].end
         /\ k < Len(PropIndex[t]) => k * BLOCK_LEN + PropIndex[t][k][2] \in Nat
  <1>0. Len(PropIndex[t]) \in Nat /\ Runs[t].end \in Nat
    BY EndFacts
  <1>1. PropIndex[t][k] \in Nat \X Nat
    BY EndFacts, ElementOfSeq
  <1>2. PropIndex[t][k][1] \in Nat /\ PropIndex[t][k][2] \in Nat
    BY <1>1
  <1>3. k * BLOCK_LEN + PropIndex[t][k][2] \in Nat
    BY <1>2 DEF BLOCK_LEN
  <1>4. CASE k = Len(PropIndex[t])
    <2>1. PropIndex[t][k][1] = Runs[t].end
      BY <1>4, EndFacts
    <2> QED
      BY <1>0, <1>2, <1>4, <2>1
  <1>5. CASE k # Len(PropIndex[t])
    <2>1. k \in 1..(Len(PropIndex[t]) - 1)
      BY <1>0, <1>5
    <2>2. <<k * BLOCK_LEN + PropIndex[t][k][2], PropIndex[t][k][1]>> \in Runs[t].starts
      BY <2>1, TableFacts
    <2>3. PropIndex[t][k][1] <= Runs[t].end
      BY <1>2, <1>3, <2>2, StartsBefore
    <2> QED
      BY <1>2, <1>3, <2>3
  <1> QED
    BY <1>4, <1>5

\* The search in the index and the reading of runs go on with the same table.
LEMMA ToBlocks ==
  ASSUME LookupInv, Asked(query, tables), UNCHANGED <<query, tables>>, qpc' = "index",
         NEW lo, NEW hi, idx_min' = lo, idx_max' = hi, Between(tables[1], lo, hi, char)
  PROVE  LookupInv'
  <1>1. query' = query /\ tables' = tables
    OBVIOUS
  <1>2. Between(tables'[1], idx_min', idx_max', query'[2])
    BY <1>1 DEF char
  <1> QED
    BY <1>1, <1>2 DEF LookupInv

LEMMA ToRuns ==
  ASSUME LookupInv, Asked(query, tables), UNCHANGED <<query, tables>>, qpc' = "runs",
         NEW p, NEW from, NEW b, pos' = p, code' = from, bit' = b,
         RunAt(tables[1], p, from, b, char)
  PROVE  LookupInv'
  <1>1. query' = query /\ tables' = tables
    OBVIOUS
  <1>2. RunAt(tables'[1], pos', code', bit', query'[2])
    BY <1>1 DEF char
  <1> QED
    BY <1>1, <1>2 DEF LookupInv

LEMMA AskStep == ASSUME LookupInv, Ask PROVE LookupInv'
  <1> DEFINE t == tables[1]
  <1>1. /\ query \in Questions \X Nat \X SUBSET Conversions /\ Left(query, tables)
        /\ Asked(query, tables) /\ UNCHANGED query
        /\ char = query[2] /\ char \in Nat
    BY DEF LookupInv, char, Ask, Asked
  <1>2. t \in DOMAIN PropTable
    BY <1>1, FirstTable
  <1>3. /\ Len(Index) \in Nat /\ Len(Index) > 1 /\ Index = PropIndex[t]
        /\ \A k \in 0..(Len(Index) - 1) : Block(k) = PropIndex[t][k + 1] /\ k + 1 \in 1..Len(PropIndex[t])
    <2>1. Index = PropIndex[t]
      BY DEF Index
    <2>2. PropIndex[t] \in Seq(Nat \X Nat) /\ Len(PropIndex[t]) > 1
      BY <1>2, EndFacts
    <2>3. Len(PropIndex[t]) \in Nat
      BY <1>2, EndFacts
    <2>4. \A k : Block(k) = PropIndex[t][k + 1]
      BY <2>1 DEF Block
    <2> HIDE DEF t
    <2>5. \A k \in 0..(Len(PropIndex[t]) - 1) : k + 1 \in 1..Len(PropIndex[t])
      BY <2>3
    <2> QED
      BY <2>1, <2>2, <2>3, <2>4, <2>5
  <1>4. CASE char < Block(0)[1] /\ pos' = 0 /\ code' = 0 /\ bit' = FALSE /\ qpc' = "runs" /\ UNCHANGED tables
    <2>1. char < Runs[t].end
      <3>1. Block(0)[1] \in Nat /\ Block(0)[1] <= Runs[t].end
        BY <1>2, <1>3, BlocksBefore
      <3>2. Runs[t].end \in Nat
        BY <1>2, EndFacts
      <3> QED
        BY <1>1, <1>4, <3>1, <3>2
    <2>2. <<0, 0>> \in Runs[t].starts /\ EndsUpTo(t, 0) = 0
      BY <1>2, TableFacts, NoEndsBefore DEF Reading
    <2>3. RunAt(t, 0, 0, FALSE, char)
      BY <1>1, <2>1, <2>2 DEF RunAt
    <2> QED
      BY <1>1, <1>4, <2>3, ToRuns
  <1>5. CASE char >= Block(Len(Index) - 1)[1] /\ No
    <2>1. Block(Len(Index) - 1)[1] = Runs[t].end
      <3>1. Len(Index) - 1 \in 0..(Len(Index) - 1) /\ Len(Index) - 1 + 1 = Len(PropIndex[t])
        BY <1>3
      <3> QED
        BY <1>2, <1>3, <3>1, EndFacts
    <2>2. Runs[t].end \in Nat
      BY <1>2, EndFacts
    <2>3. ~InProp(t, char)
      BY <1>1, <1>2, <1>5, <2>1, <2>2, NothingBehind
    <2>4. IF FALSE THEN Answer(TRUE) /\ UNCHANGED tables ELSE No
      BY <1>5
    <2> QED
      BY <1>1, <2>3, <2>4, Decided
  <1>6. CASE /\ char >= Block(0)[1] /\ char < Block(Len(Index) - 1)[1]
             /\ idx_min' = 0 /\ idx_max' = Len(Index) - 1 /\ qpc' = "index" /\ UNCHANGED tables
    <2>1. Block(0)[1] \in Nat
      BY <1>2, <1>3, BlocksBefore
    <2>2. Between(t, 0, Len(Index) - 1, char)
      BY <1>1, <1>3, <1>6, <2>1 DEF Between, Index, Block
    <2> QED
      BY <1>1, <1>6, <2>2, ToBlocks
  <1> QED
    BY <1>4, <1>5, <1>6 DEF Ask

LEMMA HalveStep == ASSUME LookupInv, Halve PROVE LookupInv'
  <1> DEFINE middle == (idx_min + idx_max) \div 2
             t == tables[1]
  <1>1. /\ Between(t, idx_min, idx_max, char) /\ Asked(query, tables) /\ Left(query, tables)
        /\ query \in Questions \X Nat \X SUBSET Conversions
        /\ idx_max - idx_min > 1
        /\ UNCHANGED <<query, tables>> /\ qpc' = "index"
    BY DEF LookupInv, Halve, char
  <1>2. t \in DOMAIN PropTable /\ char \in Nat
    BY <1>1, FirstTable DEF char
  <1>3. /\ idx_min \in Nat /\ idx_max \in Nat /\ idx_min < idx_max /\ idx_max < Len(PropIndex[t])
        /\ PropIndex[t][idx_min + 1][1] <= char /\ char < PropIndex[t][idx_max + 1][1]
    BY <1>1 DEF Between
  <1>4. middle \in Nat /\ idx_min < middle /\ middle < idx_max
    BY <1>1, <1>3
  <1>5. Len(PropIndex[t]) \in Nat
    BY <1>2, EndFacts
  <1>6. PropIndex[t][middle + 1][1] \in Nat
    <2>1. middle + 1 \in 1..Len(PropIndex[t])
      BY <1>3, <1>4, <1>5
    <2> QED
      BY <1>2, <2>1, BlocksBefore
  <1>7. Block(middle)[1] = PropIndex[t][middle + 1][1]
    BY DEF Block, Index
  <1> HIDE DEF middle
  <1>8. CASE char < PropIndex[t][middle + 1][1]
    <2>1. idx_max' = middle /\ idx_min' = idx_min
      BY <1>7, <1>8 DEF Halve, middle
    <2>2. Between(t, idx_min, middle, char)
      BY <1>3, <1>4, <1>5, <1>8 DEF Between
    <2> QED
      BY <1>1, <2>1, <2>2, ToBlocks
  <1>9. CASE ~(char < PropIndex[t][middle + 1][1])
    <2>1. idx_min' = middle /\ idx_max' = idx_max
      BY <1>7, <1>9 DEF Halve, middle
    <2>2. Between(t, middle, idx_max, char)
      BY <1>2, <1>3, <1>4, <1>6, <1>9 DEF Between
    <2> QED
      BY <1>1, <2>1, <2>2, ToBlocks
  <1> QED
    BY <1>8, <1>9

LEMMA FoundStep == ASSUME LookupInv, Found PROVE LookupInv'
  <1> DEFINE t == tables[1]
             k == idx_min + 1
  <1>1. /\ Between(t, idx_min, idx_max, char) /\ Asked(query, tables) /\ Left(query, tables)
        /\ query \in Questions \X Nat \X SUBSET Conversions
        /\ UNCHANGED <<query, tables>> /\ qpc' = "runs"
        /\ code' = Block(idx_min)[1] /\ pos' = BlockStart(idx_min) /\ bit' = FALSE
    BY DEF LookupInv, Found, char
  <1>2. t \in DOMAIN PropTable /\ char \in Nat
    BY <1>1, FirstTable DEF char
  <1>3. /\ idx_min \in Nat /\ idx_max \in Nat /\ idx_min < idx_max /\ idx_max < Len(PropIndex[t])
        /\ PropIndex[t][k][1] <= char /\ char < PropIndex[t][idx_max + 1][1]
    BY <1>1 DEF Between
  <1>4. Len(PropIndex[t]) \in Nat /\ Runs[t].end \in Nat
    BY <1>2, EndFacts
  <1>5. k \in 1..Len(PropIndex[t]) /\ k < Len(PropIndex[t]) /\ idx_max + 1 \in 1..Len(PropIndex[t])
        /\ k \in 1..(Len(PropIndex[t]) - 1)
    BY <1>3, <1>4
  <1>6. /\ pos' = k * BLOCK_LEN + PropIndex[t][k][2] /\ code' = PropIndex[t][k][1]
        /\ pos' \in Nat /\ code' \in Nat
    <2>1. pos' = k * BLOCK_LEN + PropIndex[t][k][2] /\ code' = PropIndex[t][k][1]
      BY <1>1 DEF BlockStart, Block, Index
    <2> QED
      BY <1>2, <1>5, <2>1, BlocksBefore
  <1>7. <<pos', code'>> \in Runs[t].starts /\ EndsUpTo(t, code') % 2 = 0
    BY <1>2, <1>5, <1>6, TableFacts
  <1>8. code' <= char /\ char < Runs[t].end
    <2>1. PropIndex[t][idx_max + 1][1] \in Nat /\ PropIndex[t][idx_max + 1][1] <= Runs[t].end
      BY <1>2, <1>5, BlocksBefore
    <2>2. PropIndex[t][k][1] <= char /\ char < PropIndex[t][idx_max + 1][1] /\ char \in Nat
      BY <1>2, <1>3
    <2>3. code' <= char
      BY <1>6, <2>2, Zenon
    <2>4. \A x, y, z \in Nat : x < y /\ y <= z => x < z
      OBVIOUS
    <2> QED
      BY <1>4, <2>1, <2>2, <2>3, <2>4, Zenon
  <1>9. RunAt(t, pos', code', FALSE, char)
    BY <1>6, <1>7, <1>8 DEF RunAt
  <1> QED
    BY <1>1, <1>9, ToRuns

LEMMA LongRunStep == ASSUME LookupInv, LongRun PROVE LookupInv'
  <1> DEFINE t == tables[1]
             end == code + RunLength(Table, pos)
             next == pos + RunBytes(Byte(pos))
  <1>1. /\ RunAt(t, pos, code, bit, char) /\ Asked(query, tables) /\ Left(query, tables)
        /\ query \in Questions \X Nat \X SUBSET Conversions
        /\ UNCHANGED query /\ qpc = "runs"
        /\ ~IsPacked(Byte(pos)) /\ Passed(end, next)
    BY DEF LookupInv, LongRun, char
  <1>2. t \in DOMAIN PropTable /\ char \in Nat
    BY <1>1, FirstTable DEF char
  <1>3. /\ pos \in Nat /\ code \in Nat /\ bit \in BOOLEAN /\ <<pos, code>> \in Runs[t].starts
        /\ code <= char /\ char < Runs[t].end /\ (bit <=> EndsUpTo(t, code) % 2 = 1)
    BY <1>1 DEF RunAt
  <1>4. Runs[t].end \in Nat /\ Runs[t].starts \in SUBSET (Nat \X Nat)
    <2>1. Reading(PropTable[t], Runs[t])
      BY <1>2, TableFacts
    <2> QED
      BY <2>1 DEF Reading
  <1>5. Followed(PropTable[t], Runs[t], pos, code)
    BY <1>2, <1>3, <1>4, RunAhead
  <1>6. Byte(pos) = PropTable[t][pos + 1] /\ end = RunEnd(PropTable[t], pos, code)
    BY <1>1 DEF Byte, Table, RunEnd
  <1> HIDE DEF t, end, next
  <1>7. /\ \A x \in Nat : code <= x /\ x < end => EndsUpTo(t, x) = EndsUpTo(t, code)
        /\ EndsUpTo(t, end) = EndsUpTo(t, code) + 1
    <2>1. ~IsPacked(PropTable[t][pos + 1])
      BY <1>1, <1>6
    <2> QED
      BY <1>2, <1>3, <1>5, <1>6, <2>1, Parities
  <1>8. code < end /\ end \in Nat /\ <<next, end>> \in Runs[t].starts /\ next \in Nat
    <2>1. code < end /\ end \in Nat /\ <<next, end>> \in Runs[t].starts
      BY <1>5, <1>6 DEF Followed, next
    <2> QED
      BY <1>4, <2>1
  <1>9. EndsUpTo(t, code) \in Nat
    BY <1>2, <1>3, TableFacts
  <1>10. CASE char < end
    <2>1. IF bit THEN Answer(TRUE) /\ UNCHANGED tables ELSE No
      BY <1>1, <1>10 DEF Passed
    <2>2. bit <=> InProp(tables[1], char)
      BY <1>2, <1>3, <1>7, <1>10 DEF InProp, t
    <2> QED
      BY <1>1, <2>1, <2>2, Decided
  <1>11. CASE ~(char < end)
    <2>1. bit' = ~bit /\ UNCHANGED <<tables, qpc>> /\ code' = end /\ pos' = next
      BY <1>1, <1>11 DEF Passed
    <2>2. ~bit <=> EndsUpTo(t, end) % 2 = 1
      BY <1>3, <1>7, <1>9
    <2>3. RunAt(tables[1], next, end, ~bit, char)
      BY <1>2, <1>3, <1>8, <1>11, <2>2 DEF RunAt, t
    <2> QED
      BY <1>1, <2>1, <2>3, ToRuns
  <1> QED
    BY <1>10, <1>11

LEMMA PackedRunsStep == ASSUME LookupInv, PackedRuns PROVE LookupInv'
  <1> DEFINE t == tables[1]
             middle == code + First(Byte(pos))
             end == middle + Second(Byte(pos))
  <1>1. /\ RunAt(t, pos, code, bit, char) /\ Asked(query, tables) /\ Left(query, tables)
        /\ query \in Questions \X Nat \X SUBSET Conversions
        /\ UNCHANGED query /\ qpc = "runs" /\ IsPacked(Byte(pos))
    BY DEF LookupInv, PackedRuns, char
  <1>2. t \in DOMAIN PropTable /\ char \in Nat
    BY <1>1, FirstTable DEF char
  <1>3. /\ pos \in Nat /\ code \in Nat /\ bit \in BOOLEAN /\ <<pos, code>> \in Runs[t].starts
        /\ code <= char /\ char < Runs[t].end /\ (bit <=> EndsUpTo(t, code) % 2 = 1)
    BY <1>1 DEF RunAt
  <1>4. Runs[t].end \in Nat /\ Runs[t].starts \in SUBSET (Nat \X Nat) /\ Runs[t].ends \in SUBSET Nat
    <2>1. Reading(PropTable[t], Runs[t])
      BY <1>2, TableFacts
    <2> QED
      BY <2>1 DEF Reading
  <1>5. Followed(PropTable[t], Runs[t], pos, code)
    BY <1>2, <1>3, <1>4, RunAhead
  <1>6. /\ Byte(pos) = PropTable[t][pos + 1] /\ middle = Middle(PropTable[t], pos, code)
        /\ end = RunEnd(PropTable[t], pos, code) /\ RunBytes(Byte(pos)) = 1
    BY <1>1 DEF Byte, Table, RunEnd, Middle, RunBytes
  <1>7. \/ char < middle /\ Passed(middle, pos + 1)
        \/ /\ ~(char < middle) /\ code' = end /\ pos' = pos + 1
           /\ IF char < end
                THEN (IF ~bit THEN Answer(TRUE) /\ UNCHANGED tables ELSE No)
                ELSE UNCHANGED <<tables, bit, answer, qpc>>
    BY DEF PackedRuns
  <1> HIDE DEF t, middle, end
  <1>8. /\ \A x \in Nat : code <= x /\ x < middle => EndsUpTo(t, x) = EndsUpTo(t, code)
        /\ \A x \in Nat : middle <= x /\ x < end => EndsUpTo(t, x) = EndsUpTo(t, code) + 1
        /\ EndsUpTo(t, end) = EndsUpTo(t, code) + 2
    <2>1. IsPacked(PropTable[t][pos + 1])
      BY <1>1, <1>6
    <2> QED
      BY <1>2, <1>3, <1>5, <1>6, <2>1, Parities
  <1>9. /\ middle \in Nat /\ end \in Nat /\ code < middle /\ middle < end
        /\ <<pos + 1, end>> \in Runs[t].starts
    <2>1. IsPacked(PropTable[t][pos + 1]) /\ RunBytes(PropTable[t][pos + 1]) = 1
      BY <1>1, <1>6
    <2>2. /\ middle \in Runs[t].ends /\ end \in Nat /\ code < middle /\ middle < end
          /\ <<pos + 1, end>> \in Runs[t].starts
      BY <1>5, <1>6, <2>1 DEF Followed
    <2> QED
      BY <1>4, <2>2
  <1>10. EndsUpTo(t, code) \in Nat
    BY <1>2, <1>3, TableFacts
  <1>11. CASE char < middle
    <2>1. IF bit THEN Answer(TRUE) /\ UNCHANGED tables ELSE No
      BY <1>7, <1>11 DEF Passed
    <2>2. bit <=> InProp(tables[1], char)
      BY <1>2, <1>3, <1>8, <1>11 DEF InProp, t
    <2> QED
      BY <1>1, <2>1, <2>2, Decided
  <1>12. CASE ~(char < middle) /\ char < end
    <2>1. IF ~bit THEN Answer(TRUE) /\ UNCHANGED tables ELSE No
      BY <1>7, <1>12
    <2>2. EndsUpTo(t, char) = EndsUpTo(t, code) + 1
      BY <1>2, <1>8, <1>9, <1>12
    <2>3. ~bit <=> InProp(tables[1], char)
      <3>1. ~bit <=> (EndsUpTo(t, code) + 1) % 2 = 1
        BY <1>3, <1>10
      <3> QED
        BY <2>2, <3>1 DEF InProp, t
    <2> QED
      BY <1>1, <2>1, <2>3, Decided
  <1>13. CASE ~(char < middle) /\ ~(char < end)
    <2>1. UNCHANGED <<tables, bit, qpc>> /\ code' = end /\ pos' = pos + 1
      BY <1>7, <1>13
    <2>2. bit <=> EndsUpTo(t, end) % 2 = 1
      <3>1. bit <=> (EndsUpTo(t, code) + 2) % 2 = 1
        BY <1>3, <1>10
      <3> QED
        BY <1>8, <3>1
    <2>3. RunAt(tables[1], pos + 1, end, bit, char)
      BY <1>2, <1>3, <1>9, <1>13, <2>2 DEF RunAt, t
    <2> QED
      BY <1>1, <2>1, <2>3, ToRuns
  <1> QED
    BY <1>11, <1>12, <1>13

LEMMA LookupInit == QuestionInit => LookupInv
  <1> SUFFICES ASSUME QuestionInit PROVE LookupInv
    OBVIOUS
  <1>1. query \in Questions \X Nat \X SUBSET Conversions
    BY QueriesAssumption DEF QuestionInit
  <1> QED
    BY <1>1 DEF QuestionInit, LookupInv, Left

LEMMA AnsweredAtOnce ==
  ASSUME LookupInv, CasedByTable \/ AskCase \/ UNCHANGED propVars
  PROVE  LookupInv'
  <1>1. CASE CasedByTable
    <2>1. /\ UNCHANGED <<query, tables>> /\ answer' = TRUE /\ qpc' = "answered"
          /\ Said(query)
      BY <1>1 DEF CasedByTable, Answer, Said, char
    <2> QED
      BY <2>1 DEF LookupInv
  <1>2. CASE AskCase
    <2>1. UNCHANGED <<query, tables>> /\ qpc' = "answered" /\ query[1] = "is_changed"
      BY <1>2 DEF AskCase, Answer
    <2> QED
      BY <2>1 DEF LookupInv
  <1>3. CASE UNCHANGED propVars
    <2>1. UNCHANGED <<query, tables, idx_min, idx_max, pos, code, bit, answer, qpc>>
      BY <1>3 DEF propVars
    <2> QED
      BY <2>1 DEF LookupInv
  <1> QED
    BY <1>1, <1>2, <1>3

LEMMA LookupNext == LookupInv /\ [QuestionStep]_propVars => LookupInv'
  <1> SUFFICES ASSUME LookupInv, [QuestionStep]_propVars PROVE LookupInv'
    OBVIOUS
  <1> QED
    BY AnsweredAtOnce, AskStep, HalveStep, FoundStep, LongRunStep, PackedRunsStep DEF QuestionStep

\* The index and the runs from there on give the answer of all the runs of the table
\* from the first, for every character and every question of the four.
\* (get_index_pos, lre_is_in_table, lre_is_cased, lre_is_id_continue)
THEOREM LookupsAreExact == QuestionSpec => []IndexAgrees
  <1>1. QuestionInit => LookupInv
    BY LookupInit
  <1>2. LookupInv /\ [QuestionStep]_propVars => LookupInv'
    BY LookupNext
  <1>3. LookupInv => IndexAgrees
    <2> SUFFICES ASSUME LookupInv PROVE IndexAgrees
      OBVIOUS
    <2>1. query[2] \in Nat /\ DOMAIN case_conv_table = 1..Last
      BY TableAssumption DEF LookupInv, Last
    <2>2. EntryOf(query[2]) # {} <=> \E k \in DOMAIN case_conv_table : InEntry(query[2], k)
      <3>1. EntryOf(query[2]) = {k \in 1..Last : InEntry(query[2], k)}
        BY <2>1, EntryOfIs
      <3> QED
        BY <2>1, <3>1
    <2> QED
      BY <2>2 DEF LookupInv, IndexAgrees, Said, char
  <1> QED
    BY <1>1, <1>2, <1>3, PTL DEF QuestionSpec

--------------------------------------------------------------------------------
(***************************************************************************)
(* The points of intervals, joined.                                        *)
(***************************************************************************)
Intervalwise == {s \in Seq(Nat) : Len(s) % 2 = 0}

LEMMA PairIn ==
  ASSUME NEW a \in Nat, NEW b \in Nat
  PROVE  <<a, b>> \in Intervalwise /\ \A x : IsIn(<<a, b>>, x) <=> a <= x /\ x < b
  <1>1. <<a, b>> \in Intervalwise
    BY DEF Intervalwise
  <1>2. \A n \in DOMAIN <<a, b>> : n % 2 = 1 <=> n = 1
    OBVIOUS
  <1>3. 1 \in DOMAIN <<a, b>> /\ <<a, b>>[1] = a /\ <<a, b>>[1 + 1] = b
    OBVIOUS
  <1> QED
    BY <1>1, <1>2, <1>3, Zenon DEF IsIn

LEMMA PairsIn ==
  ASSUME NEW a \in Nat, NEW b \in Nat, NEW z \in Nat
  PROVE  /\ <<a, b, b, z>> \in Intervalwise
         /\ \A x : IsIn(<<a, b, b, z>>, x) <=> (a <= x /\ x < b) \/ (b <= x /\ x < z)
  <1> DEFINE s == <<a, b, b, z>>
  <1>1. s \in Intervalwise
    BY DEF Intervalwise
  <1>2. \A n \in DOMAIN s : n % 2 = 1 <=> n = 1 \/ n = 3
    OBVIOUS
  <1>3. /\ 1 \in DOMAIN s /\ s[1] = a /\ s[1 + 1] = b
        /\ 3 \in DOMAIN s /\ s[3] = b /\ s[3 + 1] = z
    OBVIOUS
  <1> HIDE DEF s
  <1>4. \A x : IsIn(s, x) <=> (a <= x /\ x < b) \/ (b <= x /\ x < z)
    BY <1>2, <1>3, Zenon DEF IsIn
  <1> QED
    BY <1>1, <1>4 DEF s

LEMMA NothingIn == <<>> \in Intervalwise /\ \A x : ~IsIn(<<>>, x)
  BY DEF Intervalwise, IsIn

LEMMA JoinedIn ==
  ASSUME NEW s \in Intervalwise, NEW t \in Intervalwise
  PROVE  s \o t \in Intervalwise /\ \A x : IsIn(s \o t, x) <=> IsIn(s, x) \/ IsIn(t, x)
  <1> DEFINE u == s \o t
             a == Len(s)
             b == Len(t)
  <1>1. /\ s \in Seq(Nat) /\ t \in Seq(Nat) /\ a \in Nat /\ b \in Nat
        /\ a % 2 = 0 /\ b % 2 = 0
        /\ DOMAIN s = 1..a /\ DOMAIN t = 1..b
    BY DEF Intervalwise
  <1>2. /\ u \in Seq(Nat) /\ Len(u) = a + b /\ DOMAIN u = 1..(a + b)
        /\ \A n \in 1..(a + b) : u[n] = IF n <= a THEN s[n] ELSE t[n - a]
    <2>1. /\ u \in Seq(Nat) /\ Len(u) = a + b
          /\ \A n \in 1..(a + b) : u[n] = IF n <= a THEN s[n] ELSE t[n - a]
      BY <1>1, ConcatProperties
    <2>2. DOMAIN u = 1..Len(u)
      BY <2>1, LenProperties
    <2> HIDE DEF u, a, b
    <2> QED
      BY <2>1, <2>2
  <1> HIDE DEF a, b, u
  <1>0. /\ (a + b) % 2 = 0
        /\ \A n \in 1..a : n % 2 = 1 => n + 1 \in 1..a
        /\ \A n \in 1..b : n % 2 = 1 => n + 1 \in 1..b /\ (a + n) % 2 = 1
        /\ \A n \in 1..(a + b) : n % 2 = 1 => /\ n + 1 \in 1..(a + b)
                                              /\ n > a => (n - a) % 2 = 1
    <2>1. a \in Nat /\ b \in Nat /\ a % 2 = 0 /\ b % 2 = 0
      BY <1>1
    <2> QED
      BY <2>1
  <1>3. u \in Intervalwise
    BY <1>2, <1>0 DEF Intervalwise
  <1>4. ASSUME NEW x, IsIn(s, x) PROVE IsIn(u, x)
    <2>1. PICK n \in 1..a : n % 2 = 1 /\ s[n] <= x /\ x < s[n + 1]
      BY <1>1, <1>4 DEF IsIn
    <2>2. n + 1 <= a /\ n \in 1..(a + b) /\ n + 1 \in 1..(a + b)
      <3>1. n + 1 \in 1..a
        BY <1>0, <2>1
      <3> QED
        BY <1>1, <2>1, <3>1
    <2>3. u[n] = s[n] /\ u[n + 1] = s[n + 1]
      BY <1>2, <2>1, <2>2
    <2> QED
      BY <1>2, <2>1, <2>2, <2>3 DEF IsIn
  <1>5. ASSUME NEW x, IsIn(t, x) PROVE IsIn(u, x)
    <2>1. PICK n \in 1..b : n % 2 = 1 /\ t[n] <= x /\ x < t[n + 1]
      BY <1>1, <1>5 DEF IsIn
    <2> DEFINE m == a + n
    <2>2. /\ n + 1 <= b /\ m \in 1..(a + b) /\ m + 1 \in 1..(a + b)
          /\ ~(m <= a) /\ ~(m + 1 <= a) /\ m - a = n /\ (m + 1) - a = n + 1
          /\ m % 2 = 1
      <3>1. n + 1 \in 1..b /\ m % 2 = 1
        BY <1>0, <2>1
      <3> QED
        BY <1>1, <2>1, <3>1
    <2> HIDE DEF m
    <2>3. u[m] = t[n] /\ u[m + 1] = t[n + 1]
      BY <1>2, <2>2
    <2> QED
      BY <1>2, <2>1, <2>2, <2>3 DEF IsIn
  <1>6. ASSUME NEW x, IsIn(u, x) PROVE IsIn(s, x) \/ IsIn(t, x)
    <2>1. PICK m \in 1..(a + b) : m % 2 = 1 /\ u[m] <= x /\ x < u[m + 1]
      BY <1>2, <1>6 DEF IsIn
    <2>2. m + 1 \in 1..(a + b)
      BY <1>0, <2>1
    <2>3. CASE m <= a
      <3>1. m \in 1..a /\ m + 1 <= a
        <4>1. m \in 1..a
          BY <1>1, <2>1, <2>3
        <4>2. m + 1 \in 1..a
          BY <1>0, <2>1, <4>1
        <4> QED
          BY <1>1, <4>1, <4>2
      <3>2. u[m] = s[m] /\ u[m + 1] = s[m + 1]
        BY <1>2, <2>1, <2>2, <3>1
      <3> QED
        BY <1>1, <2>1, <3>1, <3>2 DEF IsIn
    <2>4. CASE ~(m <= a)
      <3> DEFINE n == m - a
      <3>1. n \in 1..b /\ n % 2 = 1 /\ (m + 1) - a = n + 1 /\ ~(m + 1 <= a)
        <4>1. m > a
          BY <1>1, <2>1, <2>4
        <4>2. n % 2 = 1
          BY <1>0, <2>1, <4>1
        <4> QED
          BY <1>1, <2>1, <4>1, <4>2
      <3>2. u[m] = t[n] /\ u[m + 1] = t[n + 1]
        BY <1>2, <2>1, <2>2, <2>4, <3>1
      <3> QED
        BY <1>1, <2>1, <3>1, <3>2 DEF IsIn
    <2> QED
      BY <2>3, <2>4
  <1> QED
    BY <1>3, <1>4, <1>5, <1>6 DEF u

\* The points of the entries between two, joined in halves.
EntryParts == (1..Last) \X (1..Last)

HalfStep(convs, f, part) ==
  LET lo == part[1]
      hi == part[2]
      mid == (lo + hi) \div 2
  IN  IF lo >= hi THEN EntryPoints(lo, convs)
      ELSE f[<<lo, mid>>] \o f[<<mid + 1, hi>>]

Joining(convs, f) ==
  f = [part \in EntryParts |->
         LET lo == part[1]
             hi == part[2]
             mid == (lo + hi) \div 2
         IN  IF lo >= hi THEN EntryPoints(lo, convs)
             ELSE f[<<lo, mid>>] \o f[<<mid + 1, hi>>]]

LEMMA TwoHalves ==
  ASSUME NEW lo \in 1..Last, NEW hi \in 1..Last, lo < hi, NEW mid, mid = (lo + hi) \div 2
  PROVE  /\ mid \in 1..Last /\ mid + 1 \in 1..Last
         /\ lo <= mid /\ mid < hi
         /\ mid - lo < hi - lo /\ hi - (mid + 1) < hi - lo
  BY EntryType

LEMMA JoiningHolds ==
  ASSUME NEW convs
  PROVE  \E f : Joining(convs, f)
  <1> DEFINE Until(n, f) == /\ f = [part \in EntryParts |-> f[part]]
                            /\ \A part \in EntryParts :
                                 part[2] - part[1] < n => f[part] = HalfStep(convs, f, part)
             D == {n \in Nat : \E f : Until(n, f)}
  <1>0. Last \in Nat /\ \A part \in EntryParts : /\ part[1] \in 1..Last /\ part[2] \in 1..Last
                                             /\ part[1] \in Nat /\ part[2] \in Nat
    BY EntryType DEF EntryParts
  <1>1. 0 \in D
    <2> DEFINE f == [part \in EntryParts |-> EntryPoints(part[1], convs)]
    <2>1. f = [part \in EntryParts |-> f[part]]
      OBVIOUS
    <2>2. ASSUME NEW part \in EntryParts, part[2] - part[1] < 0 PROVE f[part] = HalfStep(convs, f, part)
      <3>1. part[1] >= part[2]
        BY <1>0, <2>2
      <3> QED
        BY <3>1 DEF HalfStep
    <2> HIDE DEF f
    <2> QED
      BY <2>1, <2>2
  <1>2. ASSUME NEW n \in Nat, n \in D PROVE n + 1 \in D
    <2>1. PICK f : Until(n, f)
      BY <1>2
    <2> DEFINE g == [part \in EntryParts |->
                       IF part[2] - part[1] < n THEN f[part] ELSE HalfStep(convs, f, part)]
    <2>2. g = [part \in EntryParts |-> g[part]]
      OBVIOUS
    <2>3. \A part \in EntryParts : part[2] - part[1] < n => g[part] = f[part]
      OBVIOUS
    <2>4. \A part \in EntryParts : g[part] = HalfStep(convs, f, part)
      BY <2>1
    <2> HIDE DEF g
    <2>5. ASSUME NEW part \in EntryParts, part[2] - part[1] < n + 1
          PROVE  g[part] = HalfStep(convs, g, part)
      <3>1. CASE part[1] >= part[2]
        BY <2>4, <3>1 DEF HalfStep
      <3>2. CASE ~(part[1] >= part[2])
        <4> DEFINE lo == part[1]
                   hi == part[2]
                   mid == (lo + hi) \div 2
        <4>1. lo \in 1..Last /\ hi \in 1..Last /\ lo \in Nat /\ hi \in Nat /\ lo < hi /\ hi - lo < n + 1
          BY <1>0, <2>5, <3>2
        <4>2. g[part] = f[<<lo, mid>>] \o f[<<mid + 1, hi>>]
          BY <2>4, <3>2 DEF HalfStep
        <4>3. HalfStep(convs, g, part) = g[<<lo, mid>>] \o g[<<mid + 1, hi>>]
          BY <3>2 DEF HalfStep
        <4> HIDE DEF lo, hi
        <4>4. /\ mid \in 1..Last /\ mid + 1 \in 1..Last
              /\ mid - lo < hi - lo /\ hi - (mid + 1) < hi - lo
          BY <4>1, TwoHalves
        <4> HIDE DEF mid
        <4>5. /\ <<lo, mid>> \in EntryParts /\ <<lo, mid>>[2] - <<lo, mid>>[1] < n
              /\ <<mid + 1, hi>> \in EntryParts /\ <<mid + 1, hi>>[2] - <<mid + 1, hi>>[1] < n
          <5>1. mid - lo < n /\ hi - (mid + 1) < n
            BY <1>0, <4>1, <4>4
          <5> QED
            BY <4>1, <4>4, <5>1 DEF EntryParts
        <4>6. g[<<lo, mid>>] = f[<<lo, mid>>] /\ g[<<mid + 1, hi>>] = f[<<mid + 1, hi>>]
          BY <2>3, <4>5
        <4> QED
          BY <4>2, <4>3, <4>6
      <3> QED
        BY <3>1, <3>2
    <2>6. Until(n + 1, g)
      BY <2>2, <2>5
    <2> QED
      BY <2>6
  <1>3. Last \in D
    <2> HIDE DEF D
    <2> QED
      BY <1>0, <1>1, <1>2, Ascent
  <1>4. PICK f : Until(Last, f)
    BY <1>3
  <1>5. \A part \in EntryParts : f[part] = HalfStep(convs, f, part)
    <2>1. \A part \in EntryParts : part[2] - part[1] < Last
      BY <1>0
    <2> QED
      BY <1>4, <2>1
  <1>6. f = [part \in EntryParts |-> HalfStep(convs, f, part)]
    BY <1>4, <1>5
  <1>7. Joining(convs, f)
    BY <1>6 DEF Joining, HalfStep
  <1> QED
    BY <1>7

LEMMA JoiningGives ==
  ASSUME NEW convs, \A k \in 1..Last : EntryPoints(k, convs) \in Intervalwise,
         NEW f, Joining(convs, f)
  PROVE  \A lo, hi \in 1..Last : lo <= hi =>
           /\ f[<<lo, hi>>] \in Intervalwise
           /\ \A x : IsIn(f[<<lo, hi>>], x) <=> \E k \in lo..hi : IsIn(EntryPoints(k, convs), x)
  <1> DEFINE Given(lo, hi) ==
               /\ f[<<lo, hi>>] \in Intervalwise
               /\ \A x : IsIn(f[<<lo, hi>>], x) <=> \E k \in lo..hi : IsIn(EntryPoints(k, convs), x)
             D == {n \in Nat : \A lo, hi \in 1..Last : lo <= hi /\ hi - lo < n => Given(lo, hi)}
  <1>0. Last \in Nat
    BY EntryType
  <1>1. ASSUME NEW lo \in 1..Last, NEW hi \in 1..Last
        PROVE  f[<<lo, hi>>] = LET mid == (lo + hi) \div 2
                               IN  IF lo >= hi THEN EntryPoints(lo, convs)
                                   ELSE f[<<lo, mid>>] \o f[<<mid + 1, hi>>]
    BY DEF Joining, EntryParts
  <1>2. 0 \in D
    <2>1. \A lo, hi \in 1..Last : ~(lo <= hi /\ hi - lo < 0)
      BY <1>0
    <2> QED
      BY <2>1
  <1>3. ASSUME NEW n \in Nat, n \in D PROVE n + 1 \in D
    <2> SUFFICES ASSUME NEW lo \in 1..Last, NEW hi \in 1..Last, lo <= hi, hi - lo < n + 1
                 PROVE  Given(lo, hi)
      OBVIOUS
    <2>0. lo \in Nat /\ hi \in Nat
      BY <1>0
    <2>1. CASE lo = hi
      <3>1. f[<<lo, hi>>] = EntryPoints(lo, convs)
        BY <1>1, <2>0, <2>1
      <3>2. \A k : k \in lo..hi <=> k = lo
        BY <2>0, <2>1
      <3> QED
        BY <3>1, <3>2
    <2>2. CASE lo # hi
      <3> DEFINE mid == (lo + hi) \div 2
      <3>1. lo < hi /\ ~(lo >= hi)
        BY <2>0, <2>2
      <3>2. f[<<lo, hi>>] = f[<<lo, mid>>] \o f[<<mid + 1, hi>>]
        BY <1>1, <3>1
      <3>3. /\ mid \in 1..Last /\ mid + 1 \in 1..Last /\ lo <= mid /\ mid < hi
            /\ mid - lo < hi - lo /\ hi - (mid + 1) < hi - lo
        BY <3>1, TwoHalves
      <3> HIDE DEF mid
      <3>4. /\ lo <= mid /\ mid - lo < n /\ mid + 1 <= hi /\ hi - (mid + 1) < n
            /\ \A k : k \in lo..hi <=> k \in lo..mid \/ k \in (mid + 1)..hi
        BY <1>0, <2>0, <3>3
      <3>5. Given(lo, mid) /\ Given(mid + 1, hi)
        BY <1>3, <3>3, <3>4
      <3>6. /\ f[<<lo, hi>>] \in Intervalwise
            /\ \A x : IsIn(f[<<lo, hi>>], x) <=> IsIn(f[<<lo, mid>>], x) \/ IsIn(f[<<mid + 1, hi>>], x)
        BY <3>2, <3>5, JoinedIn
      <3> QED
        BY <3>4, <3>5, <3>6, Zenon
    <2> QED
      BY <2>1, <2>2
  <1>4. \A n \in Nat : n \in D
    <2> HIDE DEF D
    <2> QED
      BY <1>2, <1>3, Ascent
  <1> SUFFICES ASSUME NEW lo \in 1..Last, NEW hi \in 1..Last, lo <= hi PROVE Given(lo, hi)
    OBVIOUS
  <1>5. hi \in Nat /\ hi \in D /\ hi - lo < hi
    BY <1>0, <1>4
  <1> QED
    BY <1>5

\* A character is in the set if one of the entries gives it.
LEMMA CaseSetIs ==
  ASSUME NEW convs, \A k \in 1..Last : EntryPoints(k, convs) \in Intervalwise, NEW x
  PROVE  IsIn(unicode_case1(convs), x) <=> \E k \in 1..Last : IsIn(EntryPoints(k, convs), x)
  <1> DEFINE f == CHOOSE g : Joining(convs, g)
  <1>1. unicode_case1(convs) = f[<<1, Last>>]
    BY DEF unicode_case1, Joining, EntryParts, Last
  <1>2. Joining(convs, f)
    BY JoiningHolds
  <1>3. 1 \in 1..Last /\ Last \in 1..Last /\ 1 <= Last
    BY EntryType, ChangesAssumption DEF Last
  <1> HIDE DEF f
  <1> QED
    BY <1>1, <1>2, <1>3, JoiningGives

--------------------------------------------------------------------------------
(***************************************************************************)
(* What an entry changes.                                                  *)
(***************************************************************************)
Types == {"U", "L", "UF", "LF", "UL", "LSU", "U2L_399_EXT2", "UF_D20", "UF_D1_EXT", "U_EXT", "LF_EXT",
          "UF_EXT2", "LF_EXT2", "UF_EXT3"}

LEMMA EntryFacts ==
  ASSUME NEW k \in 1..Last
  PROVE  /\ Entry(k).code \in Nat /\ Entry(k).len \in Nat /\ Entry(k).type \in Types
         /\ Entry(k).type = "UL" => Entry(k).len % 2 = 0
         /\ Entry(k).type = "LSU" => Entry(k).len = 3
         /\ Entry(k).type \in {"U", "L", "UF", "LF"} =>
              /\ case_conv_table[Entry(k).data + 1][1] \in Nat
              /\ case_conv_table[Entry(k).data + 1][1] # Entry(k).code
         /\ Entry(k).type = "U2L_399_EXT2" =>
              Ext(Low(Entry(k).data)) \in Nat /\ Ext(Low(Entry(k).data)) # Entry(k).code
         /\ \A x \in Nat : InEntry(x, k) =>
              /\ Entry(k).type = "UF_D20" => Entry(k).data # x /\ Entry(k).data + 32 # x
              /\ Entry(k).type = "UF_D1_EXT" => Ext(Entry(k).data) # x /\ Ext(Entry(k).data) + 1 # x
              /\ Entry(k).type \in {"U_EXT", "LF_EXT"} => Ext(Entry(k).data) # x
  <1> DEFINE e == Entry(k)
             run == e.code..(e.code + e.len - 1)
  <1>1. e.code \in Nat /\ e.len \in Nat /\ k \in DOMAIN case_conv_table
    BY EntryType
  <1>2. /\ e.type \in tab_run_mask["upper"] \cup tab_run_mask["lower"]
        /\ e.type = "UL" => e.len % 2 = 0
        /\ e.type = "LSU" => e.len = 3
        /\ e.type \in {"U", "L", "UF", "LF"} =>
             e.data + 1 \in DOMAIN case_conv_table /\ Entry(e.data + 1).code # e.code
        /\ e.type = "U2L_399_EXT2" => Ext(Low(e.data)) \in Nat \ {e.code}
        /\ e.type = "UF_D20" => e.data \notin run /\ e.data + 32 \notin run
        /\ e.type = "UF_D1_EXT" => Ext(e.data) \notin run /\ Ext(e.data) + 1 \notin run
        /\ e.type \in {"U_EXT", "LF_EXT"} => Ext(e.data) \notin run
    BY <1>1, ChangesAssumption
  <1>3. e.type \in Types
    BY <1>2 DEF tab_run_mask, Types
  <1>4. \A x \in Nat : InEntry(x, k) => x \in run
    BY <1>1 DEF InEntry
  <1>5. \A m \in DOMAIN case_conv_table : Entry(m).code = case_conv_table[m][1] /\ Entry(m).code \in Nat
    BY EntryType DEF Entry
  <1> HIDE DEF e, run
  <1>6. e.type \in {"U", "L", "UF", "LF"} =>
          case_conv_table[e.data + 1][1] \in Nat /\ case_conv_table[e.data + 1][1] # e.code
    <2> SUFFICES ASSUME e.type \in {"U", "L", "UF", "LF"}
                 PROVE  case_conv_table[e.data + 1][1] \in Nat /\ case_conv_table[e.data + 1][1] # e.code
      OBVIOUS
    <2>1. e.data + 1 \in DOMAIN case_conv_table /\ Entry(e.data + 1).code # e.code
      BY <1>2
    <2> QED
      BY <1>5, <2>1
  <1>7. \A x \in Nat : InEntry(x, k) =>
          /\ e.type = "UF_D20" => e.data # x /\ e.data + 32 # x
          /\ e.type = "UF_D1_EXT" => Ext(e.data) # x /\ Ext(e.data) + 1 # x
          /\ e.type \in {"U_EXT", "LF_EXT"} => Ext(e.data) # x
    BY <1>2, <1>4, Zenon
  <1>8. e.type = "U2L_399_EXT2" => Ext(Low(e.data)) \in Nat /\ Ext(Low(e.data)) # e.code
    BY <1>2
  <1> QED
    BY <1>1, <1>2, <1>3, <1>6, <1>7, <1>8 DEF e

LEMMA MaskIs ==
  ASSUME NEW type \in Types, NEW conv \in Conversions
  PROVE  type \in tab_run_mask[conv] <=> conv \in ConvertedBy(type)
  <1>1. CASE conv = "upper"
    BY <1>1 DEF Types, tab_run_mask, ConvertedBy, Conversions
  <1>2. CASE conv = "lower"
    BY <1>2 DEF Types, tab_run_mask, ConvertedBy, Conversions
  <1>3. CASE conv = "fold"
    BY <1>3 DEF Types, tab_run_mask, ConvertedBy, Conversions
  <1> QED
    BY <1>1, <1>2, <1>3 DEF Conversions

Changes(x, conv, k) == lre_case_conv_entry(x, conv, k) # <<x>>

\* Folding one character to several does not make it the character itself.
LEMMA FoldedLength ==
  ASSUME NEW x, NEW conv, NEW k
  PROVE  /\ ~(conv = "fold" /\ Entry(k).type \in {"UF_EXT2", "UF_EXT3"}) =>
              lre_case_conv_entry(x, conv, k) = Converted(x, conv, k)
         /\ Entry(k).type \in {"UF_EXT2", "UF_EXT3"} =>
              DOMAIN lre_case_conv_entry(x, conv, k) = DOMAIN Converted(x, conv, k)
  BY DEF lre_case_conv_entry

LEMMA Untouched ==
  ASSUME NEW k \in 1..Last, NEW conv \in Conversions, conv \notin ConvertedBy(Entry(k).type), NEW x
  PROVE  ~Changes(x, conv, k)
  <1>1. Converted(x, conv, k) = <<x>>
    BY DEF Converted
  <1>2. Entry(k).type \in {"UF_EXT2", "UF_EXT3"} => conv # "fold"
    BY DEF ConvertedBy
  <1> QED
    BY <1>1, <1>2, FoldedLength DEF Changes

LEMMA WholeRun ==
  ASSUME NEW k \in 1..Last, NEW conv \in Conversions, conv \in ConvertedBy(Entry(k).type),
         Entry(k).type \notin {"UL", "LSU"}, NEW x \in Nat, InEntry(x, k)
  PROVE  Changes(x, conv, k)
  <1> DEFINE e == Entry(k)
             a == x - e.code
             res == Converted(x, conv, k)
  <1>1. /\ e.code \in Nat /\ a \in Nat /\ x = a + e.code /\ e.type \in Types
    BY EntryFacts DEF InEntry
  <1>2. \A y : Len(<<y>>) = 1 /\ <<y>>[1] = y
    OBVIOUS
  <1>3. CASE e.type \in {"U", "L", "UF", "LF"}
    <2>1. res = <<a + case_conv_table[e.data + 1][1]>>
      BY <1>3 DEF Converted
    <2>2. /\ case_conv_table[e.data + 1][1] \in Nat /\ case_conv_table[e.data + 1][1] # e.code
      BY <1>3, EntryFacts
    <2>3. a + case_conv_table[e.data + 1][1] # x
      <3> HIDE DEF e, a
      <3> QED
        BY <1>1, <2>2
    <2> QED
      BY <1>3, <2>1, <2>3, FoldedLength DEF Changes
  <1>4. CASE e.type = "U2L_399_EXT2"
    <2>1. CASE conv # "upper"
      <3>1. res = <<a + Ext(Low(e.data))>>
        BY <1>4, <2>1 DEF Converted
      <3>2. Ext(Low(e.data)) \in Nat /\ Ext(Low(e.data)) # e.code
        BY <1>4, EntryFacts
      <3>3. a + Ext(Low(e.data)) # x
        <4> HIDE DEF e, a
        <4> QED
          BY <1>1, <3>2
      <3> QED
        BY <1>4, <3>1, <3>3, FoldedLength DEF Changes
    <2>2. CASE conv = "upper"
      <3>1. res = <<a + Ext(High(e.data)), 921>>
        BY <1>4, <2>2 DEF Converted
      <3>2. Len(res) = 2
        BY <3>1
      <3>3. res # <<x>>
        BY <3>2
      <3> QED
        BY <1>4, <3>3, FoldedLength DEF Changes
    <2> QED
      BY <2>1, <2>2
  <1>5. CASE e.type = "UF_D20"
    <2>1. res = <<IF conv = "fold" THEN e.data + 32 ELSE e.data>>
      BY <1>5 DEF Converted
    <2>2. e.data # x /\ e.data + 32 # x
      BY <1>5, EntryFacts
    <2> QED
      BY <1>5, <2>1, <2>2, FoldedLength DEF Changes
  <1>6. CASE e.type = "UF_D1_EXT"
    <2>1. res = <<IF conv = "fold" THEN Ext(e.data) + 1 ELSE Ext(e.data)>>
      BY <1>6 DEF Converted
    <2>2. Ext(e.data) # x /\ Ext(e.data) + 1 # x
      BY <1>6, EntryFacts
    <2> QED
      BY <1>6, <2>1, <2>2, FoldedLength DEF Changes
  <1>7. CASE e.type \in {"U_EXT", "LF_EXT"}
    <2>1. res = <<Ext(e.data)>>
      BY <1>7 DEF Converted
    <2>2. Ext(e.data) # x
      BY <1>7, EntryFacts
    <2> QED
      BY <1>7, <2>1, <2>2, FoldedLength DEF Changes
  <1>8. CASE e.type \in {"LF_EXT2", "UF_EXT2", "UF_EXT3"}
    <2>1. DOMAIN res = 1..2 \/ DOMAIN res = 1..3
      <3>1. CASE e.type \in {"LF_EXT2", "UF_EXT2"}
        <4>1. res = <<a + Ext(High(e.data)), Ext(Low(e.data))>>
          BY <3>1 DEF Converted
        <4> QED
          BY <4>1
      <3>2. CASE e.type = "UF_EXT3"
        <4>1. res = <<Ext(e.data \div 256), Ext((e.data \div 16) % 16), Ext(e.data % 16)>>
          BY <3>2 DEF Converted
        <4> QED
          BY <4>1
      <3> QED
        BY <1>8, <3>1, <3>2
    <2>2. DOMAIN lre_case_conv_entry(x, conv, k) = DOMAIN res
      BY <1>8, FoldedLength
    <2>3. DOMAIN <<x>> = 1..1 /\ 2 \notin DOMAIN <<x>>
      OBVIOUS
    <2>4. 2 \in DOMAIN lre_case_conv_entry(x, conv, k)
      BY <2>1, <2>2
    <2> QED
      BY <2>3, <2>4 DEF Changes
  <1> QED
    BY <1>1, <1>3, <1>4, <1>5, <1>6, <1>7, <1>8 DEF Types

LEMMA Alternating ==
  ASSUME NEW k \in 1..Last, NEW conv \in Conversions, Entry(k).type = "UL", NEW x \in Nat, InEntry(x, k)
  PROVE  Changes(x, conv, k) <=> (x - Entry(k).code) % 2 = (IF conv = "upper" THEN 1 ELSE 0)
  <1> DEFINE a == x - Entry(k).code
  <1>1. a \in Nat
    BY EntryFacts DEF InEntry
  <1>2. conv \in ConvertedBy("UL")
    BY DEF ConvertedBy
  <1>3. lre_case_conv_entry(x, conv, k) =
          IF (conv # "upper") <=> (a % 2 = 0)
            THEN <<IF conv # "upper" THEN x + 1 ELSE x - 1>> ELSE <<x>>
    <2>1. lre_case_conv_entry(x, conv, k) = Converted(x, conv, k)
      BY FoldedLength
    <2> QED
      BY <1>2, <2>1 DEF Converted
  <1>4. a % 2 = 0 \/ a % 2 = 1
    BY <1>1
  <1>5. \A y : <<y>> = <<x>> => y = x
    OBVIOUS
  <1>6. x + 1 # x /\ x - 1 # x
    OBVIOUS
  <1> HIDE DEF a
  <1>7. Changes(x, conv, k) <=> ((conv # "upper") <=> (a % 2 = 0))
    BY <1>3, <1>5, <1>6 DEF Changes
  <1> QED
    BY <1>4, <1>7 DEF a

LEMMA Triple ==
  ASSUME NEW k \in 1..Last, NEW conv \in Conversions, Entry(k).type = "LSU", NEW x \in Nat, InEntry(x, k)
  PROVE  /\ x - Entry(k).code \in 0..2
         /\ Changes(x, conv, k) <=> x - Entry(k).code # (IF conv = "upper" THEN 0 ELSE 2)
  <1> DEFINE a == x - Entry(k).code
  <1>1. a \in 0..2
    BY EntryFacts DEF InEntry
  <1>2. conv \in ConvertedBy("LSU")
    BY DEF ConvertedBy
  <1>3. lre_case_conv_entry(x, conv, k) =
          IF a = 1 THEN <<IF conv # "upper" THEN x + 1 ELSE x - 1>>
          ELSE IF conv # "upper" /\ a = 0 THEN <<x + 2>>
          ELSE IF conv = "upper" /\ a = 2 THEN <<x - 2>> ELSE <<x>>
    <2>1. lre_case_conv_entry(x, conv, k) = Converted(x, conv, k)
      BY FoldedLength
    <2> QED
      BY <1>2, <2>1 DEF Converted
  <1>4. \A y : <<y>> = <<x>> => y = x
    OBVIOUS
  <1>5. x + 1 # x /\ x - 1 # x /\ x + 2 # x /\ x - 2 # x
    OBVIOUS
  <1> HIDE DEF a
  <1>6. Changes(x, conv, k) <=> a = 1 \/ (conv # "upper" /\ a = 0) \/ (conv = "upper" /\ a = 2)
    BY <1>3, <1>4, <1>5 DEF Changes
  <1>7. Changes(x, conv, k) <=> a # (IF conv = "upper" THEN 0 ELSE 2)
    BY <1>1, <1>6
  <1> QED
    BY <1>1, <1>7 DEF a

\* Every second character, as intervals of one.
LEMMA EverySecond ==
  ASSUME NEW base \in Nat, NEW half \in Nat,
         NEW s, s = [m \in 1..(2 * half) |-> base + (m - 1)]
  PROVE  /\ s \in Intervalwise
         /\ \A x \in Nat : IsIn(s, x) <=> base <= x /\ x < base + 2 * half /\ (x - base) % 2 = 0
  <1>1. s \in Intervalwise
    <2>1. s \in [1..(2 * half) -> Nat] /\ 2 * half \in Nat
      OBVIOUS
    <2>2. s \in Seq(Nat) /\ Len(s) = 2 * half
      BY <2>1
    <2> QED
      BY <2>2 DEF Intervalwise
  <1>2. DOMAIN s = 1..(2 * half) /\ \A m \in 1..(2 * half) : s[m] = base + (m - 1)
    OBVIOUS
  <1>3. ASSUME NEW x \in Nat, IsIn(s, x) PROVE base <= x /\ x < base + 2 * half /\ (x - base) % 2 = 0
    <2>1. PICK n \in 1..(2 * half) : n % 2 = 1 /\ s[n] <= x /\ x < s[n + 1]
      BY <1>2, <1>3 DEF IsIn
    <2>2. n + 1 \in 1..(2 * half)
      BY <2>1
    <2>3. s[n] = base + (n - 1) /\ s[n + 1] = base + n
      BY <1>2, <2>2
    <2>4. x = base + (n - 1)
      BY <2>1, <2>3
    <2>5. n \in Nat /\ n >= 1 /\ n <= 2 * half /\ (n - 1) % 2 = 0 /\ x - base = n - 1
      BY <2>1, <2>4
    <2>6. base <= x /\ x < base + 2 * half
      BY <2>4, <2>5
    <2> QED
      BY <2>5, <2>6
  <1>4. ASSUME NEW x \in Nat, base <= x, x < base + 2 * half, (x - base) % 2 = 0 PROVE IsIn(s, x)
    <2> DEFINE n == x - base + 1
    <2>1. n \in 1..(2 * half) /\ n + 1 \in 1..(2 * half) /\ n % 2 = 1 /\ base + (n - 1) = x
      BY <1>4
    <2>2. s[n] = base + (n - 1) /\ s[n + 1] = base + ((n + 1) - 1)
      BY <1>2, <2>1
    <2>3. s[n] <= x /\ x < s[n + 1]
      BY <2>1, <2>2
    <2> QED
      BY <1>2, <2>1, <2>3 DEF IsIn
  <1> QED
    BY <1>1, <1>3, <1>4

\* The points of an entry are those of the characters that it changes.
LEMMA PointsOfEntry ==
  ASSUME NEW k \in 1..Last, NEW convs \in SUBSET Conversions
  PROVE  /\ EntryPoints(k, convs) \in Intervalwise
         /\ \A x \in Nat : IsIn(EntryPoints(k, convs), x) <=>
                             InEntry(x, k) /\ \E conv \in convs : Changes(x, conv, k)
  <1> DEFINE e == Entry(k)
             s == EntryPoints(k, convs)
             both == "upper" \in convs /\ convs # {"upper"}
             Given == /\ s \in Intervalwise
                      /\ \A x \in Nat : IsIn(s, x) <=> InEntry(x, k) /\ \E conv \in convs : Changes(x, conv, k)
  <1>1. /\ e.code \in Nat /\ e.len \in Nat /\ e.type \in Types
        /\ \A x : InEntry(x, k) <=> e.code <= x /\ x < e.code + e.len
    BY EntryFacts DEF InEntry
  <1>2. CASE \A conv \in convs : e.type \notin tab_run_mask[conv]
    <2>1. s = <<>>
      BY <1>2 DEF EntryPoints
    <2>2. \A x, conv : conv \in convs => ~Changes(x, conv, k)
      BY <1>1, <1>2, MaskIs, Untouched
    <2> QED
      BY <2>1, <2>2, NothingIn
  <1>3. ASSUME ~\A conv \in convs : e.type \notin tab_run_mask[conv]
        PROVE  s = IF e.type = "UL" /\ ~both
                     THEN [m \in 1..(2 * ((e.len + 1) \div 2)) |->
                             (IF "upper" \in convs THEN e.code + 1 ELSE e.code) + (m - 1)]
                   ELSE IF e.type = "LSU" /\ ~both
                     THEN IF "upper" \in convs THEN <<e.code + 1, e.code + 2, e.code + 2, e.code + 3>>
                          ELSE <<e.code, e.code + 1, e.code + 1, e.code + 2>>
                   ELSE <<e.code, e.code + e.len>>
    BY <1>3 DEF EntryPoints
  <1>4. /\ "upper" \in convs /\ ~both => \A conv : conv \in convs <=> conv = "upper"
        /\ "upper" \notin convs => \A conv \in convs : conv # "upper"
        /\ both => "upper" \in convs /\ \E conv \in convs : conv # "upper"
    OBVIOUS
  <1>5. CASE (~\A conv \in convs : e.type \notin tab_run_mask[conv]) /\ e.type \notin {"UL", "LSU"}
    <2>1. s = <<e.code, e.code + e.len>>
      BY <1>3, <1>5
    <2>2. s \in Intervalwise /\ \A x : IsIn(s, x) <=> e.code <= x /\ x < e.code + e.len
      BY <1>1, <2>1, PairIn
    <2>3. PICK conv \in convs : conv \in Conversions /\ conv \in ConvertedBy(e.type)
      BY <1>1, <1>5, MaskIs
    <2>4. \A x \in Nat : InEntry(x, k) => Changes(x, conv, k)
      BY <1>5, <2>3, WholeRun
    <2> QED
      BY <1>1, <2>2, <2>3, <2>4
  <1>6. CASE (~\A conv \in convs : e.type \notin tab_run_mask[conv]) /\ e.type = "UL"
    <2>1. PICK half \in Nat : e.len = 2 * half /\ (e.len + 1) \div 2 = half
      <3>1. e.len % 2 = 0
        BY <1>6, EntryFacts
      <3>2. e.len = 2 * (e.len \div 2) /\ (e.len + 1) \div 2 = e.len \div 2 /\ e.len \div 2 \in Nat
        <4> HIDE DEF e
        <4> QED
          BY <1>1, <3>1
      <3> QED
        BY <3>2
    <2>2. \A x \in Nat, conv \in convs : InEntry(x, k) =>
            (Changes(x, conv, k) <=> (x - e.code) % 2 = (IF conv = "upper" THEN 1 ELSE 0))
      BY <1>6, Alternating
    <2> HIDE DEF e
    <2>3. CASE both
      <3>1. s = <<e.code, e.code + e.len>>
        BY <1>3, <1>6, <2>3
      <3>2. s \in Intervalwise /\ \A x : IsIn(s, x) <=> e.code <= x /\ x < e.code + e.len
        BY <1>1, <3>1, PairIn
      <3>3. PICK conv \in convs : conv # "upper"
        BY <1>4, <2>3
      <3>4. \A x \in Nat : InEntry(x, k) => (x - e.code) % 2 = 0 \/ (x - e.code) % 2 = 1
        BY <1>1
      <3>5. \A x \in Nat : InEntry(x, k) => Changes(x, "upper", k) \/ Changes(x, conv, k)
        BY <1>4, <2>2, <2>3, <3>3, <3>4
      <3> QED
        BY <1>1, <2>3, <3>2, <3>5
    <2>4. CASE ~both /\ "upper" \in convs
      <3>1. s = [m \in 1..(2 * half) |-> (e.code + 1) + (m - 1)]
        BY <1>3, <1>6, <2>1, <2>4
      <3>2. /\ s \in Intervalwise
            /\ \A x \in Nat : IsIn(s, x) <=> /\ e.code + 1 <= x /\ x < (e.code + 1) + 2 * half
                                             /\ (x - (e.code + 1)) % 2 = 0
        <4>1. e.code + 1 \in Nat
          BY <1>1
        <4> HIDE DEF s
        <4> QED
          BY <2>1, <3>1, <4>1, EverySecond
      <3>3. \A x \in Nat : /\ e.code + 1 <= x /\ x < (e.code + 1) + 2 * half
                           /\ (x - (e.code + 1)) % 2 = 0
                       <=> e.code <= x /\ x < e.code + e.len /\ (x - e.code) % 2 = 1
        BY <1>1, <2>1
      <3>4. \A x \in Nat : (\E conv \in convs : Changes(x, conv, k)) <=> Changes(x, "upper", k)
        BY <1>4, <2>4
      <3> QED
        BY <1>1, <2>2, <2>4, <3>2, <3>3, <3>4
    <2>5. CASE ~both /\ "upper" \notin convs
      <3>1. s = [m \in 1..(2 * half) |-> e.code + (m - 1)]
        BY <1>3, <1>6, <2>1, <2>5
      <3>2. /\ s \in Intervalwise
            /\ \A x \in Nat : IsIn(s, x) <=> /\ e.code <= x /\ x < e.code + 2 * half
                                             /\ (x - e.code) % 2 = 0
        <4> HIDE DEF s
        <4> QED
          BY <1>1, <2>1, <3>1, EverySecond
      <3>3. PICK conv \in convs : TRUE
        BY <1>6
      <3>4. \A x \in Nat : InEntry(x, k) =>
              ((\E other \in convs : Changes(x, other, k)) <=> (x - e.code) % 2 = 0)
        BY <1>4, <2>2, <2>5, <3>3
      <3> QED
        BY <1>1, <2>1, <3>2, <3>4
    <2> QED
      BY <2>3, <2>4, <2>5
  <1>7. CASE (~\A conv \in convs : e.type \notin tab_run_mask[conv]) /\ e.type = "LSU"
    <2>1. e.len = 3
      BY <1>7, EntryFacts
    <2>2. \A x \in Nat, conv \in convs : InEntry(x, k) =>
            /\ x - e.code \in 0..2
            /\ Changes(x, conv, k) <=> x - e.code # (IF conv = "upper" THEN 0 ELSE 2)
      BY <1>7, Triple
    <2> HIDE DEF e
    <2>3. CASE both
      <3>1. s = <<e.code, e.code + e.len>>
        BY <1>3, <1>7, <2>3
      <3>2. s \in Intervalwise /\ \A x : IsIn(s, x) <=> e.code <= x /\ x < e.code + e.len
        BY <1>1, <3>1, PairIn
      <3>3. PICK conv \in convs : conv # "upper"
        BY <1>4, <2>3
      <3>4. \A x \in Nat : InEntry(x, k) => Changes(x, "upper", k) \/ Changes(x, conv, k)
        BY <1>4, <2>2, <2>3, <3>3
      <3> QED
        BY <1>1, <2>3, <3>2, <3>4
    <2>4. CASE ~both /\ "upper" \in convs
      <3>1. s = <<e.code + 1, e.code + 2, e.code + 2, e.code + 3>>
        BY <1>3, <1>7, <2>4
      <3>2. /\ s \in Intervalwise
            /\ \A x : IsIn(s, x) <=> \/ e.code + 1 <= x /\ x < e.code + 2
                                     \/ e.code + 2 <= x /\ x < e.code + 3
        <4>1. e.code + 1 \in Nat /\ e.code + 2 \in Nat /\ e.code + 3 \in Nat
          BY <1>1
        <4> QED
          BY <3>1, <4>1, PairsIn
      <3>3. \A x \in Nat : \/ e.code + 1 <= x /\ x < e.code + 2
                           \/ e.code + 2 <= x /\ x < e.code + 3
                       <=> e.code <= x /\ x < e.code + e.len /\ x - e.code # 0
        BY <1>1, <2>1
      <3>4. \A x \in Nat : (\E conv \in convs : Changes(x, conv, k)) <=> Changes(x, "upper", k)
        BY <1>4, <2>4
      <3> QED
        BY <1>1, <2>2, <2>4, <3>2, <3>3, <3>4
    <2>5. CASE ~both /\ "upper" \notin convs
      <3>1. s = <<e.code, e.code + 1, e.code + 1, e.code + 2>>
        BY <1>3, <1>7, <2>5
      <3>2. /\ s \in Intervalwise
            /\ \A x : IsIn(s, x) <=> \/ e.code <= x /\ x < e.code + 1
                                     \/ e.code + 1 <= x /\ x < e.code + 2
        <4>1. e.code + 1 \in Nat /\ e.code + 2 \in Nat
          BY <1>1
        <4> QED
          BY <1>1, <3>1, <4>1, PairsIn
      <3>3. \A x \in Nat : \/ e.code <= x /\ x < e.code + 1
                           \/ e.code + 1 <= x /\ x < e.code + 2
                       <=> e.code <= x /\ x < e.code + e.len /\ x - e.code # 2
        BY <1>1, <2>1
      <3>4. PICK conv \in convs : TRUE
        BY <1>7
      <3>5. \A x \in Nat : InEntry(x, k) =>
              ((\E other \in convs : Changes(x, other, k)) <=> x - e.code # 2)
        BY <1>4, <2>2, <2>5, <3>4
      <3> QED
        BY <1>1, <3>2, <3>3, <3>5
    <2> QED
      BY <2>3, <2>4, <2>5
  <1> HIDE DEF Given
  <1>8. Given
    BY <1>2, <1>5, <1>6, <1>7 DEF Given
  <1> QED
    BY <1>8 DEF Given

\* The first two entries are the ASCII letters.
LEMMA AsciiEntries ==
  ASSUME NEW x \in 0..127, NEW conv \in Conversions
  PROVE  /\ SmallLetter(x) => InEntry(x, 2)
         /\ CapitalLetter(x) => InEntry(x, 1)
         /\ \A k \in 1..Last : InEntry(x, k) => (k = 1 /\ CapitalLetter(x)) \/ (k = 2 /\ SmallLetter(x))
         /\ CapitalLetter(x) => (Changes(x, conv, 1) <=> conv # "upper")
         /\ SmallLetter(x) => (Changes(x, conv, 2) <=> conv = "upper")
  <1>1. /\ Last > 2 /\ Last \in Nat /\ Entry(3).code >= 128
        /\ Entry(1).code = 65 /\ Entry(1).len = 26 /\ Entry(1).type = "LF"
        /\ Entry(2).code = 97 /\ Entry(2).len = 26 /\ Entry(2).type = "U"
    BY EntryType, ChangesAssumption DEF Last
  <1>2. /\ SmallLetter(x) <=> InEntry(x, 2)
        /\ CapitalLetter(x) <=> InEntry(x, 1)
    BY <1>1 DEF SmallLetter, CapitalLetter, InEntry
  <1>3. ASSUME NEW k \in 1..Last, InEntry(x, k) PROVE k = 1 \/ k = 2
    <2> SUFFICES ASSUME k # 1, k # 2 PROVE FALSE
      OBVIOUS
    <2>1. k = 3 \/ 3 < k
      BY <1>1
    <2>2. 3 \in 1..Last /\ Entry(3).code \in Nat /\ Entry(3).len \in Nat /\ Entry(k).code \in Nat
      BY <1>1, EntryType
    <2>3. 3 < k => Entry(3).code + Entry(3).len <= Entry(k).code
      BY <1>1, <2>2, EntriesApart
    <2>4. Entry(k).code <= x
      BY <1>3 DEF InEntry
    <2> QED
      BY <1>1, <2>1, <2>2, <2>3, <2>4
  <1>4. 1 \in 1..Last /\ 2 \in 1..Last /\ x \in Nat
    BY <1>1
  <1>5. /\ ConvertedBy("LF") = {"lower", "fold"} /\ ConvertedBy("U") = {"upper"}
        /\ Conversions = {"upper", "lower", "fold"}
    BY DEF ConvertedBy, Conversions
  <1>6. ASSUME CapitalLetter(x) PROVE Changes(x, conv, 1) <=> conv # "upper"
    <2>1. conv # "upper" => conv \in ConvertedBy(Entry(1).type)
      BY <1>1, <1>5
    <2>2. conv = "upper" => conv \notin ConvertedBy(Entry(1).type)
      BY <1>1, <1>5
    <2> QED
      BY <1>1, <1>2, <1>4, <1>6, <2>1, <2>2, WholeRun, Untouched
  <1>7. ASSUME SmallLetter(x) PROVE Changes(x, conv, 2) <=> conv = "upper"
    <2>1. conv = "upper" => conv \in ConvertedBy(Entry(2).type)
      BY <1>1, <1>5
    <2>2. conv # "upper" => conv \notin ConvertedBy(Entry(2).type)
      BY <1>1, <1>5
    <2> QED
      BY <1>1, <1>2, <1>4, <1>7, <2>1, <2>2, WholeRun, Untouched
  <1> QED
    BY <1>2, <1>3, <1>6, <1>7

\* A conversion changes a character by the entry that it is in, if it is in one.
LEMMA ConversionByEntry ==
  ASSUME NEW x \in Nat, NEW conv \in Conversions
  PROVE  lre_case_conv(x, conv) # <<x>> <=> \E k \in 1..Last : InEntry(x, k) /\ Changes(x, conv, k)
  <1>1. CASE x < 128
    <2>0. x \in 0..127 /\ Ascii(x)
      BY <1>1 DEF Ascii
    <2>1. lre_case_conv(x, conv) = <<IF conv = "upper" THEN (IF SmallLetter(x) THEN x - 32 ELSE x)
                                     ELSE IF CapitalLetter(x) THEN x + 32 ELSE x>>
      BY <2>0 DEF lre_case_conv
    <2>2. \A y : <<y>> = <<x>> => y = x
      OBVIOUS
    <2>3. x - 32 # x /\ x + 32 # x
      OBVIOUS
    <2>4. lre_case_conv(x, conv) # <<x>> <=> IF conv = "upper" THEN SmallLetter(x) ELSE CapitalLetter(x)
      BY <2>1, <2>2, <2>3
    <2>5. ~(SmallLetter(x) /\ CapitalLetter(x))
      BY DEF SmallLetter, CapitalLetter
    <2>6. 1 \in 1..Last /\ 2 \in 1..Last
      BY EntryType, ChangesAssumption DEF Last
    <2> QED
      BY <2>0, <2>4, <2>5, <2>6, AsciiEntries
  <1>2. CASE ~(x < 128)
    <2>0. x \in Int /\ ~Ascii(x)
      BY <1>2 DEF Ascii
    <2>1. CASE EntryOf(x) = {}
      <3>1. \A k \in 1..Last : ~InEntry(x, k)
        BY <2>0, <2>1, EntryOfIs
      <3>2. lre_case_conv(x, conv) = <<x>>
        BY <2>0, <2>1 DEF lre_case_conv
      <3> QED
        BY <3>1, <3>2
    <2>2. CASE EntryOf(x) # {}
      <3>1. PICK k \in 1..Last : InEntry(x, k)
        BY <2>0, <2>2, EntryOfIs
      <3>2. EntryOf(x) = {k} /\ \A m \in 1..Last : InEntry(x, m) => m = k
        BY <2>0, <3>1, EntryOfIs
      <3>3. (CHOOSE m \in EntryOf(x) : TRUE) = k
        BY <3>2
      <3>4. lre_case_conv(x, conv) = lre_case_conv_entry(x, conv, k)
        BY <2>0, <2>2, <3>3 DEF lre_case_conv
      <3> QED
        BY <3>1, <3>2, <3>4 DEF Changes
    <2> QED
      BY <2>1, <2>2
  <1> QED
    BY <1>1, <1>2

LEMMA CaseSetFacts ==
  ASSUME NEW convs \in SUBSET Conversions, NEW x \in Nat
  PROVE  IsIn(CaseSet[convs], x) <=> \E conv \in convs : lre_case_conv(x, conv) # <<x>>
  <1>1. CaseSet[convs] = unicode_case1(convs)
    BY DEF CaseSet
  <1>2. \A k \in 1..Last : /\ EntryPoints(k, convs) \in Intervalwise
                           /\ IsIn(EntryPoints(k, convs), x) <=>
                                InEntry(x, k) /\ \E conv \in convs : Changes(x, conv, k)
    BY PointsOfEntry
  <1>3. IsIn(unicode_case1(convs), x) <=> \E k \in 1..Last : IsIn(EntryPoints(k, convs), x)
    BY <1>2, CaseSetIs
  <1>4. \A conv \in convs : lre_case_conv(x, conv) # <<x>> <=>
          \E k \in 1..Last : InEntry(x, k) /\ Changes(x, conv, k)
    BY ConversionByEntry
  <1> QED
    BY <1>1, <1>2, <1>3, <1>4, Zenon

\* The set that is put together from the types of the runs holds exactly the
\* characters that one of the conversions changes, for every character and every set
\* of conversions.  (unicode_case1)
THEOREM CaseSetIsExact == QuestionSpec => []CaseSetExact
  <1>1. QuestionInit => LookupInv /\ CaseSetExact
    BY LookupInit DEF QuestionInit, CaseSetExact
  <1>2. LookupInv /\ [QuestionStep]_propVars => LookupInv'
    BY LookupNext
  <1>3. LookupInv /\ CaseSetExact /\ [QuestionStep]_propVars => CaseSetExact'
    <2> SUFFICES ASSUME LookupInv, CaseSetExact, [QuestionStep]_propVars,
                        (qpc = "answered" /\ query[1] = "is_changed")'
                 PROVE  (answer <=> \E conv \in query[3] : lre_case_conv(char, conv) # <<char>>)'
      BY DEF CaseSetExact
    <2>0. /\ query' = query /\ query \in Questions \X Nat \X SUBSET Conversions
          /\ char' = char /\ char = query[2]
      BY DEF LookupInv, QuestionStep, CasedByTable, AskCase, Ask, Halve, Found, LongRun, PackedRuns,
             propVars, char
    <2>1. CASE AskCase
      <3>1. answer' = IsIn(CaseSet[query[3]], char)
        BY <2>1 DEF AskCase, Answer
      <3>2. char \in Nat /\ query[3] \in SUBSET Conversions
        BY <2>0
      <3>3. answer' <=> \E conv \in query[3] : lre_case_conv(char, conv) # <<char>>
        BY <3>1, <3>2, CaseSetFacts
      <3> QED
        BY <2>0, <3>3
    <2>2. CASE CasedByTable
      BY <2>0, <2>2 DEF CasedByTable
    <2>3. CASE Ask \/ Halve \/ Found \/ LongRun \/ PackedRuns
      <3>1. query[1] # "is_changed"
        <4>1. Left(query, tables) /\ Asked(query, tables)
          BY <2>3 DEF LookupInv, Ask, Halve, Found, LongRun, PackedRuns, Asked, char
        <4> QED
          BY <2>0, <4>1, FirstTable
      <3> QED
        BY <2>0, <3>1
    <2>4. CASE UNCHANGED propVars
      <3>1. answer' = answer /\ qpc' = qpc
        BY <2>4 DEF propVars
      <3> QED
        BY <2>0, <3>1 DEF CaseSetExact
    <2> QED
      BY <2>1, <2>2, <2>3, <2>4 DEF QuestionStep
  <1> QED
    BY <1>1, <1>2, <1>3, PTL DEF QuestionSpec
================================================================================
