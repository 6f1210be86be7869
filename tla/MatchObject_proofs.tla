--------------------------- MODULE MatchObject_proofs ---------------------------
(***************************************************************************)
(* The names of the groups and the tables of a match, for every pattern    *)
(* and match, in three parts.                                              *)
(*                                                                         *)
(* The walk over the names stays inside them.  It does not follow the      *)
(* records: it takes strings one after the other, also those made of a     *)
(* scope and the name behind it.  What saves it is a count.  Every group   *)
(* has left a zero in the buffer, at zero[k] for the group k, and before   *)
(* group k is pushed the walk has not passed zero[k]; so the string it     *)
(* takes ends there or before, and the next one begins before zero[k + 1]. *)
(*                                                                         *)
(* The parser's own loop follows the records.  That a name is found as the *)
(* groups it was given to rests on what lies in the buffer at every token: *)
(* one record after the other, pos[k] behind the record of group k, with   *)
(* the name of the token tok[k] that opened it, and with the present scope *)
(* if there was no bar since.  From this follow that a name is used once   *)
(* per alternative and that references are resolved to groups of the name. *)
(*                                                                         *)
(* The tables of a match are filled by places counted from the top of the  *)
(* stack.  Which tables lie there is computed from the calls that push     *)
(* them, for each of the four cases of the flag d and of names: StackOf    *)
(* and FieldsAre.  Each place PushGroup uses is then that of one table,    *)
(* and the tables stay filled alike, group by group.                       *)
(***************************************************************************)
EXTENDS MatchObject, SequenceTheorems, FiniteSetTheorems, WellFoundedInduction, TLAPS

\* zero are places of zeros in the buffer s, in increasing order, n of them
Zeros(s, n, zero) ==
  /\ zero \in [1..n -> 1..Len(s)]
  /\ \A k \in 1..n : s[zero[k]] = 0
  /\ \A j, k \in 1..n : j < k => zero[j] < zero[k]

\* where the walk is before group k is pushed
NotPast(p, k, n, zero) ==
  /\ k = 0 => p <= 1
  /\ k \in 1..n => p <= zero[k]

Unwritten == status \notin {"parse", "error"} /\ group_names = <<>>

HasZeros ==
  status # "error" /\ ~Unwritten =>
    \E zero : /\ Zeros(group_names, capture_count - 1, zero)
              /\ status = "exec" => NotPast(name_at, i, capture_count - 1, zero)

NameAtOK ==
  /\ status \in {"parse", "compiled"} => i = 0 /\ name_at = NULL
  /\ Unwritten => name_at \in 0..1
  /\ status = "exec" /\ name_at # NULL => name_at >= 1

IInv == TypeOK /\ pattern \in Patterns /\ HasZeros /\ NameAtOK

--------------------------------------------------------------------------------
(***************************************************************************)
(* Strings.                                                                *)
(***************************************************************************)
\* Bounded numbers have a least one: of the intervals below them, one has no other
\* strictly inside.
LEMMA Least ==
  ASSUME NEW n \in Nat, NEW T, T \subseteq 0..n, T # {}
  PROVE  \E x \in T : \A y \in T : x <= y
  <1> DEFINE R == StrictSubsetOrdering(0..n)
             Below == {0..x : x \in T}
  <1>1. IsFiniteSet(0..n)
    BY FS_Interval
  <1>2. FiniteSubsetsOf(0..n) = SUBSET (0..n)
    BY <1>1, FS_FiniteSubsetsOfFinite
  <1>3. IsWellFoundedOn(R, SUBSET (0..n))
    BY <1>2, FS_StrictSubsetOrderingWellFounded
  <1>4. Below \subseteq SUBSET (0..n) /\ Below # {}
    <2>1. \A x \in T : 0..x \subseteq 0..n
      <3>1. \A x \in 0..n : \A w \in 0..x : w \in 0..n
        OBVIOUS
      <3> QED
        BY <3>1
    <2>2. PICK x \in T : TRUE
      OBVIOUS
    <2>3. 0..x \in Below
      BY <2>2
    <2> QED
      BY <2>1, <2>3
  <1>5. \E B \in Below : \A C \in Below : ~ (<<C, B>> \in R)
    <2> HIDE DEF R, Below
    <2> QED
      BY <1>3, <1>4, WFMin
  <1>6. PICK x \in T : \A C \in Below : ~ (<<C, 0..x>> \in R)
    BY <1>5
  <1>7. ASSUME NEW y \in T, y < x
        PROVE  FALSE
    <2>1. x \in 0..n /\ y \in 0..n
      OBVIOUS
    <2>2. 0..y \subseteq 0..x /\ 0..y # 0..x
      <3>1. x \in 0..x /\ x \notin 0..y
        BY <1>7, <2>1
      <3>2. \A w \in 0..y : w \in 0..x
        BY <1>7, <2>1
      <3> QED
        BY <3>1, <3>2
    <2>3. 0..y \in SUBSET (0..n) /\ 0..x \in SUBSET (0..n)
      BY <2>1
    <2>4. <<0..y, 0..x>> \in R
      BY <2>2, <2>3 DEF StrictSubsetOrdering
    <2> QED
      BY <1>6, <2>4
  <1>8. \A y \in T : ~(y < x) /\ x \in Int /\ y \in Int
    BY <1>7
  <1> QED
    BY <1>8

\* A string before a zero ends there or earlier, at a zero.
LEMMA StringEnds ==
  ASSUME NEW s \in Seq(Byte), NEW p \in Nat, p >= 1, NEW z \in p..Len(s), s[z] = 0
  PROVE  StrEnd(s, p) \in p..z
  <1> DEFINE T == {e \in p..Len(s) : s[e] = 0}
  <1>1. Len(s) \in Nat
    OBVIOUS
  <1>2. T \subseteq 0..Len(s) /\ z \in T
    BY <1>1
  <1>3. PICK x \in T : \A y \in T : x <= y
    BY <1>1, <1>2, Least
  <1>4. x \in p..Len(s) /\ s[x] = 0 /\ x <= z
    BY <1>2, <1>3
  <1>5. \A w \in p..(x - 1) : s[w] # 0
    <2>1. SUFFICES ASSUME NEW w \in p..(x - 1), s[w] = 0 PROVE FALSE
      OBVIOUS
    <2>2. w \in T /\ w < x
      BY <1>1, <1>4, <2>1
    <2> QED
      BY <1>3, <1>4, <2>2
  <1>6. \E e \in p..Len(s) : s[e] = 0 /\ \A w \in p..(e - 1) : s[w] # 0
    BY <1>4, <1>5
  <1> DEFINE e == StrEnd(s, p)
  <1>7. e \in p..Len(s) /\ s[e] = 0 /\ \A w \in p..(e - 1) : s[w] # 0
    BY <1>6 DEF StrEnd
  <1> HIDE DEF e
  <1>8. e <= z
    <2>1. SUFFICES ASSUME e > z PROVE FALSE
      BY <1>1, <1>7
    <2>2. z \in p..(e - 1)
      BY <1>1, <1>7, <2>1
    <2> QED
      BY <1>7, <2>2
  <1>9. e \in p..z
    BY <1>1, <1>7, <1>8
  <1> QED
    BY <1>9 DEF e

\* The walk takes a string with its zero.
LEMMA PastString ==
  ASSUME NEW p \in Nat, p >= 1, NEW z \in p..Len(group_names), group_names[z] = 0,
         group_names \in Seq(Byte)
  PROVE  PastName(p) \in (p + 1)..(z + 1)
  <1>1. StrEnd(group_names, p) \in p..z
    BY StringEnds
  <1> DEFINE e == StrEnd(group_names, p)
  <1>2. Len(group_names) \in Nat /\ e \in Int /\ p <= e /\ e <= z /\ z <= Len(group_names)
    BY <1>1
  <1> HIDE DEF e
  <1>3. \A k \in p..(e - 1) : group_names[k] \in Byte
    BY <1>2, ElementOfSeq
  <1>4. Len(SubSeq(group_names, p, e - 1)) = IF p <= e - 1 THEN (e - 1) - p + 1 ELSE 0
    BY <1>2, <1>3, SubSeqProperties
  <1>5. Len(SubSeq(group_names, p, e - 1)) = e - p
    BY <1>2, <1>4
  <1>6. PastName(p) = p + (e - p) + 1
    BY <1>5 DEF PastName, Name, CString, e
  <1> QED
    BY <1>2, <1>6

--------------------------------------------------------------------------------
(***************************************************************************)
(* The parser.                                                             *)
(***************************************************************************)
LEMMA TokenFacts ==
  ASSUME pattern \in Patterns, at \in 0..Len(pattern.tokens), at < Len(pattern.tokens),
         Token.t = "open"
  PROVE  /\ Token.name \in Seq(Letters)
         /\ Token.name # Unnamed => Token.name \in Names
  <1>1. pattern.tokens \in Seq({Open(name) : name \in Names \cup {Unnamed}} \cup {Bar}
                                 \cup {Ref(name) : name \in Names})
    BY PatternsAssumption
  <1>2. at + 1 \in 1..Len(pattern.tokens)
    BY <1>1
  <1>3. Token \in {Open(name) : name \in Names \cup {Unnamed}} \cup {Bar}
                    \cup {Ref(name) : name \in Names}
    BY <1>1, <1>2, ElementOfSeq DEF Token
  <1>4. Token \in {Open(name) : name \in Names \cup {Unnamed}}
    <2>1. Bar.t # "open" /\ \A name \in Names : Ref(name).t # "open"
      BY DEF Bar, Ref
    <2> QED
      BY <1>3, <2>1
  <1>5. PICK name \in Names \cup {Unnamed} : Token = Open(name)
    BY <1>4
  <1>6. Token.name = name
    BY <1>5 DEF Open
  <1>7. name \in Seq(Letters)
    <2>1. Unnamed \in Seq(Letters)
      BY DEF Unnamed
    <2> QED
      BY <1>5, <2>1, NamesAssumption
  <1> QED
    BY <1>5, <1>6, <1>7

\* A record is bytes, and has a zero behind the name.
LEMMA RecordFacts ==
  ASSUME NEW name \in Seq(Letters), NEW s \in Byte
  PROVE  /\ Record(name, s) \in Seq(Byte)
         /\ Len(Record(name, s)) = Len(name) + 2
         /\ Record(name, s)[Len(name) + 1] = 0
         /\ \A x \in 1..Len(name) : Record(name, s)[x] = name[x]
         /\ name # Unnamed => Record(name, s)[Len(name) + 2] = s
  <1> DEFINE b == IF name = Unnamed THEN 0 ELSE s
             tail == <<0, b>>
  <1>1. name \in Seq(Byte)
    BY DEF Letters, Byte
  <1>2. tail \in Seq(Byte) /\ Len(tail) = 2 /\ tail[1] = 0 /\ tail[2] = b
    <2>1. b \in Byte
      BY DEF Byte
    <2> HIDE DEF b
    <2> QED
      BY <2>1 DEF Byte
  <1>3. Len(name) \in Nat
    OBVIOUS
  <1>4. Record(name, s) = name \o tail
    BY DEF Record
  <1> HIDE DEF tail
  <1>5. /\ name \o tail \in Seq(Byte)
        /\ Len(name \o tail) = Len(name) + Len(tail)
        /\ \A k \in 1..(Len(name) + Len(tail)) :
             (name \o tail)[k] = IF k <= Len(name) THEN name[k] ELSE tail[k - Len(name)]
    BY <1>1, <1>2, ConcatProperties
  <1>6. (name \o tail)[Len(name) + 1] = tail[1]
    BY <1>2, <1>3, <1>5
  <1>7. \A x \in 1..Len(name) : (name \o tail)[x] = name[x]
    BY <1>2, <1>3, <1>5
  <1>8. (name \o tail)[Len(name) + 2] = tail[2]
    BY <1>2, <1>3, <1>5
  <1> QED
    BY <1>2, <1>4, <1>5, <1>6, <1>7, <1>8

\* A record more is a zero more.
LEMMA ZeroAppended ==
  ASSUME NEW s \in Seq(Byte), NEW r \in Seq(Byte), NEW n \in Nat, NEW zero, Zeros(s, n, zero),
         NEW k \in 1..Len(r), r[k] = 0
  PROVE  Zeros(s \o r, n + 1, [j \in 1..(n + 1) |-> IF j = n + 1 THEN Len(s) + k ELSE zero[j]])
  <1> DEFINE z == [j \in 1..(n + 1) |-> IF j = n + 1 THEN Len(s) + k ELSE zero[j]]
  <1>1. /\ s \o r \in Seq(Byte)
        /\ Len(s \o r) = Len(s) + Len(r)
        /\ \A j \in 1..(Len(s) + Len(r)) :
             (s \o r)[j] = IF j <= Len(s) THEN s[j] ELSE r[j - Len(s)]
    BY ConcatProperties
  <1>2. Len(s) \in Nat /\ Len(r) \in Nat
    OBVIOUS
  <1>3. \A j \in 1..n : zero[j] \in 1..Len(s) /\ s[zero[j]] = 0
    BY DEF Zeros
  <1>4. \A j \in 1..n : z[j] = zero[j]
    OBVIOUS
  <1>5. z[n + 1] = Len(s) + k
    OBVIOUS
  <1>6. \A j \in 1..(n + 1) : j \in 1..n \/ j = n + 1
    OBVIOUS
  <1>7. z \in [1..(n + 1) -> 1..Len(s \o r)]
    <2>1. \A j \in 1..(n + 1) : z[j] \in 1..(Len(s) + Len(r))
      <3> HIDE DEF z
      <3>1. \A j \in 1..n : z[j] \in 1..(Len(s) + Len(r))
        <4>1. \A x \in 1..Len(s) : x \in 1..(Len(s) + Len(r))
          BY <1>2
        <4> QED
          BY <1>3, <1>4, <4>1
      <3>2. z[n + 1] \in 1..(Len(s) + Len(r))
        <4>1. k \in Int /\ 1 <= k /\ k <= Len(r)
          BY <1>2
        <4> QED
          BY <1>2, <1>5, <4>1
      <3> QED
        BY <1>6, <3>1, <3>2
    <2> QED
      BY <1>1, <2>1
  <1> HIDE DEF z
  <1>8. \A j \in 1..(n + 1) : (s \o r)[z[j]] = 0
    <2>1. (s \o r)[Len(s) + k] = r[k]
      BY <1>1, <1>2
    <2>2. \A j \in 1..n : (s \o r)[zero[j]] = s[zero[j]]
      BY <1>1, <1>2, <1>3
    <2> QED
      BY <1>3, <1>4, <1>5, <1>6, <2>1, <2>2
  <1>9. \A h, j \in 1..(n + 1) : h < j => z[h] < z[j]
    <2>1. \A h, j \in 1..n : h < j => zero[h] < zero[j]
      BY DEF Zeros
    <2>2. \A h \in 1..n : z[h] < z[n + 1]
      BY <1>2, <1>3, <1>4, <1>5
    <2>3. \A h, j \in 1..(n + 1) : h < j => h \in 1..n
      OBVIOUS
    <2> QED
      BY <1>4, <1>6, <2>1, <2>2, <2>3
  <1> QED
    BY <1>7, <1>8, <1>9 DEF Zeros, z
--------------------------------------------------------------------------------
(***************************************************************************)
(* The stack of Lua.                                                       *)
(***************************************************************************)
\* Stacks are compared place by place.
LEMMA AppendIs ==
  ASSUME NEW T, NEW s \in Seq(T), NEW e \in Seq(T), NEW x \in T,
         Len(e) = Len(s) + 1, \A k \in 1..Len(s) : e[k] = s[k], e[Len(s) + 1] = x
  PROVE  Append(s, x) = e
  <1> DEFINE p == Append(s, x)
  <1>1. /\ p \in Seq(T) /\ Len(p) = Len(s) + 1 /\ p[Len(s) + 1] = x
        /\ \A k \in 1..Len(s) : p[k] = s[k]
    BY AppendProperties
  <1> HIDE DEF p
  <1>2. \A k \in 1..Len(p) : p[k] = e[k]
    <2>1. \A k \in 1..(Len(s) + 1) : k \in 1..Len(s) \/ k = Len(s) + 1
      OBVIOUS
    <2> QED
      BY <1>1, <2>1
  <1>3. p = e
    BY <1>1, <1>2, SeqEqual
  <1> QED
    BY <1>3 DEF p

LEMMA PopIs ==
  ASSUME NEW T, NEW s \in Seq(T), NEW e \in Seq(T), Len(s) = Len(e) + 1,
         \A k \in 1..Len(e) : e[k] = s[k]
  PROVE  SubSeq(s, 1, Len(s) - 1) = e
  <1> DEFINE n == Len(e)
             p == SubSeq(s, 1, n)
  <1>1. n \in Nat /\ Len(s) - 1 = n /\ \A k \in 1..n : s[k] \in T
    OBVIOUS
  <1> HIDE DEF n
  <1>2. p \in Seq(T) /\ Len(p) = n /\ \A k \in 1..n : p[k] = s[k]
    <2>1. /\ p \in Seq(T)
          /\ Len(p) = IF 1 <= n THEN n - 1 + 1 ELSE 0
          /\ \A k \in 1..(n - 1 + 1) : p[k] = s[1 + k - 1]
      BY <1>1, SubSeqProperties
    <2> HIDE DEF p
    <2> QED
      BY <1>1, <2>1
  <1> HIDE DEF p
  <1>3. p = e
    BY <1>2, SeqEqual DEF n
  <1> QED
    BY <1>1, <1>3 DEF p

LEMMA Append1 ==
  ASSUME NEW T, NEW a \in T, NEW b \in T
  PROVE  Append(<<a>>, b) = <<a, b>>
  <1> DEFINE s == <<a>>
             t == <<a, b>>
  <1>1. s \in Seq(T) /\ Len(s) = 1 /\ s[1] = a
    OBVIOUS
  <1>2. t \in Seq(T) /\ Len(t) = 2 /\ t[1] = a /\ t[2] = b
    OBVIOUS
  <1>3. \A k \in 1..1 : k \in {1}
    OBVIOUS
  <1> HIDE DEF s, t
  <1>4. /\ Len(t) = Len(s) + 1 /\ t[Len(s) + 1] = b
        /\ \A k \in 1..Len(s) : t[k] = s[k]
    BY <1>1, <1>2, <1>3
  <1>5. Append(s, b) = t
    BY <1>1, <1>2, <1>4, AppendIs, ZenonT(40)
  <1> QED
    BY <1>5 DEF s, t

LEMMA Append2 ==
  ASSUME NEW T, NEW a \in T, NEW b \in T, NEW c \in T
  PROVE  Append(<<a, b>>, c) = <<a, b, c>>
  <1> DEFINE s == <<a, b>>
             t == <<a, b, c>>
  <1>1. s \in Seq(T) /\ Len(s) = 2 /\ s[1] = a /\ s[2] = b
    OBVIOUS
  <1>2. t \in Seq(T) /\ Len(t) = 3 /\ t[1] = a /\ t[2] = b /\ t[3] = c
    OBVIOUS
  <1>3. \A k \in 1..2 : k \in {1, 2}
    OBVIOUS
  <1> HIDE DEF s, t
  <1>4. /\ Len(t) = Len(s) + 1 /\ t[Len(s) + 1] = c
        /\ \A k \in 1..Len(s) : t[k] = s[k]
    BY <1>1, <1>2, <1>3
  <1>5. Append(s, c) = t
    BY <1>1, <1>2, <1>4, AppendIs, ZenonT(40)
  <1> QED
    BY <1>5 DEF s, t

LEMMA Append3 ==
  ASSUME NEW T, NEW a \in T, NEW b \in T, NEW c \in T, NEW d \in T
  PROVE  Append(<<a, b, c>>, d) = <<a, b, c, d>>
  <1> DEFINE s == <<a, b, c>>
             t == <<a, b, c, d>>
  <1>1. s \in Seq(T) /\ Len(s) = 3 /\ s[1] = a /\ s[2] = b /\ s[3] = c
    OBVIOUS
  <1>2. t \in Seq(T) /\ Len(t) = 4 /\ t[1] = a /\ t[2] = b /\ t[3] = c /\ t[4] = d
    OBVIOUS
  <1>3. \A k \in 1..3 : k \in {1, 2, 3}
    OBVIOUS
  <1> HIDE DEF s, t
  <1>4. /\ Len(t) = Len(s) + 1 /\ t[Len(s) + 1] = d
        /\ \A k \in 1..Len(s) : t[k] = s[k]
    BY <1>1, <1>2, <1>3
  <1>5. Append(s, d) = t
    BY <1>1, <1>2, <1>4, AppendIs, ZenonT(40)
  <1> QED
    BY <1>5 DEF s, t

LEMMA Append4 ==
  ASSUME NEW T, NEW a \in T, NEW b \in T, NEW c \in T, NEW d \in T, NEW e \in T
  PROVE  Append(<<a, b, c, d>>, e) = <<a, b, c, d, e>>
  <1> DEFINE s == <<a, b, c, d>>
             t == <<a, b, c, d, e>>
  <1>1. s \in Seq(T) /\ Len(s) = 4 /\ s[1] = a /\ s[2] = b /\ s[3] = c /\ s[4] = d
    OBVIOUS
  <1>2. t \in Seq(T) /\ Len(t) = 5 /\ t[1] = a /\ t[2] = b /\ t[3] = c /\ t[4] = d /\ t[5] = e
    OBVIOUS
  <1>3. \A k \in 1..4 : k \in {1, 2, 3, 4}
    OBVIOUS
  <1> HIDE DEF s, t
  <1>4. /\ Len(t) = Len(s) + 1 /\ t[Len(s) + 1] = e
        /\ \A k \in 1..Len(s) : t[k] = s[k]
    BY <1>1, <1>2, <1>3
  <1>5. Append(s, e) = t
    BY <1>1, <1>2, <1>4, AppendIs, ZenonT(40)
  <1> QED
    BY <1>5 DEF s, t

LEMMA Pop3 ==
  ASSUME NEW T, NEW a \in T, NEW b \in T, NEW c \in T
  PROVE  SubSeq(<<a, b, c>>, 1, 2) = <<a, b>>
  <1> DEFINE s == <<a, b, c>>
             t == <<a, b>>
  <1>1. s \in Seq(T) /\ Len(s) = 3 /\ s[1] = a /\ s[2] = b /\ s[3] = c
    OBVIOUS
  <1>2. t \in Seq(T) /\ Len(t) = 2 /\ t[1] = a /\ t[2] = b
    OBVIOUS
  <1>3. \A k \in 1..2 : k \in {1, 2}
    OBVIOUS
  <1> HIDE DEF s, t
  <1>4. SubSeq(s, 1, 2) = t
    BY <1>1, <1>2, <1>3, PopIs
  <1> QED
    BY <1>4 DEF s, t

LEMMA Pop4 ==
  ASSUME NEW T, NEW a \in T, NEW b \in T, NEW c \in T, NEW d \in T
  PROVE  SubSeq(<<a, b, c, d>>, 1, 3) = <<a, b, c>>
  <1> DEFINE s == <<a, b, c, d>>
             t == <<a, b, c>>
  <1>1. s \in Seq(T) /\ Len(s) = 4 /\ s[1] = a /\ s[2] = b /\ s[3] = c /\ s[4] = d
    OBVIOUS
  <1>2. t \in Seq(T) /\ Len(t) = 3 /\ t[1] = a /\ t[2] = b /\ t[3] = c
    OBVIOUS
  <1>3. \A k \in 1..3 : k \in {1, 2, 3}
    OBVIOUS
  <1> HIDE DEF s, t
  <1>4. SubSeq(s, 1, 3) = t
    BY <1>1, <1>2, <1>3, PopIs
  <1> QED
    BY <1>4 DEF s, t

LEMMA Pop5 ==
  ASSUME NEW T, NEW a \in T, NEW b \in T, NEW c \in T, NEW d \in T, NEW e \in T
  PROVE  SubSeq(<<a, b, c, d, e>>, 1, 4) = <<a, b, c, d>>
  <1> DEFINE s == <<a, b, c, d, e>>
             t == <<a, b, c, d>>
  <1>1. s \in Seq(T) /\ Len(s) = 5 /\ s[1] = a /\ s[2] = b /\ s[3] = c /\ s[4] = d /\ s[5] = e
    OBVIOUS
  <1>2. t \in Seq(T) /\ Len(t) = 4 /\ t[1] = a /\ t[2] = b /\ t[3] = c /\ t[4] = d
    OBVIOUS
  <1>3. \A k \in 1..4 : k \in {1, 2, 3, 4}
    OBVIOUS
  <1> HIDE DEF s, t
  <1>4. SubSeq(s, 1, 4) = t
    BY <1>1, <1>2, <1>3, PopIs
  <1> QED
    BY <1>4 DEF s, t

--------------------------------------------------------------------------------
(***************************************************************************)
(* The tables below the match, when the groups are pushed.  Lua(s, f) is   *)
(* the stack s and the fields f.                                           *)
(***************************************************************************)
Lua(s, f) == [stack |-> s, fields |-> f]

\* A new table above the match, and a copy of it that becomes a field of the match.
LEMMA FieldOfMatch1 ==
  ASSUME NEW f, NEW m \in Tables, NEW g \in Tables
  PROVE  /\ createtable(Lua(<<m>>, f), g) = Lua(<<m, g>>, f)
         /\ setfield(pushvalue(Lua(<<m, g>>, f), -1), -3, g) =
              Lua(<<m, g>>, With(f, <<m, g>>, g))
  <1> DEFINE s1 == <<m>>
             s2 == <<m, g>>
             s3 == <<m, g, g>>
  <1>1. Append(s1, g) = s2 /\ Append(s2, g) = s3
    BY Append1, Append2
  <1>2. SubSeq(s3, 1, 2) = s2
    BY Pop3
  <1>3. FromTop(s2, -1) = g /\ FromTop(s3, -1) = g /\ FromTop(s3, -3) = m /\ Len(s3) - 1 = 2
    BY DEF FromTop
  <1> HIDE DEF s1, s2, s3
  <1>4. createtable(Lua(s1, f), g) = Lua(s2, f)
    BY <1>1, SMTT(20) DEF Lua, createtable
  <1>5. pushvalue(Lua(s2, f), -1) = Lua(s3, f)
    <2>1. Append(s2, FromTop(s2, -1)) = s3
      BY <1>1, <1>3
    <2> QED
      BY <2>1 DEF Lua, pushvalue
  <1>6. setfield(Lua(s3, f), -3, g) = Lua(s2, With(f, <<m, g>>, g))
    BY <1>2, <1>3 DEF Lua, setfield
  <1> QED
    BY <1>4, <1>5, <1>6 DEF s1, s2

\* The same with one table below the match,
LEMMA FieldOfMatch2 ==
  ASSUME NEW f, NEW a \in Tables, NEW m \in Tables, NEW g \in Tables
  PROVE  setfield(pushvalue(Lua(<<a, m, g>>, f), -1), -3, g) =
           Lua(<<a, m, g>>, With(f, <<m, g>>, g))
  <1> DEFINE s2 == <<a, m, g>>
             s3 == <<a, m, g, g>>
  <1>1. Append(s2, g) = s3
    BY Append3
  <1>2. SubSeq(s3, 1, 3) = s2
    BY Pop4
  <1>3. FromTop(s2, -1) = g /\ FromTop(s3, -1) = g /\ FromTop(s3, -3) = m /\ Len(s3) - 1 = 3
    BY DEF FromTop
  <1> HIDE DEF s2, s3
  <1>4. pushvalue(Lua(s2, f), -1) = Lua(s3, f)
    <2>1. Append(s2, FromTop(s2, -1)) = s3
      BY <1>1, <1>3
    <2> QED
      BY <2>1 DEF Lua, pushvalue
  <1>5. setfield(Lua(s3, f), -3, g) = Lua(s2, With(f, <<m, g>>, g))
    BY <1>2, <1>3 DEF Lua, setfield
  <1> QED
    BY <1>4, <1>5 DEF s2

\* and with two.
LEMMA FieldOfMatch3 ==
  ASSUME NEW f, NEW a \in Tables, NEW b \in Tables, NEW m \in Tables, NEW g \in Tables
  PROVE  /\ createtable(Lua(<<a, b, m>>, f), g) = Lua(<<a, b, m, g>>, f)
         /\ setfield(pushvalue(Lua(<<a, b, m, g>>, f), -1), -3, g) =
              Lua(<<a, b, m, g>>, With(f, <<m, g>>, g))
  <1> DEFINE s1 == <<a, b, m>>
             s2 == <<a, b, m, g>>
             s3 == <<a, b, m, g, g>>
  <1>1. Append(s1, g) = s2 /\ Append(s2, g) = s3
    BY Append3, Append4
  <1>2. SubSeq(s3, 1, 4) = s2
    BY Pop5
  <1>3. FromTop(s2, -1) = g /\ FromTop(s3, -1) = g /\ FromTop(s3, -3) = m /\ Len(s3) - 1 = 4
    BY DEF FromTop
  <1> HIDE DEF s1, s2, s3
  <1>4. createtable(Lua(s1, f), g) = Lua(s2, f)
    BY <1>1, SMTT(20) DEF Lua, createtable
  <1>5. pushvalue(Lua(s2, f), -1) = Lua(s3, f)
    <2>1. Append(s2, FromTop(s2, -1)) = s3
      BY <1>1, <1>3
    <2> QED
      BY <2>1 DEF Lua, pushvalue
  <1>6. setfield(Lua(s3, f), -3, g) = Lua(s2, With(f, <<m, g>>, g))
    BY <1>2, <1>3 DEF Lua, setfield
  <1> QED
    BY <1>4, <1>5, <1>6 DEF s1, s2

LEMMA GroupsBelow ==
  ASSUME NEW f, NEW m \in Tables
  PROVE  /\ WithGroups(Lua(<<m>>, f)) =
              Lua(<<"groups", m>>, With(f, <<m, "groups">>, "groups"))
         /\ \A a, b \in Tables :
              WithGroups(Lua(<<a, b, m>>, f)) =
                Lua(<<a, b, "groups", m>>, With(f, <<m, "groups">>, "groups"))
  <1> DEFINE g == "groups"
             more == With(f, <<m, g>>, g)
  <1>0. g \in Tables
    BY DEF Tables
  <1> HIDE DEF g
  <1>1. WithGroups(Lua(<<m>>, f)) = Lua(<<g, m>>, more)
    <2>1. /\ createtable(Lua(<<m>>, f), g) = Lua(<<m, g>>, f)
          /\ setfield(pushvalue(Lua(<<m, g>>, f), -1), -3, g) = Lua(<<m, g>>, more)
      BY <1>0, FieldOfMatch1
    <2>2. insert(Lua(<<m, g>>, more), -2) = Lua(<<g, m>>, more)
      BY DEF Lua, insert
    <2> QED
      BY <2>1, <2>2 DEF WithGroups, g
  <1>2. ASSUME NEW a \in Tables, NEW b \in Tables
        PROVE  WithGroups(Lua(<<a, b, m>>, f)) = Lua(<<a, b, g, m>>, more)
    <2>1. /\ createtable(Lua(<<a, b, m>>, f), g) = Lua(<<a, b, m, g>>, f)
          /\ setfield(pushvalue(Lua(<<a, b, m, g>>, f), -1), -3, g) = Lua(<<a, b, m, g>>, more)
      BY <1>0, FieldOfMatch3
    <2>2. insert(Lua(<<a, b, m, g>>, more), -2) = Lua(<<a, b, g, m>>, more)
      BY DEF Lua, insert
    <2> QED
      BY <2>1, <2>2 DEF WithGroups, g
  <1> QED
    BY <1>1, <1>2 DEF g

LEMMA IndicesGroupsIs ==
  ASSUME NEW f, NEW m \in Tables, NEW x \in Tables
  PROVE  IndicesGroups(Lua(<<m, x>>, f)) =
           Lua(<<"indices.groups", m, x>>, With(f, <<x, "groups">>, "indices.groups"))
  <1> DEFINE g == "indices.groups"
             s1 == <<m, x>>
             s2 == <<m, x, g>>
             s3 == <<m, x, g, g>>
             s4 == <<g, m, x, g>>
             s5 == <<g, m, x>>
  <1>0. g \in Tables
    BY DEF Tables
  <1> HIDE DEF g
  <1>1. Append(s1, g) = s2 /\ Append(s2, g) = s3
    BY <1>0, Append2, Append3
  <1>2. SubSeq(s4, 1, 3) = s5
    BY <1>0, Pop4
  <1>3. FromTop(s2, -1) = g /\ FromTop(s4, -1) = g /\ FromTop(s4, -2) = x /\ Len(s4) - 1 = 3
    BY DEF FromTop
  <1>4. insert(Lua(s3, f), -4) = Lua(s4, f)
    BY DEF Lua, insert
  <1> HIDE DEF s1, s2, s3, s4, s5
  <1>5. createtable(Lua(s1, f), g) = Lua(s2, f)
    BY <1>1, SMTT(20) DEF Lua, createtable
  <1>6. pushvalue(Lua(s2, f), -1) = Lua(s3, f)
    <2>1. Append(s2, FromTop(s2, -1)) = s3
      BY <1>1, <1>3
    <2> QED
      BY <2>1 DEF Lua, pushvalue
  <1>7. setfield(Lua(s4, f), -2, "groups") = Lua(s5, With(f, <<x, "groups">>, g))
    BY <1>2, <1>3 DEF Lua, setfield
  <1> QED
    BY <1>4, <1>5, <1>6, <1>7 DEF IndicesGroups, s1, s5, g

LEMMA IndicesBelow ==
  ASSUME NEW f, NEW m \in Tables
  PROVE  /\ ~HasNames =>
              WithIndices(Lua(<<m>>, f)) =
                Lua(<<"indices", m>>, With(f, <<m, "indices">>, "indices"))
         /\ HasNames =>
              WithIndices(Lua(<<m>>, f)) =
                Lua(<<"indices.groups", "indices", m>>,
                    With(With(f, <<"indices", "groups">>, "indices.groups"),
                         <<m, "indices">>, "indices"))
  <1> DEFINE x == "indices"
             g == "indices.groups"
             filled == With(f, <<x, "groups">>, g)
             more == With(filled, <<m, x>>, x)
             only == With(f, <<m, x>>, x)
  <1>0. x \in Tables /\ g \in Tables
    BY DEF Tables
  <1> HIDE DEF x
  <1>1. createtable(Lua(<<m>>, f), x) = Lua(<<m, x>>, f)
    BY <1>0, FieldOfMatch1
  <1>2. IndicesGroups(Lua(<<m, x>>, f)) = Lua(<<g, m, x>>, filled)
    BY <1>0, IndicesGroupsIs
  <1> HIDE DEF filled, g
  <1>3. insert(setfield(pushvalue(Lua(<<g, m, x>>, filled), -1), -3, x), -2) = Lua(<<g, x, m>>, more)
    <2>1. setfield(pushvalue(Lua(<<g, m, x>>, filled), -1), -3, x) = Lua(<<g, m, x>>, more)
      BY <1>0, FieldOfMatch2
    <2>2. insert(Lua(<<g, m, x>>, more), -2) = Lua(<<g, x, m>>, more)
      BY DEF Lua, insert
    <2> QED
      BY <2>1, <2>2
  <1>4. insert(setfield(pushvalue(Lua(<<m, x>>, f), -1), -3, x), -2) = Lua(<<x, m>>, only)
    <2>1. setfield(pushvalue(Lua(<<m, x>>, f), -1), -3, x) = Lua(<<m, x>>, only)
      BY <1>0, FieldOfMatch1
    <2>2. insert(Lua(<<m, x>>, only), -2) = Lua(<<x, m>>, only)
      BY DEF Lua, insert
    <2> QED
      BY <2>1, <2>2
  <1> HIDE DEF more, only
  <1>5. WithIndices(Lua(<<m>>, f)) = IF HasNames THEN Lua(<<g, x, m>>, more) ELSE Lua(<<x, m>>, only)
    BY <1>1, <1>2, <1>3, <1>4 DEF WithIndices, x
  <1> QED
    BY <1>5 DEF more, only, filled, g, x

StackOf(indexed, names) ==
  IF names
    THEN IF indexed THEN <<"indices.groups", "indices", "groups", "match">> ELSE <<"groups", "match">>
    ELSE IF indexed THEN <<"indices", "match">> ELSE <<"match">>

FieldsAre(f, indexed, names) ==
  /\ <<"match", "indices">> \in DOMAIN f <=> indexed
  /\ <<"match", "groups">> \in DOMAIN f <=> names
  /\ indexed => /\ f[<<"match", "indices">>] = "indices"
                /\ <<"indices", "groups">> \in DOMAIN f <=> names
  /\ names => f[<<"match", "groups">>] = "groups"
  /\ indexed /\ names => f[<<"indices", "groups">>] = "indices.groups"

LEMMA StackTypes ==
  ASSUME NEW indexed, NEW names
  PROVE  StackOf(indexed, names) \in Seq(Tables)
  <1>1. /\ <<"indices.groups", "indices", "groups", "match">> \in Seq(Tables)
        /\ <<"groups", "match">> \in Seq(Tables) /\ <<"indices", "match">> \in Seq(Tables)
        /\ <<"match">> \in Seq(Tables)
    BY DEF Tables
  <1> QED
    BY <1>1 DEF StackOf

\* Which tables are on the stack, and which in which fields, when the groups are pushed.
LEMMA PreparedIs ==
  ASSUME NEW indexed \in BOOLEAN
  PROVE  /\ Prepared(indexed).stack = StackOf(indexed, HasNames)
         /\ FieldsAre(Prepared(indexed).fields, indexed, HasNames)
  <1> DEFINE m == "match"
             f0 == Empty
             fG == With(f0, <<m, "groups">>, "groups")
             fI == With(f0, <<m, "indices">>, "indices")
             fN == With(With(f0, <<"indices", "groups">>, "indices.groups"), <<m, "indices">>, "indices")
             fA == With(fN, <<m, "groups">>, "groups")
             all == <<"indices.groups", "indices", "groups", m>>
  <1>0. m \in Tables /\ "indices" \in Tables /\ "indices.groups" \in Tables
    BY DEF Tables
  <1>1. Prepared(indexed) =
          IF HasNames THEN IF indexed THEN Lua(all, fA) ELSE Lua(<<"groups", m>>, fG)
          ELSE IF indexed THEN Lua(<<"indices", m>>, fI) ELSE Lua(<<m>>, f0)
    <2> HIDE DEF f0
    <2>1. [stack |-> <<"match">>, fields |-> Empty] = Lua(<<m>>, f0)
      BY DEF Lua, f0
    <2> DEFINE l0 == Lua(<<m>>, f0)
               lN == Lua(<<"indices.groups", "indices", m>>, fN)
    <2>2. /\ ~HasNames => WithIndices(l0) = Lua(<<"indices", m>>, fI)
          /\ HasNames => WithIndices(l0) = lN
      BY <1>0, IndicesBelow
    <2>3. WithGroups(l0) = Lua(<<"groups", m>>, fG) /\ WithGroups(lN) = Lua(all, fA)
      BY <1>0, GroupsBelow
    <2> HIDE DEF l0, lN, fN, fA, fG, fI, all
    <2>4. Prepared(indexed) =
            LET below == IF indexed THEN WithIndices(l0) ELSE l0
            IN  IF HasNames THEN WithGroups(below) ELSE below
      BY <2>1 DEF Prepared, l0
    <2> QED
      BY <2>2, <2>3, <2>4 DEF l0
  <1>2. /\ FieldsAre(f0, FALSE, FALSE) /\ FieldsAre(fG, FALSE, TRUE)
        /\ FieldsAre(fI, TRUE, FALSE) /\ FieldsAre(fA, TRUE, TRUE)
    BY DEF FieldsAre, With, Empty
  <1> HIDE DEF f0, fG, fI, fN, fA
  <1>3. CASE HasNames /\ indexed
    BY <1>1, <1>2, <1>3 DEF Lua, StackOf, FieldsAre
  <1>4. CASE HasNames /\ ~indexed
    BY <1>1, <1>2, <1>4 DEF Lua, StackOf, FieldsAre
  <1>5. CASE ~HasNames /\ indexed
    BY <1>1, <1>2, <1>5 DEF Lua, StackOf, FieldsAre
  <1>6. CASE ~HasNames /\ ~indexed
    BY <1>1, <1>2, <1>6 DEF Lua, StackOf, FieldsAre
  <1> QED
    BY <1>3, <1>4, <1>5, <1>6

--------------------------------------------------------------------------------
(***************************************************************************)
(* The invariant.                                                          *)
(***************************************************************************)
LEMMA TokensLen ==
  ASSUME pattern \in Patterns
  PROVE  Len(pattern.tokens) \in Nat
  <1>1. pattern.tokens \in Seq({Open(name) : name \in Names \cup {Unnamed}} \cup {Bar}
                                 \cup {Ref(name) : name \in Names})
    BY PatternsAssumption
  <1> QED
    BY <1>1

\* A new entry of a table is a value if the others are.
LEMMA WithValues ==
  ASSUME NEW table, NEW key, NEW value \in Values, \A n \in DOMAIN table : table[n] \in Values
  PROVE  \A n \in DOMAIN With(table, key, value) : With(table, key, value)[n] \in Values
  BY DEF With

LEMMA PutValues ==
  ASSUME NEW tables, DOMAIN tables = Tables, NEW table, NEW key, NEW value \in Values,
         \A t \in Tables : \A n \in DOMAIN tables[t] : tables[t][n] \in Values
  PROVE  /\ DOMAIN Put(tables, table, key, value) = Tables
         /\ \A t \in Tables : \A n \in DOMAIN Put(tables, table, key, value)[t] :
              Put(tables, table, key, value)[t][n] \in Values
  <1> DEFINE p == Put(tables, table, key, value)
             entry == With(tables[table], key, value)
  <1>1. DOMAIN p = Tables /\ \A t \in Tables : p[t] = IF t = table THEN entry ELSE tables[t]
    BY DEF Put
  <1>2. table \in Tables => \A n \in DOMAIN entry : entry[n] \in Values
    BY WithValues
  <1> HIDE DEF p, entry
  <1>3. \A t \in Tables : \A n \in DOMAIN p[t] : p[t][n] \in Values
    BY <1>1, <1>2
  <1> QED
    BY <1>1, <1>3 DEF p

\* The types after a group is pushed.
LEMMA PushTypes ==
  ASSUME TypeOK, PushGroup, i + 1 \in 0..capture_count, name_at' \in Nat
  PROVE  TypeOK'
  <1>1. i \in 0..(capture_count - 1) /\ capture_count \in 1..CAPTURE_COUNT_MAX
        /\ CAPTURE_COUNT_MAX \in Nat
    BY NamesAssumption DEF TypeOK
  <1>2. Of("text", i) \in Values /\ Of("positions", i) \in Values
    <2>1. i \in Numbers
      BY <1>1 DEF Numbers
    <2> QED
      BY <2>1 DEF Of, Values
  <1> DEFINE Right(tables) ==
               /\ DOMAIN tables = Tables
               /\ \A t \in Tables : \A n \in DOMAIN tables[t] : tables[t][n] \in Values
  <1>3. \A tables, table, key : Right(tables) =>
          /\ Right(Put(tables, table, key, Of("text", i)))
          /\ Right(Put(tables, table, key, Of("positions", i)))
    BY <1>2, PutValues
  <1>4. Right(entries) /\ Right(named)
    BY DEF TypeOK
  <1> HIDE DEF Right
  <1>5. Right(entries')
    BY <1>3, <1>4 DEF PushGroup
  <1>6. Right(named')
    BY <1>3, <1>4 DEF PushGroup
  <1>7. UNCHANGED <<pattern, at, scope, capture_count, group_names, refs, status, part, wide,
                    has_indices, stack>> /\ i' = i + 1
    BY DEF PushGroup
  <1> QED
    BY <1>5, <1>6, <1>7 DEF TypeOK, Right

LEMMA InitIInv == Init => IInv
  <1> SUFFICES ASSUME Init PROVE IInv
    OBVIOUS
  <1> USE DEF Init, InitParse
  <1>1. pattern \in Patterns
    OBVIOUS
  <1>2. Len(pattern.tokens) \in Nat
    BY <1>1, TokensLen
  <1>3. TypeOK
    <2>1. 1 \in 1..CAPTURE_COUNT_MAX
      BY NamesAssumption
    <2> QED
      BY <1>2, <2>1 DEF TypeOK, Byte, Empty, NULL
  <1>4. HasZeros
    <2>1. Zeros(group_names, capture_count - 1, <<>>)
      BY DEF Zeros
    <2> QED
      BY <2>1 DEF HasZeros
  <1>5. NameAtOK
    BY DEF NameAtOK, Unwritten, NULL
  <1> QED
    BY <1>1, <1>3, <1>4, <1>5 DEF IInv

\* A step of the parser that leaves the buffer and the groups alone.
LEMMA SameGroups ==
  ASSUME IInv, status \in {"parse", "exec"}, UNCHANGED <<capture_count, group_names>>,
         status' \in {"parse", "error", "done", "undefined"},
         status' = "parse" => status = "parse"
  PROVE  HasZeros'
  <1>1. CASE status' = "error"
    BY <1>1 DEF HasZeros
  <1>2. CASE status' # "error"
    <2>1. SUFFICES ASSUME ~Unwritten'
                   PROVE  \E zero : Zeros(group_names, capture_count - 1, zero)
      BY <1>2 DEF HasZeros
    <2>2. status # "error" /\ ~Unwritten
      BY <1>2, <2>1 DEF Unwritten
    <2> QED
      BY <2>2 DEF IInv, HasZeros
  <1> QED
    BY <1>1, <1>2

LEMMA NextIInv == IInv /\ [Next]_vars => IInv'
  <1> SUFFICES ASSUME IInv, [Next]_vars PROVE IInv'
    OBVIOUS
  <1>0. /\ TypeOK /\ pattern \in Patterns /\ HasZeros /\ NameAtOK
        /\ Len(pattern.tokens) \in Nat
    BY TokensLen DEF IInv
  <1>1. ASSUME DuplicateName, UNCHANGED execVars PROVE IInv'
    <2> USE <1>1 DEF DuplicateName, Refused, execVars, Reading
    <2>1. TypeOK'
      BY <1>0 DEF TypeOK
    <2>2. HasZeros'
      BY SameGroups
    <2>3. NameAtOK'
      BY DEF NameAtOK, Unwritten
    <2> QED
      BY <1>0, <2>1, <2>2, <2>3 DEF IInv
  <1>2. ASSUME OpenGroup, UNCHANGED execVars PROVE IInv'
    <2> DEFINE r == Record(Token.name, scope)
               n == capture_count - 1
    <2>1. status = "parse" /\ Token.t = "open" /\ at < Len(pattern.tokens)
      BY <1>2 DEF OpenGroup, Reading
    <2>2. at \in 0..Len(pattern.tokens) /\ scope \in Byte /\ capture_count \in 1..CAPTURE_COUNT_MAX
          /\ group_names \in Seq(Byte) /\ CAPTURE_COUNT_MAX \in Nat
      BY <1>0, NamesAssumption DEF TypeOK
    <2>3. Token.name \in Seq(Letters)
      BY <1>0, <2>1, <2>2, TokenFacts
    <2>4. /\ r \in Seq(Byte)
          /\ Len(r) = Len(Token.name) + 2
          /\ r[Len(Token.name) + 1] = 0
      BY <2>2, <2>3, RecordFacts
    <2>5. group_names' = group_names \o r
      BY <1>2 DEF OpenGroup
    <2>6. PICK zero : Zeros(group_names, n, zero)
      BY <1>0, <2>1 DEF HasZeros, Unwritten
    <2>7. \/ status' = "error" /\ at' = at /\ capture_count' = capture_count
          \/ status' = "parse" /\ at' = at + 1 /\ capture_count' = capture_count + 1
             /\ capture_count < CAPTURE_COUNT_MAX
      <3>1. ~TooMany => capture_count < CAPTURE_COUNT_MAX
        BY <2>2 DEF TooMany
      <3> QED
        BY <1>2, <2>1, <3>1 DEF OpenGroup
    <2>8. UNCHANGED <<pattern, scope, refs, part, wide, has_indices, i, name_at, stack,
                      fields, entries, named>>
      BY <1>2 DEF OpenGroup, execVars
    <2> HIDE DEF r
    <2>9. group_names \o r \in Seq(Byte)
      BY <2>2, <2>4, ConcatProperties
    <2>10. TypeOK'
      <3>1. at' \in 0..Len(pattern.tokens)
        BY <1>0, <2>1, <2>2, <2>7
      <3>2. capture_count' \in 1..CAPTURE_COUNT_MAX /\ capture_count' >= capture_count
        BY <2>2, <2>7
      <3>3. i \in 0..capture_count'
        BY <1>0, <2>2, <3>2 DEF TypeOK
      <3> QED
        BY <1>0, <2>5, <2>7, <2>8, <2>9, <3>1, <3>2, <3>3 DEF TypeOK
    <2>11. HasZeros'
      <3>1. CASE status' = "error"
        BY <3>1 DEF HasZeros
      <3>2. CASE status' = "parse"
        <4> DEFINE k == Len(Token.name) + 1
        <4>1. n \in Nat /\ capture_count' - 1 = n + 1
          BY <2>2, <2>7, <3>2
        <4>2. k \in 1..Len(r) /\ r[k] = 0
          <5>1. Len(Token.name) \in Nat
            BY <2>3
          <5> QED
            BY <2>4, <5>1
        <4> HIDE DEF k, n
        <4>3. Zeros(group_names \o r, n + 1,
                    [j \in 1..(n + 1) |-> IF j = n + 1 THEN Len(group_names) + k ELSE zero[j]])
          BY <2>2, <2>4, <2>6, <4>1, <4>2, ZeroAppended
        <4>4. \E zz : Zeros(group_names', capture_count' - 1, zz)
          BY <2>5, <4>1, <4>3
        <4> QED
          BY <3>2, <4>4 DEF HasZeros
      <3> QED
        BY <2>7, <3>1, <3>2
    <2>12. NameAtOK'
      BY <1>0, <2>1, <2>7, <2>8 DEF NameAtOK, Unwritten
    <2> QED
      BY <1>0, <2>8, <2>10, <2>11, <2>12 DEF IInv
  <1>3. ASSUME NextAlternative, UNCHANGED execVars PROVE IInv'
    <2> USE <1>3 DEF NextAlternative, Reading, execVars
    <2>1. TypeOK'
      <3>1. (scope + 1) % 256 \in Byte
        BY <1>0 DEF TypeOK, Byte
      <3> QED
        BY <1>0, <3>1 DEF TypeOK
    <2>2. HasZeros'
      BY SameGroups
    <2>3. NameAtOK'
      BY <1>0 DEF NameAtOK, Unwritten
    <2> QED
      BY <1>0, <2>1, <2>2, <2>3 DEF IInv
  <1>4. ASSUME Reference, UNCHANGED execVars PROVE IInv'
    <2> USE <1>4 DEF Reference, Reading, execVars
    <2>1. TypeOK'
      BY <1>0 DEF TypeOK
    <2>2. HasZeros'
      BY SameGroups
    <2>3. NameAtOK'
      BY <1>0 DEF NameAtOK, Unwritten
    <2> QED
      BY <1>0, <2>1, <2>2, <2>3 DEF IInv
  <1>5. ASSUME UndefinedName, UNCHANGED execVars PROVE IInv'
    <2> USE <1>5 DEF UndefinedName, Refused, Reading, execVars
    <2>1. TypeOK'
      BY <1>0 DEF TypeOK
    <2>2. HasZeros'
      BY SameGroups
    <2>3. NameAtOK'
      BY <1>0 DEF NameAtOK, Unwritten
    <2> QED
      BY <1>0, <2>1, <2>2, <2>3 DEF IInv
  <1>6. ASSUME Compiled, UNCHANGED execVars PROVE IInv'
    <2> USE <1>6 DEF Compiled, execVars
    <2>1. TypeOK'
      <3>1. group_names' \in Seq(Byte)
        BY <1>0 DEF TypeOK
      <3> QED
        BY <1>0, <3>1 DEF TypeOK
    <2>2. HasZeros'
      <3>1. SUFFICES ASSUME ~Unwritten'
                     PROVE  \E zero : Zeros(group_names', capture_count - 1, zero)
        BY DEF HasZeros
      <3>2. group_names' = group_names
        BY <3>1 DEF Unwritten
      <3>3. status # "error" /\ ~Unwritten
        BY DEF Unwritten
      <3> QED
        BY <1>0, <3>2, <3>3 DEF HasZeros
    <2>3. NameAtOK'
      <3>1. name_at \in 0..1
        BY <1>0 DEF NameAtOK, NULL
      <3> QED
        BY <1>0, <3>1 DEF NameAtOK, Unwritten, NULL
    <2> QED
      BY <1>0, <2>1, <2>2, <2>3 DEF IInv
  <1>7. ASSUME StartExec PROVE IInv'
    <2> USE <1>7 DEF StartExec
    <2>1. i = 0
      BY <1>0 DEF NameAtOK
    <2>2. name_at' \in 0..1 /\ (name_at' # NULL => name_at' >= 1)
      BY DEF NULL
    <2>3. TypeOK'
      <3>1. part' \subseteq Numbers
        <4>1. capture_count \in 1..CAPTURE_COUNT_MAX /\ CAPTURE_COUNT_MAX \in Nat
          BY <1>0, NamesAssumption DEF TypeOK
        <4>2. 0 \in Numbers /\ 1..(capture_count - 1) \subseteq Numbers
          BY <4>1 DEF Numbers
        <4> QED
          BY <4>2
      <3>2. name_at' \in Nat
        BY <2>2
      <3>3. stack' \in Seq(Tables)
        BY PreparedIs, StackTypes
      <3> QED
        BY <1>0, <3>1, <3>2, <3>3 DEF TypeOK
    <2>4. HasZeros'
      <3>1. SUFFICES ASSUME ~Unwritten'
                     PROVE  \E zero : /\ Zeros(group_names, capture_count - 1, zero)
                                      /\ NotPast(name_at', i, capture_count - 1, zero)
        BY DEF HasZeros
      <3>2. status # "error" /\ ~Unwritten
        BY <3>1 DEF Unwritten
      <3>3. PICK zero : Zeros(group_names, capture_count - 1, zero)
        BY <1>0, <3>2 DEF HasZeros
      <3>4. NotPast(name_at', i, capture_count - 1, zero)
        BY <2>1, <2>2 DEF NotPast
      <3> QED
        BY <3>3, <3>4
    <2>5. NameAtOK'
      BY <2>2 DEF NameAtOK, Unwritten
    <2> QED
      BY <1>0, <2>3, <2>4, <2>5 DEF IInv
  <1>8. ASSUME Undefined PROVE IInv'
    <2> USE <1>8 DEF Undefined, execVars
    <2>1. TypeOK'
      BY <1>0 DEF TypeOK
    <2>2. HasZeros'
      BY SameGroups
    <2>3. NameAtOK'
      BY <1>0 DEF NameAtOK, Unwritten
    <2> QED
      BY <1>0, <2>1, <2>2, <2>3 DEF IInv
  <1>9. ASSUME PushGroup PROVE IInv'
    <2> DEFINE n == capture_count - 1
    <2>1. /\ status = "exec" /\ i < capture_count /\ ~NoNames
          /\ i' = i + 1
          /\ name_at' = IF NamesHere THEN PastName(name_at) ELSE name_at
          /\ UNCHANGED <<pattern, at, scope, capture_count, group_names, refs, status,
                         part, wide, has_indices, stack, fields>>
      BY <1>9 DEF PushGroup
    <2>2. /\ capture_count \in 1..CAPTURE_COUNT_MAX /\ CAPTURE_COUNT_MAX \in Nat
          /\ i \in 0..capture_count /\ name_at \in Nat
          /\ group_names \in Seq(Byte) /\ Len(group_names) \in Nat
      BY <1>0, NamesAssumption DEF TypeOK
    <2>3. n \in Nat /\ (i = 0 \/ i \in 1..n) /\ i + 1 \in 0..capture_count
      BY <2>1, <2>2
    <2>4. CASE group_names = <<>>
      <3>1. ~NamesHere
        BY <2>1, <2>4 DEF NoNames
      <3>2. name_at' = name_at
        BY <2>1, <3>1
      <3>3. name_at \in 0..1 /\ Unwritten'
        BY <1>0, <2>1, <2>4 DEF NameAtOK, Unwritten
      <3>4. HasZeros'
        BY <3>3 DEF HasZeros
      <3>5. NameAtOK'
        BY <2>1, <3>2, <3>3 DEF NameAtOK, NULL
      <3> QED
        BY <1>0, <1>9, <2>1, <2>2, <2>3, <3>2, <3>4, <3>5, PushTypes DEF IInv
    <2>5. CASE group_names # <<>>
      <3>1. PICK zero : Zeros(group_names, n, zero) /\ NotPast(name_at, i, n, zero)
        BY <1>0, <2>1, <2>5 DEF HasZeros, Unwritten
      <3>2. \A k \in 1..n : zero[k] \in 1..Len(group_names) /\ group_names[zero[k]] = 0
        BY <3>1 DEF Zeros
      <3>3. name_at' \in Nat /\ (name_at' # NULL => name_at' >= 1)
            /\ (i + 1 \in 1..n => name_at' <= zero[i + 1])
        <4>1. CASE ~NamesHere /\ i = 0
          <5>1. name_at' = name_at /\ name_at <= 1
            BY <2>1, <3>1, <4>1 DEF NotPast
          <5> QED
            BY <2>2, <3>2, <4>1, <5>1 DEF NULL
        <4>2. CASE ~NamesHere /\ i # 0
          <5>1. name_at' = 0
            BY <2>1, <2>2, <4>2 DEF NamesHere, NULL
          <5> QED
            BY <2>2, <3>2, <5>1 DEF NULL
        <4>3. CASE NamesHere
          <5>1. i \in 1..n /\ name_at >= 1
            BY <2>2, <2>3, <4>3 DEF NamesHere, NULL
          <5>2. zero[i] \in name_at..Len(group_names) /\ group_names[zero[i]] = 0
            <6>1. name_at <= zero[i]
              BY <3>1, <5>1 DEF NotPast
            <6> QED
              BY <2>2, <3>2, <5>1, <6>1
          <5>3. name_at' \in (name_at + 1)..(zero[i] + 1)
            BY <2>1, <2>2, <4>3, <5>1, <5>2, PastString
          <5>4. i + 1 \in 1..n => zero[i] < zero[i + 1]
            BY <2>3, <3>1, <5>1 DEF Zeros
          <5> QED
            <6>1. zero[i] \in Int /\ (i + 1 \in 1..n => zero[i + 1] \in Int)
              BY <3>2, <5>1
            <6>2. name_at' \in Nat /\ name_at' >= 1 /\ name_at' <= zero[i] + 1
              BY <2>2, <5>3, <6>1
            <6> QED
              BY <5>4, <6>1, <6>2
        <4> QED
          BY <4>1, <4>2, <4>3
      <3>4. NotPast(name_at', i', n, zero)
        BY <2>1, <2>2, <3>3 DEF NotPast
      <3>5. HasZeros'
        BY <2>1, <3>1, <3>4 DEF HasZeros
      <3>6. NameAtOK'
        BY <2>1, <2>5, <3>3 DEF NameAtOK, Unwritten
      <3> QED
        BY <1>0, <1>9, <2>1, <2>3, <3>3, <3>5, <3>6, PushTypes DEF IInv
    <2> QED
      BY <2>4, <2>5
  <1>10. ASSUME Return PROVE IInv'
    <2> USE <1>10 DEF Return, execVars
    <2>1. TypeOK'
      BY <1>0 DEF TypeOK
    <2>2. HasZeros'
      BY SameGroups
    <2>3. NameAtOK'
      BY <1>0 DEF NameAtOK, Unwritten
    <2> QED
      BY <1>0, <2>1, <2>2, <2>3 DEF IInv
  <1>11. ASSUME UNCHANGED vars PROVE IInv'
    BY <1>11 DEF vars, IInv, TypeOK, HasZeros, NameAtOK, Unwritten
  <1> QED
    BY <1>1, <1>2, <1>3, <1>4, <1>5, <1>6, <1>7, <1>8, <1>9, <1>10, <1>11
    DEF Next, Parse, Exec

--------------------------------------------------------------------------------
(***************************************************************************)
(* The theorems.                                                           *)
(***************************************************************************)
\* For every pattern the variables have their types; the number of groups, which
\* is one byte in the header, stays below the limit.
THEOREM TypeCorrect == Spec => []TypeOK
  <1>1. IInv => TypeOK
    BY DEF IInv
  <1> QED
    BY InitIInv, NextIInv, <1>1, PTL DEF Spec

\* What the walk takes ends inside the names.
LEMMA Inside == IInv => InsideNames
  <1>1. SUFFICES ASSUME IInv, status = "exec", NamesHere, ~NoNames, i < capture_count
                 PROVE  \E e \in name_at..Len(group_names) : group_names[e] = 0
    BY DEF InsideNames
  <1>2. i \in Nat /\ i > 0 /\ name_at \in Nat /\ capture_count \in Nat
    BY <1>1, NamesAssumption DEF IInv, TypeOK, NamesHere
  <1>3. ~Unwritten
    BY <1>1 DEF NoNames, Unwritten
  <1>4. PICK zero : /\ Zeros(group_names, capture_count - 1, zero)
                    /\ NotPast(name_at, i, capture_count - 1, zero)
    BY <1>1, <1>3 DEF IInv, HasZeros
  <1>5. i \in 1..(capture_count - 1)
    BY <1>1, <1>2
  <1>6. zero[i] \in 1..Len(group_names) /\ group_names[zero[i]] = 0 /\ name_at <= zero[i]
    BY <1>4, <1>5 DEF Zeros, NotPast
  <1> QED
    BY <1>2, <1>6

\* For every pattern and match: when the walk of regexp_exec reads the name of a
\* group, a zero ends the string before the end of the names.
THEOREM WalkStaysInside == Spec => []InsideNames
  BY InitIInv, NextIInv, Inside, PTL DEF Spec

--------------------------------------------------------------------------------
(***************************************************************************)
(* The numbers of groups.                                                  *)
(***************************************************************************)
LEMMA OpenFinite ==
  ASSUME NEW t, NEW j \in Nat
  PROVE  /\ IsFiniteSet({h \in 1..j : IsOpen(t[h])})
         /\ Number(t, j) \in Nat
  <1>1. IsFiniteSet(1..j)
    BY FS_Interval
  <1>2. IsFiniteSet({h \in 1..j : IsOpen(t[h])})
    BY <1>1, FS_Subset
  <1> QED
    BY <1>2, FS_CardinalityType DEF Number

LEMMA NumberStep ==
  ASSUME NEW t, NEW j \in Nat
  PROVE  Number(t, j + 1) = IF IsOpen(t[j + 1]) THEN Number(t, j) + 1 ELSE Number(t, j)
  <1> DEFINE S == {h \in 1..j : IsOpen(t[h])}
             R == {h \in 1..(j + 1) : IsOpen(t[h])}
  <1>1. IsFiniteSet(S) /\ j + 1 \notin S
    <2>1. IsFiniteSet(S)
      BY OpenFinite
    <2>2. j + 1 \notin 1..j
      OBVIOUS
    <2> QED
      BY <2>1, <2>2
  <1>2. R = IF IsOpen(t[j + 1]) THEN S \cup {j + 1} ELSE S
    OBVIOUS
  <1> HIDE DEF S, R
  <1>3. Cardinality(S \cup {j + 1}) = Cardinality(S) + 1
    BY <1>1, FS_AddElement
  <1> QED
    BY <1>2, <1>3 DEF Number, S, R

--------------------------------------------------------------------------------
(***************************************************************************)
(* The records of the buffer, read one after the other.                    *)
(***************************************************************************)
\* A record of name lies at p, the next one at q.
RecordAt(s, p, q, name) ==
  /\ p \in Nat /\ p >= 1
  /\ q = p + Len(name) + 2
  /\ q <= Len(s) + 1
  /\ \A x \in 1..Len(name) : s[p + x - 1] = name[x]
  /\ s[p + Len(name)] = 0

LEMMA RecordRead ==
  ASSUME NEW s \in Seq(Byte), NEW name \in Seq(Letters), NEW p, NEW q, RecordAt(s, p, q, name)
  PROVE  /\ StrEnd(s, p) = p + Len(name)
         /\ CString(s, p) = name
         /\ PastRecord(s, p) = q
  <1> DEFINE n == Len(name)
             e == p + n
  <1>1. /\ n \in Nat /\ p \in Nat /\ p >= 1 /\ e \in p..Len(s) /\ Len(s) \in Nat
        /\ s[e] = 0 /\ q = e + 2
        /\ \A x \in 1..n : s[p + x - 1] = name[x]
    BY DEF RecordAt
  <1>2. \A x \in 1..n : name[x] # 0 /\ name[x] \in Letters
    <2>1. \A x \in 1..n : name[x] \in Letters
      BY ElementOfSeq
    <2>2. \A y \in Letters : y # 0
      BY DEF Letters
    <2> QED
      BY <2>1, <2>2
  <1> HIDE DEF n
  <1>3. \A x \in p..(e - 1) : s[x] # 0
    <2> TAKE x \in p..(e - 1)
    <2>1. x - p + 1 \in 1..n /\ p + (x - p + 1) - 1 = x
      BY <1>1
    <2> QED
      BY <1>1, <1>2, <2>1
  <1>4. \A f \in p..Len(s) : s[f] = 0 /\ (\A x \in p..(f - 1) : s[x] # 0) => f = e
    <2> SUFFICES ASSUME NEW f \in p..Len(s), s[f] = 0, \A x \in p..(f - 1) : s[x] # 0
                 PROVE  f = e
      OBVIOUS
    <2>1. ~(f < e)
      BY <1>1, <1>3
    <2>2. ~(e < f)
      BY <1>1
    <2> QED
      BY <1>1, <2>1, <2>2
  <1>5. StrEnd(s, p) = e
    BY <1>1, <1>3, <1>4 DEF StrEnd
  <1>6. CString(s, p) = name
    <2> DEFINE c == SubSeq(s, p, e - 1)
    <2>1. \A x \in p..(e - 1) : s[x] \in Byte
      BY <1>1, ElementOfSeq
    <2>2. /\ c \in Seq(Byte)
          /\ Len(c) = IF p <= e - 1 THEN (e - 1) - p + 1 ELSE 0
          /\ \A x \in 1..((e - 1) - p + 1) : c[x] = s[p + x - 1]
      BY <1>1, <2>1, SubSeqProperties
    <2>3. Len(c) = n /\ (e - 1) - p + 1 = n
      BY <1>1, <2>2
    <2>4. \A x \in 1..n : c[x] = name[x]
      BY <1>1, <2>2, <2>3
    <2>5. CString(s, p) = c
      BY <1>5 DEF CString
    <2> HIDE DEF c
    <2>6. c = name
      BY <2>2, <2>3, <2>4, SeqEqual DEF n
    <2> QED
      BY <2>5, <2>6
  <1> QED
    BY <1>1, <1>5, <1>6 DEF PastRecord, LRE_GROUP_NAME_TRAILER_LEN, n

\* The records of the names nm[1], ..., nm[n] fill the buffer.
Records(s, n, pos, nm) ==
  /\ n \in Nat
  /\ pos \in [0..n -> Nat] /\ pos[0] = 1 /\ pos[n] = Len(s) + 1
  /\ nm \in [1..n -> Seq(Letters)]
  /\ \A k \in 1..n : RecordAt(s, pos[k - 1], pos[k], nm[k])
  /\ \A k \in 0..n : k < pos[k]

\* A recursive function on numbers is the one function that satisfies its equation:
\* where another one differs first, both are computed from the same.
LEMMA StartIs ==
  ASSUME NEW s \in Seq(Byte), NEW n, NEW pos, NEW nm, Records(s, n, pos, nm)
  PROVE  /\ n <= Len(s)
         /\ \A k \in 0..n : RecordStart(s)[k] = pos[k]
         /\ \A k \in n..Len(s) : RecordStart(s)[k] = Len(s) + 1
  <1> DEFINE N == Len(s)
             g == [k \in 0..N |-> IF k <= n THEN pos[k] ELSE N + 1]
             Next1(f, k) == IF k = 0 THEN 1
                            ELSE IF f[k - 1] > N THEN f[k - 1] ELSE PastRecord(s, f[k - 1])
             f1 == RecordStart(s)
  <1>1. /\ N \in Nat /\ n \in Nat /\ n <= N
        /\ pos[0] = 1 /\ pos[n] = N + 1
        /\ \A k \in 0..n : pos[k] \in Nat
    BY DEF Records
  <1>2. \A k \in 1..n : pos[k - 1] <= N /\ PastRecord(s, pos[k - 1]) = pos[k]
    <2> TAKE k \in 1..n
    <2>1. RecordAt(s, pos[k - 1], pos[k], nm[k]) /\ nm[k] \in Seq(Letters)
      BY DEF Records
    <2>2. Len(nm[k]) \in Nat
      BY <2>1
    <2>3. pos[k - 1] <= N
      BY <1>1, <2>1, <2>2 DEF RecordAt
    <2> QED
      BY <2>1, <2>3, RecordRead
  <1> HIDE DEF N
  <1>3. g = [k \in 0..N |-> Next1(g, k)]
    <2>1. \A k \in 0..N : g[k] = Next1(g, k)
      <3> TAKE k \in 0..N
      <3>1. CASE k = 0
        BY <1>1, <3>1
      <3>2. CASE k \in 1..n
        <4>1. k - 1 \in 0..N /\ k - 1 \in 0..n /\ k # 0 /\ k <= n /\ k - 1 <= n
          BY <1>1, <3>2
        <4>2. g[k] = pos[k] /\ g[k - 1] = pos[k - 1]
          BY <4>1
        <4>3. ~(pos[k - 1] > N)
          <5>1. pos[k - 1] \in Nat /\ pos[k - 1] <= N
            <6> HIDE DEF g, f1, Next1
            <6> QED
              BY <1>1, <1>2, <3>2, <4>1
          <5> QED
            BY <5>1, <1>1
        <4> HIDE DEF g
        <4> QED
          BY <1>2, <3>2, <4>1, <4>2, <4>3
      <3>3. CASE k \in (n + 1)..N
        <4>1. k - 1 \in 0..N /\ k # 0 /\ ~(k <= n) /\ (k - 1 <= n => k - 1 = n)
          BY <1>1, <3>3
        <4>2. g[k] = N + 1 /\ g[k - 1] = N + 1
          BY <1>1, <4>1
        <4> HIDE DEF g
        <4> QED
          BY <1>1, <4>1, <4>2
      <3> QED
        BY <1>1, <3>1, <3>2, <3>3
    <2>2. g = [k \in 0..N |-> g[k]]
      OBVIOUS
    <2> HIDE DEF g, Next1
    <2> QED
      BY <2>1, <2>2
  <1>4. f1 = [k \in 0..N |-> Next1(f1, k)]
    <2>1. f1 = CHOOSE f : f = [k \in 0..N |-> Next1(f, k)]
      BY DEF RecordStart, N
    <2> HIDE DEF f1, g, Next1
    <2> QED
      BY <1>3, <2>1
  <1> HIDE DEF g, f1
  <1>5. \A k \in 0..N : f1[k] = g[k]
    <2> DEFINE D == {k \in 0..N : f1[k] # g[k]}
    <2>1. SUFFICES D = {}
      OBVIOUS
    <2>2. SUFFICES ASSUME D # {} PROVE FALSE
      OBVIOUS
    <2>3. PICK k \in D : \A h \in D : k <= h
      <3>1. D \subseteq 0..N
        OBVIOUS
      <3> HIDE DEF D
      <3> QED
        BY <1>1, <2>2, <3>1, Least
    <2>4. k \in 0..N /\ f1[k] # g[k]
      OBVIOUS
    <2>5. k = 0 \/ k - 1 \in 0..N
      BY <1>1, <2>4
    <2>6. k # 0 => f1[k - 1] = g[k - 1]
      BY <1>1, <2>3, <2>4, <2>5
    <2>7. f1[k] = Next1(f1, k) /\ g[k] = Next1(g, k)
      <3> HIDE DEF Next1
      <3> QED
        BY <1>3, <1>4, <2>4
    <2> HIDE DEF D
    <2>8. Next1(f1, k) = Next1(g, k)
      BY <2>6
    <2> HIDE DEF Next1
    <2> QED
      BY <2>4, <2>7, <2>8
  <1>6. \A k \in 0..n : g[k] = pos[k]
    BY <1>1 DEF g
  <1>7. \A k \in n..N : g[k] = N + 1
    BY <1>1 DEF g
  <1> QED
    <2>1. \A k \in 0..n : k \in 0..N
      BY <1>1
    <2>2. \A k \in n..N : k \in 0..N
      BY <1>1
    <2> QED
      BY <1>1, <1>5, <1>6, <1>7, <2>1, <2>2 DEF f1, N

\* find_group_name gives the numbers of the records of a name, and behind the name
\* of each lies its scope.
LEMMA FoundExactly ==
  ASSUME NEW s \in Seq(Byte), NEW n, NEW pos, NEW nm, Records(s, n, pos, nm), NEW name
  PROVE  /\ find_group_name(s, name) = {k \in 1..n : nm[k] = name}
         /\ \A k \in 1..n : StrEnd(s, RecordStart(s)[k - 1]) + 1 = pos[k] - 1
  <1>1. /\ n \in Nat /\ Len(s) \in Nat /\ n <= Len(s)
        /\ \A k \in 0..n : RecordStart(s)[k] = pos[k]
        /\ \A k \in n..Len(s) : RecordStart(s)[k] = Len(s) + 1
    <2>1. n \in Nat /\ Len(s) \in Nat
      BY DEF Records
    <2>2. /\ n <= Len(s)
          /\ \A k \in 0..n : RecordStart(s)[k] = pos[k]
          /\ \A k \in n..Len(s) : RecordStart(s)[k] = Len(s) + 1
      BY StartIs
    <2> QED
      BY <2>1, <2>2
  <1>2. \A k \in 1..n : /\ k \in 1..Len(s)
                        /\ RecordStart(s)[k - 1] = pos[k - 1]
                        /\ pos[k - 1] <= Len(s)
                        /\ CString(s, pos[k - 1]) = nm[k]
                        /\ StrEnd(s, pos[k - 1]) + 1 = pos[k] - 1
    <2> TAKE k \in 1..n
    <2>1. k \in 1..Len(s) /\ k - 1 \in 0..n
      BY <1>1
    <2>2. RecordAt(s, pos[k - 1], pos[k], nm[k]) /\ nm[k] \in Seq(Letters)
      BY DEF Records
    <2>3. Len(nm[k]) \in Nat
      BY <2>2
    <2>4. /\ pos[k - 1] <= Len(s)
          /\ (pos[k - 1] + Len(nm[k])) + 1 = pos[k] - 1
      BY <1>1, <2>2, <2>3 DEF RecordAt
    <2>5. CString(s, pos[k - 1]) = nm[k] /\ StrEnd(s, pos[k - 1]) = pos[k - 1] + Len(nm[k])
      BY <2>2, RecordRead
    <2> QED
      BY <1>1, <2>1, <2>4, <2>5
  <1>3. \A k \in 1..Len(s) : k \in 1..n \/ RecordStart(s)[k - 1] > Len(s)
    <2> TAKE k \in 1..Len(s)
    <2>1. k \in 1..n \/ k - 1 \in n..Len(s)
      BY <1>1
    <2> QED
      BY <1>1, <2>1
  <1>4. ASSUME NEW k \in 1..Len(s)
        PROVE  RecordStart(s)[k - 1] <= Len(s) /\ CString(s, RecordStart(s)[k - 1]) = name
                 <=> k \in 1..n /\ nm[k] = name
    <2>1. CASE k \in 1..n
      BY <1>2, <2>1
    <2>2. CASE k \notin 1..n
      <3>1. RecordStart(s)[k - 1] = Len(s) + 1
        <4>1. k - 1 \in n..Len(s)
          BY <1>1, <2>2
        <4> QED
          BY <1>1, <4>1
      <3> QED
        BY <1>1, <2>2, <3>1
    <2> QED
      BY <2>1, <2>2
  <1> QED
    BY <1>2, <1>4 DEF find_group_name

LEMMA NoRecords == Records(<<>>, 0, [k \in 0..0 |-> 1], [k \in 1..0 |-> <<>>])
  BY DEF Records, RecordAt

\* One number more.
LEMMA OneMore ==
  ASSUME NEW n \in Nat
  PROVE  /\ 0..(n + 1) = 0..n \cup {n + 1} /\ n + 1 \notin 0..n
         /\ 1..(n + 1) = 1..n \cup {n + 1} /\ n + 1 \notin 1..n
  OBVIOUS

\* One record more.
Extended(s, n, pos, nm, name, c, last) ==
  LET b == s \o Record(name, c)
      p == With(pos, n + 1, last)
  IN /\ Records(b, n + 1, p, With(nm, n + 1, name))
     /\ name # Unnamed => b[p[n + 1] - 1] = c
     /\ \A k \in 1..n : b[p[k] - 1] = s[pos[k] - 1]

LEMMA RecordAdded ==
  ASSUME NEW s \in Seq(Byte), NEW n, NEW pos, NEW nm, Records(s, n, pos, nm),
         NEW name \in Seq(Letters), NEW c \in Byte,
         NEW last, last = Len(s) + Len(name) + 3
  PROVE  Extended(s, n, pos, nm, name, c, last)
  <1> DEFINE r == Record(name, c)
             b == s \o r
             N == Len(s)
             L == Len(name)
             p == With(pos, n + 1, last)
             m == With(nm, n + 1, name)
  <1>1. /\ r \in Seq(Byte) /\ Len(r) = L + 2 /\ r[L + 1] = 0
        /\ \A x \in 1..L : r[x] = name[x]
        /\ name # Unnamed => r[L + 2] = c
    BY RecordFacts
  <1>2. N \in Nat /\ L \in Nat
    OBVIOUS
  <1> HIDE DEF r
  <1>3. /\ Len(b) = N + (L + 2)
        /\ \A x \in 1..N : b[x] = s[x]
        /\ \A x \in 1..(L + 2) : b[N + x] = r[x]
    <2>1. /\ Len(b) = Len(s) + Len(r)
          /\ \A x \in 1..(Len(s) + Len(r)) : b[x] = IF x <= Len(s) THEN s[x] ELSE r[x - Len(s)]
      BY <1>1, ConcatProperties
    <2> HIDE DEF b, L, N
    <2>2. \A x \in 1..(N + (L + 2)) : b[x] = IF x <= N THEN s[x] ELSE r[x - N]
      BY <1>1, <2>1 DEF N
    <2>3. \A x \in 1..N : x \in 1..(N + (L + 2)) /\ x <= N
      BY <1>2
    <2>4. \A x \in 1..(L + 2) : N + x \in 1..(N + (L + 2)) /\ ~(N + x <= N) /\ (N + x) - N = x
      BY <1>2
    <2> QED
      BY <1>1, <2>1, <2>2, <2>3, <2>4 DEF N
  <1>4. /\ n \in Nat
        /\ pos[0] = 1 /\ pos[n] = N + 1
        /\ \A k \in 0..n : pos[k] \in Nat /\ k < pos[k]
        /\ \A k \in 1..n : nm[k] \in Seq(Letters) /\ RecordAt(s, pos[k - 1], pos[k], nm[k])
    BY DEF Records
  <1> HIDE DEF b, N, L
  <1>5. /\ \A k \in 0..n : p[k] = pos[k]
        /\ p[n + 1] = N + L + 3
        /\ p \in [0..(n + 1) -> Nat]
    <2>1. DOMAIN pos = 0..n /\ n + 1 \notin 0..n /\ 0..(n + 1) = 0..n \cup {n + 1}
      BY <1>4, OneMore DEF Records
    <2>2. last = N + L + 3 /\ last \in Nat
      BY <1>2 DEF N, L
    <2>3. p[n + 1] = last
      BY <2>1 DEF With
    <2>4. \A k \in 0..n : p[k] = pos[k]
      BY <2>1 DEF With
    <2>5. p \in [0..n \cup {n + 1} -> Nat]
      BY <1>4, <2>1, <2>2 DEF With
    <2> QED
      BY <2>1, <2>2, <2>3, <2>4, <2>5
  <1>6. /\ \A k \in 1..n : m[k] = nm[k]
        /\ m[n + 1] = name
        /\ m \in [1..(n + 1) -> Seq(Letters)]
    <2>1. DOMAIN nm = 1..n /\ n + 1 \notin 1..n /\ 1..(n + 1) = 1..n \cup {n + 1}
      BY <1>4, OneMore DEF Records
    <2>2. m[n + 1] = name
      BY <2>1 DEF With
    <2>3. \A k \in 1..n : m[k] = nm[k]
      BY <2>1 DEF With
    <2>4. m \in [1..n \cup {n + 1} -> Seq(Letters)]
      BY <1>4, <2>1 DEF With
    <2> QED
      BY <2>1, <2>2, <2>3, <2>4
  <1> HIDE DEF p, m
  <1>7. ASSUME NEW k \in 1..n
        PROVE  /\ RecordAt(b, p[k - 1], p[k], m[k])
               /\ b[p[k] - 1] = s[pos[k] - 1]
    <2>1. k \in 0..n /\ k - 1 \in 0..n
      BY <1>4
    <2>2. p[k] = pos[k] /\ p[k - 1] = pos[k - 1] /\ m[k] = nm[k]
      BY <1>5, <1>6, <2>1
    <2> DEFINE l == Len(nm[k])
               u == pos[k - 1]
    <2>3. l \in Nat
      BY <1>4
    <2>4. /\ u \in Nat /\ u >= 1 /\ pos[k] = u + l + 2 /\ pos[k] <= N + 1
          /\ \A x \in 1..l : s[u + x - 1] = nm[k][x]
          /\ s[u + l] = 0
      BY <1>4 DEF RecordAt, N
    <2> HIDE DEF l, u
    <2>5. \A x \in 1..N : b[x] = s[x]
      BY <1>3
    <2>6. \A x \in 1..l : u + x - 1 \in 1..N
      BY <1>2, <2>3, <2>4
    <2>7. u + l \in 1..N /\ pos[k] - 1 \in 1..N
      BY <1>2, <2>3, <2>4
    <2>8. pos[k] <= Len(b) + 1
      BY <1>2, <1>3, <2>3, <2>4
    <2>9. RecordAt(b, u, pos[k], nm[k])
      BY <2>3, <2>4, <2>5, <2>6, <2>7, <2>8 DEF RecordAt, l
    <2> QED
      BY <2>2, <2>5, <2>7, <2>9 DEF u
  <1>8. RecordAt(b, p[n], p[n + 1], m[n + 1])
    <2>1. p[n] = N + 1 /\ p[n + 1] = p[n] + L + 2
      BY <1>2, <1>4, <1>5
    <2>2. \A x \in 1..L : b[N + 1 + x - 1] = name[x]
      <3> TAKE x \in 1..L
      <3>1. N + 1 + x - 1 = N + x /\ x \in 1..(L + 2)
        BY <1>2
      <3> QED
        BY <1>1, <1>3, <3>1
    <2>3. b[N + 1 + L] = 0
      <3>1. N + 1 + L = N + (L + 1) /\ L + 1 \in 1..(L + 2)
        BY <1>2
      <3> QED
        BY <1>1, <1>3, <3>1
    <2>4. p[n + 1] <= Len(b) + 1
      BY <1>2, <1>3, <1>5
    <2> QED
      BY <1>2, <1>6, <2>1, <2>2, <2>3, <2>4 DEF RecordAt, L
  <1>9. name # Unnamed => b[p[n + 1] - 1] = c
    <2>1. p[n + 1] - 1 = N + (L + 2)
      BY <1>2, <1>5
    <2>2. L + 2 \in 1..(L + 2)
      BY <1>2
    <2> QED
      BY <1>1, <1>3, <2>1, <2>2
  <1>10. Records(b, n + 1, p, m)
    <2>1. n + 1 \in Nat /\ p[0] = 1 /\ p[n + 1] = Len(b) + 1
      <3>1. 0 \in 0..n
        BY <1>4
      <3>2. Len(b) + 1 = N + L + 3
        BY <1>2, <1>3
      <3> QED
        BY <1>4, <1>5, <3>1, <3>2
    <2>2. \A k \in 1..(n + 1) : RecordAt(b, p[k - 1], p[k], m[k])
      <3>1. \A k \in 1..(n + 1) : k \in 1..n \/ (k = n + 1 /\ k - 1 = n)
        BY <1>4
      <3> QED
        BY <1>7, <1>8, <3>1
    <2>3. \A k \in 0..(n + 1) : k < p[k]
      <3>1. \A k \in 0..n : k < p[k]
        BY <1>4, <1>5
      <3>2. n < N + 1
        BY <1>4
      <3>3. n + 1 < p[n + 1]
        BY <1>2, <1>4, <1>5, <3>2
      <3>4. \A k \in 0..(n + 1) : k \in 0..n \/ k = n + 1
        BY <1>4
      <3> QED
        BY <3>1, <3>3, <3>4
    <2> QED
      BY <1>5, <1>6, <2>1, <2>2, <2>3 DEF Records
  <1> QED
    BY <1>7, <1>9, <1>10 DEF Extended, b, r, p, m

--------------------------------------------------------------------------------
(***************************************************************************)
(* The groups, their tokens and their records.                             *)
(***************************************************************************)
Opened(t, a) == {j \in 1..a : IsOpen(t[j])}

\* Of the first a tokens t, group k was opened by tok[k], n groups in all.
Groups(t, a, n, tok) ==
  /\ n \in Nat
  /\ Number(t, a) = n
  /\ tok \in [1..n -> Opened(t, a)]
  /\ \A k \in 1..n : Number(t, tok[k]) = k
  /\ \A j \in Opened(t, a) : Number(t, j) \in 1..n /\ tok[Number(t, j)] = j

NamesOf(t, n, tok) == [k \in 1..n |-> t[tok[k]].name]

\* A name keeps the scope of the time it was read; that is the present one until a bar.
InScope(t, a, n, tok, s, pos, c) ==
  \A k \in 1..n :
    t[tok[k]].name # Unnamed /\ (\A b \in (tok[k] + 1)..a : t[b] # Bar) => s[pos[k] - 1] = c

Recorded(t, a, n, tok, s, pos, c) ==
  /\ Groups(t, a, n, tok)
  /\ Records(s, n, pos, NamesOf(t, n, tok))
  /\ InScope(t, a, n, tok, s, pos, c)

LEMMA NoneRecorded ==
  ASSUME NEW t, NEW c
  PROVE  \E tok, pos : Recorded(t, 0, 0, tok, <<>>, pos, c)
  <1> DEFINE tok == [k \in 1..0 |-> 0]
  <1>1. Number(t, 0) = 0
    <2>1. {h \in 1..0 : IsOpen(t[h])} = {}
      OBVIOUS
    <2> QED
      BY <2>1, FS_EmptySet DEF Number
  <1>2. Groups(t, 0, 0, tok)
    BY <1>1 DEF Groups, Opened
  <1>3. NamesOf(t, 0, tok) = [k \in 1..0 |-> <<>>]
    BY DEF NamesOf
  <1>4. InScope(t, 0, 0, tok, <<>>, [k \in 0..0 |-> 1], c)
    BY DEF InScope
  <1> QED
    BY <1>2, <1>3, <1>4, NoRecords DEF Recorded

\* A token that opens no group changes nothing; after a bar the scope may be another.
LEMMA PassedOver ==
  ASSUME NEW t, NEW a \in Nat, NEW n, NEW tok, NEW s, NEW pos, NEW c, NEW d,
         Recorded(t, a, n, tok, s, pos, c),
         ~IsOpen(t[a + 1]), t[a + 1] = Bar \/ d = c
  PROVE  Recorded(t, a + 1, n, tok, s, pos, d)
  <1>1. Number(t, a + 1) = Number(t, a)
    BY NumberStep
  <1>2. Opened(t, a + 1) = Opened(t, a)
    BY DEF Opened
  <1>3. Groups(t, a + 1, n, tok)
    BY <1>1, <1>2 DEF Recorded, Groups
  <1>4. \A k \in 1..n : tok[k] \in 1..a
    <2>1. \A k \in 1..n : tok[k] \in Opened(t, a)
      BY DEF Recorded, Groups
    <2> QED
      BY <2>1 DEF Opened
  <1>5. InScope(t, a + 1, n, tok, s, pos, d)
    <2>1. SUFFICES ASSUME NEW k \in 1..n, t[tok[k]].name # Unnamed,
                          \A b \in (tok[k] + 1)..(a + 1) : t[b] # Bar
                   PROVE  s[pos[k] - 1] = d
      BY DEF InScope
    <2>2. a + 1 \in (tok[k] + 1)..(a + 1) /\ \A b \in (tok[k] + 1)..a : b \in (tok[k] + 1)..(a + 1)
      BY <1>4
    <2>3. d = c
      BY <2>1, <2>2
    <2> QED
      BY <2>1, <2>2, <2>3 DEF Recorded, InScope
  <1> QED
    BY <1>3, <1>5 DEF Recorded

\* A token that opens a group gives it the next number, and its record is the last.
LEMMA GroupAdded ==
  ASSUME NEW t, NEW a \in Nat, NEW n, NEW tok, Groups(t, a, n, tok), IsOpen(t[a + 1])
  PROVE  /\ Groups(t, a + 1, n + 1, With(tok, n + 1, a + 1))
         /\ NamesOf(t, n + 1, With(tok, n + 1, a + 1)) =
              With(NamesOf(t, n, tok), n + 1, t[a + 1].name)
  <1> DEFINE tok1 == With(tok, n + 1, a + 1)
  <1>1. n \in Nat /\ Number(t, a + 1) = n + 1
    BY NumberStep DEF Groups
  <1>2. Opened(t, a + 1) = Opened(t, a) \cup {a + 1}
    BY DEF Opened
  <1>3. /\ \A k \in 1..n : tok1[k] = tok[k]
        /\ tok1[n + 1] = a + 1
        /\ \A k \in 1..(n + 1) : k \in 1..n \/ k = n + 1
    <2>1. DOMAIN tok = 1..n /\ n + 1 \notin 1..n /\ 1..(n + 1) = 1..n \cup {n + 1}
      BY <1>1, OneMore DEF Groups
    <2>2. tok1[n + 1] = a + 1
      BY <2>1 DEF With
    <2>3. \A k \in 1..n : tok1[k] = tok[k]
      BY <2>1 DEF With
    <2> QED
      BY <2>1, <2>2, <2>3
  <1> HIDE DEF tok1
  <1>4. \A k \in 1..n : tok[k] \in Opened(t, a) /\ Number(t, tok[k]) = k
    BY DEF Groups
  <1>5. \A k \in 1..(n + 1) : tok1[k] \in Opened(t, a + 1) /\ Number(t, tok1[k]) = k
    BY <1>1, <1>2, <1>3, <1>4
  <1>6. \A j \in Opened(t, a + 1) : Number(t, j) \in 1..(n + 1) /\ tok1[Number(t, j)] = j
    <2> TAKE j \in Opened(t, a + 1)
    <2>1. CASE j \in Opened(t, a)
      <3>1. Number(t, j) \in 1..n /\ tok[Number(t, j)] = j
        BY <2>1 DEF Groups
      <3>2. Number(t, j) \in 1..(n + 1)
        BY <1>1, <3>1
      <3> QED
        BY <1>3, <3>1, <3>2
    <2>2. CASE j = a + 1
      BY <1>1, <1>3, <2>2
    <2> QED
      BY <1>2, <2>1, <2>2
  <1>7. tok1 \in [1..(n + 1) -> Opened(t, a + 1)]
    <2>1. DOMAIN tok1 = 1..(n + 1) /\ tok1 = [k \in DOMAIN tok1 |-> tok1[k]]
      BY <1>1, OneMore DEF With, Groups, tok1
    <2> QED
      BY <1>5, <2>1
  <1>8. NamesOf(t, n + 1, tok1) = With(NamesOf(t, n, tok), n + 1, t[a + 1].name)
    <2>1. \A k \in 1..(n + 1) :
            t[tok1[k]].name = IF k = n + 1 THEN t[a + 1].name ELSE NamesOf(t, n, tok)[k]
      BY <1>1, <1>3, OneMore DEF NamesOf
    <2>2. DOMAIN NamesOf(t, n, tok) \cup {n + 1} = 1..(n + 1)
      BY <1>1, OneMore DEF NamesOf
    <2>3. NamesOf(t, n + 1, tok1) = [k \in 1..(n + 1) |-> t[tok1[k]].name]
      BY DEF NamesOf
    <2> QED
      BY <2>1, <2>2, <2>3 DEF With
  <1> QED
    BY <1>1, <1>5, <1>6, <1>7, <1>8 DEF Groups, tok1

LEMMA OneRecorded ==
  ASSUME NEW t, NEW a \in Nat, NEW n, NEW tok, NEW s \in Seq(Byte), NEW pos, NEW c \in Byte,
         Recorded(t, a, n, tok, s, pos, c), IsOpen(t[a + 1]), t[a + 1].name \in Seq(Letters)
  PROVE  \E tok1, pos1 : Recorded(t, a + 1, n + 1, tok1, s \o Record(t[a + 1].name, c), pos1, c)
  <1> DEFINE name == t[a + 1].name
             b == s \o Record(name, c)
             last == Len(s) + Len(name) + 3
             tok1 == With(tok, n + 1, a + 1)
             pos1 == With(pos, n + 1, last)
  <1>1. /\ n \in Nat
        /\ \A k \in 1..n : tok[k] \in 1..a
    BY DEF Recorded, Groups, Opened
  <1> HIDE DEF tok1, pos1
  <1>4. /\ Groups(t, a + 1, n + 1, tok1)
        /\ NamesOf(t, n + 1, tok1) = With(NamesOf(t, n, tok), n + 1, name)
    BY GroupAdded DEF Recorded, tok1
  <1>5. /\ Records(b, n + 1, pos1, NamesOf(t, n + 1, tok1))
        /\ name # Unnamed => b[pos1[n + 1] - 1] = c
        /\ \A k \in 1..n : b[pos1[k] - 1] = s[pos[k] - 1]
    <2>1. Records(s, n, pos, NamesOf(t, n, tok))
      BY DEF Recorded
    <2>2. name \in Seq(Letters)
      OBVIOUS
    <2> DEFINE nm == NamesOf(t, n, tok)
               m == NamesOf(t, n + 1, tok1)
    <2> HIDE DEF name, nm, m
    <2>3. Records(s, n, pos, nm) /\ m = With(nm, n + 1, name)
      BY <1>4, <2>1 DEF nm, m
    <2>5. /\ Records(s \o Record(name, c), n + 1, pos1, m)
          /\ name # Unnamed => (s \o Record(name, c))[pos1[n + 1] - 1] = c
          /\ \A k \in 1..n : (s \o Record(name, c))[pos1[k] - 1] = s[pos[k] - 1]
      <3>1. last = Len(s) + Len(name) + 3
        BY DEF last
      <3> HIDE DEF last
      <3>2. Extended(s, n, pos, nm, name, c, last)
        BY <2>2, <2>3, <3>1, RecordAdded
      <3> QED
        BY <2>3, <3>2 DEF pos1, Extended
    <2> QED
      BY <2>5 DEF m
  <1>6. /\ \A k \in 1..n : tok1[k] = tok[k]
        /\ tok1[n + 1] = a + 1
        /\ \A k \in 1..(n + 1) : k \in 1..n \/ k = n + 1
    <2>1. DOMAIN tok = 1..n /\ n + 1 \notin 1..n /\ 1..(n + 1) = 1..n \cup {n + 1}
      BY <1>1, OneMore DEF Recorded, Groups
    <2>2. tok1[n + 1] = a + 1
      BY <2>1 DEF tok1, With
    <2>3. \A k \in 1..n : tok1[k] = tok[k]
      BY <2>1 DEF tok1, With
    <2> QED
      BY <2>1, <2>2, <2>3
  <1> HIDE DEF b
  <1>7. InScope(t, a + 1, n + 1, tok1, b, pos1, c)
    <2>1. SUFFICES ASSUME NEW k \in 1..(n + 1), t[tok1[k]].name # Unnamed,
                          \A x \in (tok1[k] + 1)..(a + 1) : t[x] # Bar
                   PROVE  b[pos1[k] - 1] = c
      BY DEF InScope
    <2>2. CASE k = n + 1
      BY <1>5, <1>6, <2>1, <2>2
    <2>3. CASE k \in 1..n
      <3>1. \A x \in (tok[k] + 1)..a : x \in (tok[k] + 1)..(a + 1)
        BY <1>1, <2>3
      <3>2. s[pos[k] - 1] = c
        BY <1>6, <2>1, <2>3, <3>1 DEF Recorded, InScope
      <3> QED
        BY <1>5, <2>3, <3>2
    <2> QED
      BY <1>6, <2>2, <2>3
  <1>8. Recorded(t, a + 1, n + 1, tok1, b, pos1, c)
    BY <1>4, <1>5, <1>7 DEF Recorded
  <1> QED
    BY <1>8 DEF b

\* The groups of a name among the first a tokens.
NumbersIn(t, a, name) == {Number(t, j) : j \in {h \in Opened(t, a) : t[h].name = name}}

\* A name is found as the groups that were opened with it.
LEMMA FoundNamed ==
  ASSUME NEW t, NEW a, NEW n, NEW tok, NEW s \in Seq(Byte), NEW pos, NEW c,
         Recorded(t, a, n, tok, s, pos, c), NEW name
  PROVE  find_group_name(s, name) = NumbersIn(t, a, name)
  <1> DEFINE nm == NamesOf(t, n, tok)
  <1>1. Groups(t, a, n, tok) /\ Records(s, n, pos, nm)
    BY DEF Recorded
  <1>2. find_group_name(s, name) = {k \in 1..n : nm[k] = name}
    <2> HIDE DEF nm
    <2> QED
      BY <1>1, FoundExactly
  <1>3. \A k \in 1..n : nm[k] = t[tok[k]].name /\ tok[k] \in Opened(t, a) /\ Number(t, tok[k]) = k
    BY <1>1 DEF Groups, NamesOf
  <1>4. \A j \in Opened(t, a) : Number(t, j) \in 1..n /\ tok[Number(t, j)] = j
    BY <1>1 DEF Groups
  <1> HIDE DEF nm
  <1>5. ASSUME NEW k \in 1..n, nm[k] = name
        PROVE  k \in {Number(t, j) : j \in {h \in Opened(t, a) : t[h].name = name}}
    <2>1. tok[k] \in {h \in Opened(t, a) : t[h].name = name} /\ Number(t, tok[k]) = k
      BY <1>3, <1>5
    <2> QED
      BY <2>1
  <1>6. ASSUME NEW j \in Opened(t, a), t[j].name = name
        PROVE  Number(t, j) \in {k \in 1..n : nm[k] = name}
    BY <1>3, <1>4, <1>6
  <1> QED
    BY <1>2, <1>5, <1>6 DEF NumbersIn

\* A second group of a name, with no bar since the first, is a duplicate.
LEMMA FoundDuplicate ==
  ASSUME NEW t, NEW a, NEW n, NEW tok, NEW s \in Seq(Byte), NEW pos, NEW c,
         Recorded(t, a, n, tok, s, pos, c),
         NEW j \in Opened(t, a), t[j].name # Unnamed, \A b \in (j + 1)..a : t[b] # Bar
  PROVE  is_duplicate_group_name(s, t[j].name, c)
  <1> DEFINE nm == NamesOf(t, n, tok)
             k == Number(t, j)
  <1>1. Records(s, n, pos, nm) /\ k \in 1..n /\ tok[k] = j
    BY DEF Recorded, Groups
  <1>2. s[pos[k] - 1] = c
    BY <1>1 DEF Recorded, InScope
  <1>3. nm[k] = t[j].name
    BY <1>1 DEF NamesOf
  <1> HIDE DEF nm, k
  <1>4. /\ find_group_name(s, t[j].name) = {h \in 1..n : nm[h] = t[j].name}
        /\ \A h \in 1..n : StrEnd(s, RecordStart(s)[h - 1]) + 1 = pos[h] - 1
    BY <1>1, FoundExactly
  <1>5. k \in find_group_name(s, t[j].name)
    BY <1>1, <1>3, <1>4
  <1>6. s[StrEnd(s, RecordStart(s)[k - 1]) + 1] = c
    BY <1>1, <1>2, <1>4
  <1> QED
    BY <1>5, <1>6 DEF is_duplicate_group_name

--------------------------------------------------------------------------------
(***************************************************************************)
(* The second invariant: what the parser knows of the groups it has read,  *)
(* and of the references.                                                  *)
(***************************************************************************)
\* The groups of a name in the whole text.
Declared(name) ==
  {Number(pattern.tokens, j) :
     j \in {h \in DOMAIN pattern.tokens :
              IsOpen(pattern.tokens[h]) /\ pattern.tokens[h].name = name}}

Resolutions ==
  {r \in [at : Nat, name : Names, groups : SUBSET Nat] :
     r.groups # {} /\ r.groups \subseteq Declared(r.name)}

AllRecorded ==
  status = "parse" =>
    \E tok, pos :
      Recorded(pattern.tokens, at, capture_count - 1, tok, group_names, pos, scope)

RInv ==
  /\ AllRecorded
  /\ OneNamePerScope
  /\ refs \in Seq(Resolutions)
  /\ status = "compiled" => at = Len(pattern.tokens)

LEMMA RefFacts ==
  ASSUME pattern \in Patterns, at \in 0..Len(pattern.tokens), at < Len(pattern.tokens),
         Token.t = "ref"
  PROVE  Token.name \in Names
  <1>1. pattern.tokens \in Seq({Open(name) : name \in Names \cup {Unnamed}} \cup {Bar}
                                 \cup {Ref(name) : name \in Names})
    BY PatternsAssumption
  <1>2. at + 1 \in 1..Len(pattern.tokens)
    BY <1>1
  <1>3. Token \in {Open(name) : name \in Names \cup {Unnamed}} \cup {Bar}
                    \cup {Ref(name) : name \in Names}
    BY <1>1, <1>2, ElementOfSeq DEF Token
  <1>4. Token \in {Ref(name) : name \in Names}
    <2>1. Bar.t # "ref" /\ \A name \in Names \cup {Unnamed} : Open(name).t # "ref"
      BY DEF Bar, Open
    <2> QED
      BY <1>3, <2>1
  <1> QED
    BY <1>4 DEF Ref

\* What a reference is resolved to is declared somewhere in the text.
LEMMA ResolvedDeclared ==
  ASSUME IInv, RInv, status = "parse", at < Len(pattern.tokens)
  PROVE  Resolved \subseteq Declared(Token.name) /\ Resolved \subseteq Nat
  <1> DEFINE t == pattern.tokens
             name == Token.name
             n == capture_count - 1
  <1>1. Len(t) \in Nat /\ at \in Nat /\ at < Len(t) /\ group_names \in Seq(Byte)
    BY TokensLen DEF IInv, TypeOK
  <1>2. DOMAIN t = 1..Len(t)
    <2>1. t \in Seq({Open(x) : x \in Names \cup {Unnamed}} \cup {Bar} \cup {Ref(x) : x \in Names})
      BY PatternsAssumption DEF IInv
    <2> QED
      BY <2>1
  <1>3. \A j \in DOMAIN t : Number(t, j) \in Nat
    <2> TAKE j \in DOMAIN t
    <2>1. j \in Nat
      BY <1>2
    <2> HIDE DEF t
    <2> QED
      BY <2>1, OpenFinite
  <1>4. find_group_name(group_names, name) = NumbersIn(t, at, name)
    <2>1. PICK tok, pos : Recorded(t, at, n, tok, group_names, pos, scope)
      BY DEF RInv, AllRecorded
    <2> HIDE DEF t, name, n
    <2> QED
      BY <1>1, <2>1, FoundNamed
  <1>5. \A h \in Opened(t, at) : h \in DOMAIN t /\ IsOpen(t[h])
    BY <1>1, <1>2 DEF Opened
  <1>6. find_group_name(group_names, name) \subseteq Declared(name)
    <2> HIDE DEF name
    <2> QED
      BY <1>4, <1>5 DEF Declared, NumbersIn
  <1>7. re_parse_captures(t, name) \subseteq Declared(name)
    BY DEF re_parse_captures, Scanned, Declared
  <1>8. Resolved \subseteq Declared(name)
    BY <1>6, <1>7 DEF Resolved
  <1>9. Declared(name) \subseteq Nat
    BY <1>3 DEF Declared
  <1> QED
    BY <1>8, <1>9

LEMMA InitRInv == Init => RInv
  <1> SUFFICES ASSUME Init PROVE RInv
    OBVIOUS
  <1> USE DEF Init, InitParse
  <1>1. AllRecorded
    <2>1. at = 0 /\ capture_count - 1 = 0 /\ group_names = <<>>
      OBVIOUS
    <2>2. \E tok, pos : Recorded(pattern.tokens, 0, 0, tok, <<>>, pos, scope)
      BY NoneRecorded
    <2> QED
      BY <2>1, <2>2 DEF AllRecorded
  <1>2. OneNamePerScope
    BY DEF OneNamePerScope
  <1>3. refs \in Seq(Resolutions)
    OBVIOUS
  <1> QED
    BY <1>1, <1>2, <1>3 DEF RInv

\* A group that is opened has a bar between it and the last one of its name: else it
\* would have been refused.
LEMMA OpenedInScope ==
  ASSUME IInv, RInv, OpenGroup, at' = at + 1
  PROVE  OneNamePerScope'
  <1> DEFINE t == pattern.tokens
  <1>1. /\ status = "parse" /\ IsOpen(t[at + 1]) /\ Token = t[at + 1]
        /\ at \in Nat /\ group_names \in Seq(Byte) /\ t' = t
    <2>1. Len(t) \in Nat
      BY TokensLen DEF IInv
    <2> QED
      BY <2>1 DEF OpenGroup, Reading, Token, IsOpen, IInv, TypeOK
  <1> HIDE DEF t
  <1>2. SUFFICES ASSUME NEW j \in 1..(at + 1), NEW k \in 1..(at + 1),
                        j < k, IsOpen(t[j]), IsOpen(t[k]),
                        t[j].name = t[k].name, t[j].name # Unnamed
                 PROVE  \E b \in (j + 1)..(k - 1) : t[b] = Bar
    BY <1>1 DEF OneNamePerScope, t
  <1>3. CASE k \in 1..at
    <2>1. j \in 1..at
      BY <1>1, <1>2, <1>3
    <2> QED
      BY <1>2, <1>3, <2>1 DEF RInv, OneNamePerScope, t
  <1>4. CASE k = at + 1
    <2>1. j \in 1..at /\ k - 1 = at
      BY <1>1, <1>2, <1>4
    <2>2. j \in Opened(t, at)
      BY <1>2, <2>1 DEF Opened
    <2>3. ~is_duplicate_group_name(group_names, t[j].name, scope)
      BY <1>1, <1>2, <1>4 DEF OpenGroup
    <2>4. PICK n, tok, pos : Recorded(t, at, n, tok, group_names, pos, scope)
      BY <1>1 DEF RInv, AllRecorded, t
    <2>5. ~(\A b \in (j + 1)..at : t[b] # Bar)
      BY <1>1, <1>2, <2>2, <2>3, <2>4, FoundDuplicate
    <2> QED
      BY <2>1, <2>5
  <1> QED
    BY <1>1, <1>3, <1>4

\* A token that opens no group keeps the groups as they are.
LEMMA PassedInScope ==
  ASSUME at \in Nat, OneNamePerScope, ~IsOpen(Token), at' = at + 1, pattern' = pattern
  PROVE  OneNamePerScope'
  <1> DEFINE t == pattern.tokens
  <1> HIDE DEF t
  <1>1. SUFFICES ASSUME NEW j \in 1..(at + 1), NEW k \in 1..(at + 1),
                        j < k, IsOpen(t[j]), IsOpen(t[k]),
                        t[j].name = t[k].name, t[j].name # Unnamed
                 PROVE  \E b \in (j + 1)..(k - 1) : t[b] = Bar
    BY DEF OneNamePerScope, t
  <1>2. k # at + 1
    BY <1>1 DEF Token, t
  <1>3. j \in 1..at /\ k \in 1..at
    BY <1>1, <1>2
  <1> QED
    BY <1>1, <1>3 DEF OneNamePerScope, t

LEMMA NextRInv == IInv /\ RInv /\ [Next]_vars => RInv'
  <1> SUFFICES ASSUME IInv, RInv, [Next]_vars PROVE RInv'
    OBVIOUS
  <1> DEFINE t == pattern.tokens
             n == capture_count - 1
  <1>0. /\ pattern \in Patterns /\ Len(t) \in Nat
        /\ at \in 0..Len(t) /\ at \in Nat
        /\ scope \in Byte /\ group_names \in Seq(Byte)
        /\ capture_count \in Nat
    <2>1. Len(t) \in Nat
      BY TokensLen DEF IInv
    <2>2. capture_count \in 1..CAPTURE_COUNT_MAX
      BY DEF IInv, TypeOK
    <2>3. capture_count \in Nat
      BY <2>2, NamesAssumption
    <2> QED
      BY <2>1, <2>3 DEF IInv, TypeOK
  <1>1. AllRecorded /\ OneNamePerScope /\ refs \in Seq(Resolutions)
    BY DEF RInv
  <1>2. ASSUME pattern' = pattern
        PROVE  Resolutions' = Resolutions
    BY <1>2 DEF Resolutions, Declared
  \* what does not read a token
  <1>3. ASSUME UNCHANGED <<pattern, at, refs>>,
               status' = "parse" => UNCHANGED <<status, capture_count, group_names, scope>>,
               status' = "compiled" => at = Len(t)
        PROVE  RInv'
    <2>1. OneNamePerScope'
      BY <1>1, <1>3 DEF OneNamePerScope
    <2>2. AllRecorded'
      BY <1>1, <1>3 DEF AllRecorded
    <2> QED
      BY <1>1, <1>2, <1>3, <2>1, <2>2 DEF RInv
  <1>4. ASSUME OpenGroup PROVE RInv'
    <2>1. /\ status = "parse" /\ Token.t = "open" /\ at < Len(t)
          /\ group_names' = group_names \o Record(Token.name, scope)
          /\ UNCHANGED <<pattern, scope, refs>>
      BY <1>4 DEF OpenGroup, Reading
    <2>2. CASE status' = "error" /\ at' = at
      BY <1>3, <2>1, <2>2
    <2>3. CASE status' = "parse" /\ at' = at + 1 /\ capture_count' = capture_count + 1
      <3>1. OneNamePerScope'
        BY <1>4, <2>3, OpenedInScope
      <3>2. IsOpen(t[at + 1]) /\ t[at + 1].name \in Seq(Letters) /\ Token = t[at + 1]
        BY <1>0, <2>1, TokenFacts DEF IsOpen, Token
      <3>3. PICK tok, pos : Recorded(t, at, n, tok, group_names, pos, scope)
        BY <1>1, <2>1 DEF AllRecorded
      <3> HIDE DEF t, n
      <3>4. \E tok1, pos1 : Recorded(t, at + 1, n + 1, tok1,
                                     group_names \o Record(t[at + 1].name, scope), pos1, scope)
        BY <1>0, <3>2, <3>3, OneRecorded
      <3>5. capture_count' - 1 = n + 1
        BY <1>0, <2>3 DEF n
      <3>6. AllRecorded'
        BY <2>1, <2>3, <3>2, <3>4, <3>5 DEF AllRecorded, t
      <3> QED
        BY <1>1, <1>2, <2>1, <2>3, <3>1, <3>6 DEF RInv
    <2> QED
      BY <1>4, <2>1, <2>2, <2>3 DEF OpenGroup
  \* a token that opens no group
  <1>5. ASSUME status = "parse", status' = "parse", ~IsOpen(Token), at' = at + 1,
               UNCHANGED <<pattern, capture_count, group_names>>,
               Token = Bar \/ scope' = scope
        PROVE  AllRecorded' /\ OneNamePerScope'
    <2>1. PICK tok, pos : Recorded(t, at, n, tok, group_names, pos, scope)
      BY <1>1, <1>5 DEF AllRecorded
    <2>2. ~IsOpen(t[at + 1]) /\ (t[at + 1] = Bar \/ scope' = scope)
      BY <1>5 DEF Token
    <2> HIDE DEF t, n
    <2>3. Recorded(t, at + 1, n, tok, group_names, pos, scope')
      BY <1>0, <2>1, <2>2, PassedOver
    <2>4. AllRecorded'
      BY <1>5, <2>3 DEF AllRecorded, t, n
    <2> QED
      BY <1>0, <1>1, <1>5, <2>4, PassedInScope
  <1>6. ASSUME NextAlternative PROVE RInv'
    <2>1. /\ status = "parse" /\ Token.t = "bar" /\ at < Len(t)
          /\ at' = at + 1
          /\ UNCHANGED <<pattern, capture_count, group_names, refs, status>>
      BY <1>6 DEF NextAlternative, Reading
    <2>2. ~IsOpen(Token)
      BY <2>1 DEF IsOpen
    <2>3. Token = Bar
      <3>1. t \in Seq({Open(name) : name \in Names \cup {Unnamed}} \cup {Bar}
                        \cup {Ref(name) : name \in Names})
        BY <1>0, PatternsAssumption
      <3>2. at + 1 \in 1..Len(t)
        BY <1>0, <2>1
      <3>3. Token \in {Open(name) : name \in Names \cup {Unnamed}} \cup {Bar}
                        \cup {Ref(name) : name \in Names}
        BY <3>1, <3>2, ElementOfSeq DEF Token
      <3>4. /\ \A name \in Names \cup {Unnamed} : Open(name).t # "bar"
            /\ \A name \in Names : Ref(name).t # "bar"
        BY DEF Open, Ref
      <3> QED
        BY <2>1, <3>3, <3>4
    <2>4. AllRecorded' /\ OneNamePerScope'
      BY <1>5, <2>1, <2>2, <2>3
    <2> QED
      BY <1>1, <1>2, <2>1, <2>4 DEF RInv
  <1>7. ASSUME Reference PROVE RInv'
    <2>1. /\ status = "parse" /\ Token.t = "ref" /\ at < Len(t)
          /\ Resolved # {}
          /\ refs' = Append(refs, [at |-> at + 1, name |-> Token.name, groups |-> Resolved])
          /\ at' = at + 1
          /\ UNCHANGED <<pattern, scope, capture_count, group_names, status>>
      BY <1>7 DEF Reference, Reading
    <2>2. ~IsOpen(Token)
      BY <2>1 DEF IsOpen
    <2>3. AllRecorded' /\ OneNamePerScope'
      BY <1>5, <2>1, <2>2
    <2>4. Token.name \in Names
      BY <1>0, <2>1, RefFacts
    <2>5. Resolved \subseteq Declared(Token.name) /\ Resolved \subseteq Nat
      BY <2>1, ResolvedDeclared
    <2>6. [at |-> at + 1, name |-> Token.name, groups |-> Resolved] \in Resolutions
      <3> DEFINE r == [at |-> at + 1, name |-> Token.name, groups |-> Resolved]
      <3>1. r.name = Token.name /\ r.groups = Resolved
        OBVIOUS
      <3>2. at + 1 \in Nat /\ Resolved \in SUBSET Nat
        BY <1>0, <2>5
      <3>3. r \in [at : Nat, name : Names, groups : SUBSET Nat]
        BY <2>4, <3>2
      <3> HIDE DEF r
      <3>4. r \in Resolutions
        BY <2>1, <2>5, <3>1, <3>3 DEF Resolutions
      <3> QED
        BY <3>4 DEF r
    <2>7. refs' \in Seq(Resolutions)
      BY <1>1, <2>1, <2>6
    <2> QED
      BY <1>2, <2>1, <2>3, <2>7 DEF RInv
  <1>8. ASSUME UndefinedName PROVE RInv'
    <2>1. /\ status = "parse" /\ Token.t = "ref"
          /\ UNCHANGED <<pattern, scope, capture_count, group_names, refs>>
      BY <1>8 DEF UndefinedName, Refused, Reading
    <2>2. CASE status' = "error" /\ at' = at
      BY <1>3, <2>1, <2>2
    <2>3. CASE status' = status /\ at' = at + 1
      <3>1. ~IsOpen(Token)
        BY <2>1 DEF IsOpen
      <3>2. AllRecorded' /\ OneNamePerScope'
        BY <1>5, <2>1, <2>3, <3>1
      <3> QED
        BY <1>1, <1>2, <2>1, <2>3, <3>2 DEF RInv
    <2> QED
      BY <1>8, <2>2, <2>3 DEF UndefinedName, Refused
  <1>9. ASSUME DuplicateName PROVE RInv'
    BY <1>3, <1>9 DEF DuplicateName, Refused
  <1>10. ASSUME Compiled PROVE RInv'
    BY <1>3, <1>10 DEF Compiled
  <1>11. ASSUME Exec PROVE RInv'
    BY <1>3, <1>11 DEF Exec, StartExec, Undefined, PushGroup, Return
  <1>12. ASSUME UNCHANGED vars PROVE RInv'
    <2>1. status = "compiled" => at = Len(t)
      BY DEF RInv
    <2> QED
      BY <1>3, <1>12, <2>1 DEF vars
  <1> QED
    BY <1>4, <1>6, <1>7, <1>8, <1>9, <1>10, <1>11, <1>12 DEF Next, Parse

--------------------------------------------------------------------------------
\* For every pattern: a name is found in the buffer as exactly the groups that were
\* opened with it, up to the present token.
THEOREM NamesAreFound == Spec => []LookupExact
  <1>1. IInv /\ RInv => LookupExact
    <2>1. SUFFICES ASSUME IInv, RInv, status = "parse", NEW name \in Names
                   PROVE  find_group_name(group_names, name) = NumbersOf(name)
      BY DEF LookupExact
    <2>2. PICK n, tok, pos : Recorded(pattern.tokens, at, n, tok, group_names, pos, scope)
      BY <2>1 DEF RInv, AllRecorded
    <2>3. group_names \in Seq(Byte)
      BY <2>1 DEF IInv, TypeOK
    <2>4. find_group_name(group_names, name) = NumbersIn(pattern.tokens, at, name)
      BY <2>2, <2>3, FoundNamed
    <2> QED
      BY <2>4 DEF NumbersOf, NumbersIn, Opened, GroupTokens
  <1> QED
    BY InitIInv, NextIInv, InitRInv, NextRInv, <1>1, PTL DEF Spec

\* For every pattern: between two groups of one name there is a bar.
THEOREM NamesAreApart == Spec => []OneNamePerScope
  <1>1. RInv => OneNamePerScope
    BY DEF RInv
  <1> QED
    BY InitIInv, NextIInv, InitRInv, NextRInv, <1>1, PTL DEF Spec

\* For every pattern: a reference of a compiled pattern is to groups that exist and
\* have its name.
THEOREM ReferencesAreNamed == Spec => []ReferencesNamed
  <1>1. IInv /\ RInv => ReferencesNamed
    <2>1. SUFFICES ASSUME IInv, RInv, status = "compiled", NEW r \in SetOf(refs)
                   PROVE  r.groups # {} /\ r.groups \subseteq NumbersOf(r.name)
      BY DEF ReferencesNamed
    <2>2. at = Len(pattern.tokens) /\ refs \in Seq(Resolutions)
      BY <2>1 DEF RInv
    <2>3. r \in Resolutions
      BY <2>2, ElementOfSeq DEF SetOf
    <2>4. Declared(r.name) = NumbersOf(r.name)
      <3>1. pattern.tokens \in Seq({Open(name) : name \in Names \cup {Unnamed}} \cup {Bar}
                                     \cup {Ref(name) : name \in Names})
        BY <2>1, PatternsAssumption DEF IInv
      <3>2. DOMAIN pattern.tokens = 1..at
        BY <2>2, <3>1
      <3> QED
        BY <3>2 DEF Declared, NumbersOf, GroupTokens
    <2> QED
      BY <2>3, <2>4 DEF Resolutions
  <1> QED
    BY InitIInv, NextIInv, InitRInv, NextRInv, <1>1, PTL DEF Spec

--------------------------------------------------------------------------------
(***************************************************************************)
(* The tables, whichever there are.                                        *)
(***************************************************************************)
Running == status \in {"exec", "done"}

Built ==
  Running => /\ stack = StackOf(has_indices, name_at # NULL)
             /\ FieldsAre(fields, has_indices, name_at # NULL)

\* The groups pushed so far.
Pushed(what) == [n \in 0..(i - 1) |-> Of(what, n)]

SameNames ==
  LET groups == named["groups"]
      positions == named["indices.groups"]
  IN  /\ DOMAIN positions = DOMAIN groups
      /\ \A name \in DOMAIN groups :
           \E n \in Numbers :
             groups[name] = Of("text", n) /\ positions[name] = Of("positions", n)

NothingPushed ==
  entries = [t \in Tables |-> Empty] /\ named = [t \in Tables |-> Empty]

Filled ==
  /\ status \in {"parse", "compiled"} => NothingPushed
  /\ Running => /\ entries["match"] = Pushed("text")
                /\ has_indices => entries["indices"] = Pushed("positions")
                /\ has_indices /\ name_at # NULL => SameNames
  /\ status = "done" => i = capture_count

AInv == Built /\ Filled

\* The places PushGroup uses are those of the tables it means.
LEMMA PlacesAre ==
  ASSUME Built, status = "exec"
  PROVE  /\ TableAt(-2, 1) = "match"
         /\ has_indices => TableAt(IndicesPlace, 2) = "indices"
         /\ name_at # NULL => TableAt(-4, 2) = "groups"
         /\ has_indices /\ name_at # NULL => TableAt(-7, 3) = "indices.groups"
  <1>0. stack = StackOf(has_indices, name_at # NULL)
    BY DEF Built, Running
  <1>1. CASE has_indices /\ name_at # NULL
    BY <1>0, <1>1 DEF StackOf, TableAt, IndicesPlace
  <1>2. CASE has_indices /\ ~(name_at # NULL)
    BY <1>0, <1>2 DEF StackOf, TableAt, IndicesPlace
  <1>3. CASE ~has_indices /\ name_at # NULL
    BY <1>0, <1>3 DEF StackOf, TableAt, IndicesPlace
  <1>4. CASE ~has_indices /\ ~(name_at # NULL)
    BY <1>0, <1>4 DEF StackOf, TableAt, IndicesPlace
  <1> QED
    BY <1>1, <1>2, <1>3, <1>4

LEMMA PutIs ==
  ASSUME NEW tables, NEW table \in DOMAIN tables, NEW key, NEW value
  PROVE  /\ DOMAIN Put(tables, table, key, value) = DOMAIN tables
         /\ Put(tables, table, key, value)[table] = With(tables[table], key, value)
         /\ \A t \in DOMAIN tables : t # table => Put(tables, table, key, value)[t] = tables[t]
  BY DEF Put

\* While groups are pushed the walk does not come back to NULL.
LEMMA StillThere ==
  ASSUME IInv, PushGroup
  PROVE  name_at' # NULL <=> name_at # NULL
  <1>1. CASE ~NamesHere
    BY <1>1 DEF PushGroup
  <1>2. CASE NamesHere
    <2>1. status = "exec" /\ ~NoNames /\ i < capture_count /\ name_at' = PastName(name_at)
      BY <1>2 DEF PushGroup
    <2>2. PICK e \in name_at..Len(group_names) : group_names[e] = 0
      BY <1>2, <2>1, Inside DEF InsideNames
    <2>3. name_at \in Nat /\ name_at >= 1 /\ group_names \in Seq(Byte)
      BY <1>2, <2>1 DEF IInv, TypeOK, NameAtOK, NamesHere
    <2>4. PastName(name_at) \in (name_at + 1)..(e + 1)
      BY <2>2, <2>3, PastString
    <2>5. PastName(name_at) # 0
      BY <2>3, <2>4
    <2> QED
      BY <1>2, <2>1, <2>5 DEF NamesHere, NULL
  <1> QED
    BY <1>1, <1>2

LEMMA StartBuilds ==
  ASSUME StartExec
  PROVE  Built'
  <1>1. /\ has_indices' \in BOOLEAN
        /\ name_at' = IF HasNames THEN 1 ELSE NULL
        /\ stack' = Prepared(has_indices').stack /\ fields' = Prepared(has_indices').fields
    BY DEF StartExec
  <1>2. stack' = StackOf(has_indices', HasNames) /\ FieldsAre(fields', has_indices', HasNames)
    BY <1>1, PreparedIs
  <1>3. CASE HasNames
    BY <1>1, <1>2, <1>3 DEF Built, StackOf, FieldsAre, NULL
  <1>4. CASE ~HasNames
    BY <1>1, <1>2, <1>4 DEF Built, StackOf, FieldsAre, NULL
  <1> QED
    BY <1>3, <1>4

LEMMA PushFills ==
  ASSUME IInv, AInv, PushGroup
  PROVE  AInv'
  <1> DEFINE isNamed == NamesHere /\ Name(name_at) # <<>>
             indexed == IF has_indices
                          THEN Put(entries, TableAt(IndicesPlace, 2), i, Of("positions", i))
                          ELSE entries
             indexedNamed == IF has_indices /\ isNamed
                               THEN Put(named, TableAt(-7, 3), Name(name_at), Of("positions", i))
                               ELSE named
  <1>1. /\ status = "exec" /\ i < capture_count /\ i' = i + 1
        /\ UNCHANGED <<capture_count, status, part, has_indices, stack, fields>>
    BY DEF PushGroup
  <1>2. /\ entries' = Put(indexed, TableAt(-2, 1), i, Of("text", i))
        /\ named' = IF isNamed THEN Put(indexedNamed, TableAt(-4, 2), Name(name_at), Of("text", i))
                               ELSE indexedNamed
    BY DEF PushGroup
  <1>3. /\ TableAt(-2, 1) = "match"
        /\ has_indices => TableAt(IndicesPlace, 2) = "indices"
        /\ name_at # NULL => TableAt(-4, 2) = "groups"
        /\ has_indices /\ name_at # NULL => TableAt(-7, 3) = "indices.groups"
    BY <1>1, PlacesAre DEF AInv
  <1>4. name_at' # NULL <=> name_at # NULL
    BY StillThere
  <1>5. isNamed => name_at # NULL
    BY DEF NamesHere
  <1>6. DOMAIN entries = Tables /\ DOMAIN named = Tables /\ i \in Nat /\ i \in Numbers
    BY <1>1, NamesAssumption DEF IInv, TypeOK, Numbers
  <1>7. \A what, n : Of(what, n)' = Of(what, n)
    BY <1>1 DEF Of
  <1>8. /\ entries["match"] = Pushed("text")
        /\ has_indices => entries["indices"] = Pushed("positions")
        /\ has_indices /\ name_at # NULL => SameNames
    BY <1>1 DEF AInv, Filled, Running
  <1>9. Built'
    BY <1>1, <1>4 DEF AInv, Built, Running, StackOf, FieldsAre
  <1>10. \A what : With(Pushed(what), i, Of(what, i)) = Pushed(what)'
    <2> TAKE what
    <2> DEFINE before == 0..(i - 1)
               after == 0..((i + 1) - 1)
               old == [n \in before |-> Of(what, n)]
    <2>1. after = before \cup {i}
      BY <1>6
    <2>2. Pushed(what)' = [n \in after |-> Of(what, n)] /\ Pushed(what) = old
      BY <1>1, <1>7 DEF Pushed
    <2> HIDE DEF before, after
    <2>3. DOMAIN old = before /\ \A n \in before : old[n] = Of(what, n)
      OBVIOUS
    <2> HIDE DEF old
    <2>4. With(old, i, Of(what, i)) =
            [n \in before \cup {i} |-> IF n = i THEN Of(what, i) ELSE old[n]]
      BY <2>3 DEF With
    <2>5. \A n \in before \cup {i} : (IF n = i THEN Of(what, i) ELSE old[n]) = Of(what, n)
      BY <2>3
    <2>6. With(old, i, Of(what, i)) = [n \in before \cup {i} |-> Of(what, n)]
      BY <2>4, <2>5
    <2> QED
      BY <2>1, <2>2, <2>6
  <1>11. entries'["match"] = Pushed("text")' /\ (has_indices => entries'["indices"] = Pushed("positions")')
    <2>0. "match" \in Tables /\ "indices" \in Tables
      BY DEF Tables
    <2>1. /\ DOMAIN indexed = Tables /\ indexed["match"] = entries["match"]
          /\ has_indices => indexed["indices"] = With(entries["indices"], i, Of("positions", i))
      <3>1. CASE has_indices
        <4>1. indexed = Put(entries, "indices", i, Of("positions", i))
          BY <1>3, <3>1
        <4> QED
          BY <1>6, <2>0, <4>1, PutIs
      <3>2. CASE ~has_indices
        BY <1>6, <3>2
      <3> QED
        BY <3>1, <3>2
    <2> HIDE DEF indexed
    <2>2. /\ entries'["match"] = With(entries["match"], i, Of("text", i))
          /\ entries'["indices"] = indexed["indices"]
      BY <1>2, <1>3, <2>0, <2>1, PutIs
    <2> QED
      BY <1>8, <1>10, <2>1, <2>2
  <1>12. ASSUME has_indices, name_at # NULL
         PROVE  SameNames'
    <2>0. "groups" \in Tables /\ "indices.groups" \in Tables
      BY DEF Tables
    <2>1. CASE ~isNamed
      <3>1. named' = named
        BY <1>2, <2>1
      <3> QED
        BY <1>7, <1>8, <1>12, <3>1 DEF SameNames
    <2>2. CASE isNamed
      <3> DEFINE name == Name(name_at)
      <3>1. indexedNamed = Put(named, "indices.groups", name, Of("positions", i))
        BY <1>3, <1>12, <2>2
      <3>2. named' = Put(indexedNamed, "groups", name, Of("text", i))
        BY <1>2, <1>3, <1>12, <2>2
      <3> HIDE DEF indexedNamed, name
      <3>3. /\ DOMAIN indexedNamed = Tables
            /\ indexedNamed["indices.groups"] = With(named["indices.groups"], name, Of("positions", i))
            /\ indexedNamed["groups"] = named["groups"]
        BY <1>6, <2>0, <3>1, PutIs
      <3>4. /\ named'["groups"] = With(named["groups"], name, Of("text", i))
            /\ named'["indices.groups"] = With(named["indices.groups"], name, Of("positions", i))
        BY <2>0, <3>2, <3>3, PutIs
      <3> DEFINE g == named["groups"]
                 p == named["indices.groups"]
      <3>5. /\ DOMAIN p = DOMAIN g
            /\ \A x \in DOMAIN g : \E n \in Numbers : g[x] = Of("text", n) /\ p[x] = Of("positions", n)
        BY <1>8, <1>12 DEF SameNames
      <3> HIDE DEF g, p
      <3> DEFINE g1 == With(g, name, Of("text", i))
                 p1 == With(p, name, Of("positions", i))
      <3>6. /\ DOMAIN p1 = DOMAIN g1
            /\ \A x \in DOMAIN g1 : \E n \in Numbers : g1[x] = Of("text", n) /\ p1[x] = Of("positions", n)
        <4>1. DOMAIN g1 = DOMAIN g \cup {name} /\ DOMAIN p1 = DOMAIN p \cup {name}
          BY DEF With
        <4>2. /\ g1[name] = Of("text", i) /\ p1[name] = Of("positions", i)
              /\ \A x \in DOMAIN g : x # name => g1[x] = g[x]
              /\ \A x \in DOMAIN p : x # name => p1[x] = p[x]
          BY DEF With
        <4> HIDE DEF g1, p1
        <4> QED
          BY <1>6, <3>5, <4>1, <4>2
      <3>7. named'["groups"] = g1 /\ named'["indices.groups"] = p1
        BY <3>4 DEF g, p
      <3> HIDE DEF g1, p1
      <3> QED
        BY <1>7, <3>6, <3>7 DEF SameNames
    <2> QED
      BY <2>1, <2>2
  <1> QED
    BY <1>1, <1>4, <1>9, <1>11, <1>12 DEF AInv, Filled, Running

LEMMA InitAInv == Init => AInv
  BY DEF Init, InitParse, AInv, Built, Filled, Running, NothingPushed

LEMMA NextAInv == IInv /\ AInv /\ [Next]_vars => AInv'
  <1> SUFFICES ASSUME IInv, AInv, [Next]_vars PROVE AInv'
    OBVIOUS
  <1>1. CASE Parse /\ UNCHANGED execVars
    <2>1. status' \notin {"exec", "done"} /\ (status' \in {"parse", "compiled"} => status = "parse")
      BY <1>1 DEF Parse, DuplicateName, OpenGroup, NextAlternative, Reference, UndefinedName,
                  Compiled, Refused, Reading
    <2> QED
      BY <1>1, <2>1 DEF AInv, Built, Filled, Running, NothingPushed, execVars
  <1>2. CASE StartExec
    <2>1. Built'
      BY <1>2, StartBuilds
    <2>2. i = 0 /\ i' = i /\ status = "compiled" /\ status' = "exec" /\ UNCHANGED <<entries, named>>
      BY <1>2 DEF StartExec, IInv, NameAtOK
    <2>3. entries = [t \in Tables |-> Empty] /\ named = [t \in Tables |-> Empty]
      BY <2>2 DEF AInv, Filled, NothingPushed
    <2>4. /\ entries["match"] = Empty /\ entries["indices"] = Empty
          /\ named["groups"] = Empty /\ named["indices.groups"] = Empty
      BY <2>3 DEF Tables
    <2>5. \A what : Pushed(what)' = Empty
      BY <2>2 DEF Pushed, Empty
    <2>6. SameNames'
      BY <2>2, <2>4 DEF SameNames, Empty
    <2> QED
      BY <2>1, <2>2, <2>4, <2>5, <2>6 DEF AInv, Filled, Running
  <1>3. CASE Undefined
    BY <1>3 DEF Undefined, AInv, Built, Filled, Running
  <1>4. CASE PushGroup
    BY <1>4, PushFills
  <1>5. CASE Return
    <2>1. /\ status = "exec" /\ status' = "done" /\ i = capture_count /\ UNCHANGED execVars
          /\ UNCHANGED capture_count
      BY <1>5 DEF Return
    <2>2. \A what : Pushed(what)' = Pushed(what)
      BY <2>1 DEF Pushed, Of, execVars
    <2>3. SameNames <=> SameNames'
      BY <2>1 DEF SameNames, Of, execVars
    <2> QED
      BY <2>1, <2>2, <2>3 DEF AInv, Built, Filled, Running, execVars
  <1>6. CASE UNCHANGED vars
    BY <1>6 DEF vars, AInv, Built, Filled, Running, NothingPushed, SameNames, Pushed, Of
  <1> QED
    BY <1>1, <1>2, <1>3, <1>4, <1>5, <1>6 DEF Next, Exec

\* For every pattern and match, and whichever tables lie on the stack of Lua: the table
\* that is returned has the texts of all groups by number and its indices the positions
\* of the same groups; there are groups and indices.groups if there are names, and they
\* have the same names, each with one and the same group.
THEOREM TablesAgree == Spec => []IndicesAgree
  <1>1. AInv => IndicesAgree
    <2>1. SUFFICES ASSUME AInv, status = "done" PROVE IndicesAgree
      BY DEF IndicesAgree
    <2>2. /\ stack = StackOf(has_indices, name_at # NULL)
          /\ FieldsAre(fields, has_indices, name_at # NULL)
          /\ i = capture_count
          /\ entries["match"] = Pushed("text")
          /\ has_indices => entries["indices"] = Pushed("positions")
          /\ has_indices /\ name_at # NULL => SameNames
      BY <2>1 DEF AInv, Built, Filled, Running
    <2>3. Returned = "match"
      BY <2>2 DEF Returned, FromTop, StackOf
    <2>4. \A what : Pushed(what) = Numbered(what)
      BY <2>2 DEF Pushed, Numbered
    <2>5. CASE ~has_indices
      BY <2>2, <2>3, <2>4, <2>5 DEF IndicesAgree, Has, FieldsAre
    <2>6. CASE has_indices /\ ~(name_at # NULL)
      BY <2>2, <2>3, <2>4, <2>6 DEF IndicesAgree, Has, FieldsAre
    <2>7. CASE has_indices /\ name_at # NULL
      BY <2>2, <2>3, <2>4, <2>7 DEF IndicesAgree, Has, FieldsAre, SameNames
    <2> QED
      BY <2>5, <2>6, <2>7
  <1> QED
    BY InitIInv, NextIInv, InitAInv, NextAInv, <1>1, PTL DEF Spec
================================================================================
