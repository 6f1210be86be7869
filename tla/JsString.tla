------------------------------ MODULE JsString ------------------------------
(***************************************************************************)
(* The JSString userdata of jsregexp.c: a Lua (UTF-8) string together with *)
(* what lre_exec is given for it.  A text is the sequence of the widths of *)
(* its characters in UTF-8 bytes, 1..4: nothing in the binding looks at    *)
(* more of a character than that.  Character k starts at byte              *)
(* Offsets(..)[k - 1]; the last entry is the length of the text.           *)
(***************************************************************************)
EXTENDS Naturals, Sequences

\* UTF-16 code units of a character: a surrogate pair beyond the BMP.
UnitsOf(width) == IF width = 4 THEN 2 ELSE 1

\* The prefix sums of a sequence of sizes, from 0 to its length.
Offsets(sizes) ==
  LET sum[k \in 0..Len(sizes)] == IF k = 0 THEN 0 ELSE sum[k - 1] + sizes[k]
  IN  sum

ByteOffsets(text) == Offsets(text)
UnitOffsets(text) == Offsets([k \in 1..Len(text) |-> UnitsOf(text[k])])

-----------------------------------------------------------------------------
(***************************************************************************)
(* The finished userdata.  An ASCII text stays an 8 bit string: units are  *)
(* bytes and the tables are NULL.  Any other text becomes a 16 bit string  *)
(* with two tables of blen + 1 entries, zero where nothing was stored.     *)
(* "bounds" is the set of units at which a character starts, and the end.  *)
(***************************************************************************)
JsStringOf(text) ==
  LET byte == ByteOffsets(text)
      unit == UnitOffsets(text)
      last == Len(text)
      Table(key, value) ==
        [x \in 0..byte[last] |->
           IF \E k \in 0..last : key[k] = x
             THEN value[CHOOSE k \in 0..last : key[k] = x]
             ELSE 0]
      wide == \E k \in 1..last : text[k] > 1
  IN  [wide    |-> wide,
       blen    |-> byte[last],
       len     |-> unit[last],
       bounds  |-> {unit[k] : k \in 0..last},
       indices |-> IF wide THEN Table(unit, byte) ELSE <<>>,
       rev     |-> IF wide THEN Table(byte, unit) ELSE <<>>]

(***************************************************************************)
(* What regexp_exec relies on: entries lie in the texts they index, and    *)
(* the two tables are inverse to each other and increasing at the          *)
(* boundaries of characters.  Utf8ToUtf16 shows that the conversion loop   *)
(* establishes it.                                                         *)
(***************************************************************************)
TablesOK(js) ==
  /\ js.indices \in [0..js.blen -> 0..js.blen]
  /\ js.rev \in [0..js.blen -> 0..js.len]
  /\ js.indices[0] = 0
  /\ js.indices[js.len] = js.blen /\ js.rev[js.blen] = js.len
  /\ \A u \in js.bounds : js.rev[js.indices[u]] = u
  /\ \A u, v \in js.bounds : u < v => js.indices[u] < js.indices[v]
  /\ \A p \in 1..js.blen : js.rev[p] # 0 => js.rev[p] \in js.bounds /\ js.indices[js.rev[p]] = p

JsStringOK(js) ==
  /\ js.wide \in BOOLEAN
  /\ js.blen \in Nat /\ js.len \in 0..js.blen
  /\ js.bounds \subseteq 0..js.len
  /\ {0, js.len} \subseteq js.bounds
  /\ IF js.wide THEN TablesOK(js) ELSE js.len = js.blen /\ js.bounds = 0..js.len
=============================================================================
