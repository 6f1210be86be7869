------------------------------ MODULE StringList ------------------------------
(***************************************************************************)
(* The value of a class: single characters and strings (REStringList,      *)
(* libregexp.c:129-388).  The characters are a set of code points, whose   *)
(* intervals are the business of CharRange.  The strings, none of which    *)
(* has the length 1, are in a hash table of chains.  The table doubles     *)
(* when there are more strings than chains, and a chain is chosen by the   *)
(* highest bits of the hash.                                               *)
(***************************************************************************)
EXTENDS Integers, Sequences, FiniteSets, SequencesExt

CONSTANTS
  Universe,      \* the code points looked at
  Canonical,     \* lre_canonicalize: the u flag -> a code point -> its canonical form
  HashWidth,     \* the bits of a hash (32)
  MinBits        \* those of the first table (4)

ASSUME HashAssumption == HashWidth \in Nat /\ MinBits \in 1..HashWidth
ASSUME UniverseAssumption ==
  Canonical \in [BOOLEAN -> [Universe -> Universe]]

NoStrings == [cr |-> {}, n_strings |-> 0, hash_bits |-> 0, hash_table |-> <<>>]

re_string_hash(buf) ==
  LET word == 2 ^ HashWidth
      h[n \in 0..Len(buf)] == IF n = 0 THEN 1 ELSE (h[n - 1] * (263 % word) + buf[n]) % word
  IN  (h[Len(buf)] * (1640531527 % word)) % word

\* The chain for a hash in a table of 2^bits of them, counted from 1.
Chain(h, bits) == 1 + h \div 2 ^ (HashWidth - bits)

\* The chain that re_string_find2 takes from the table as it finds it.
ChainIn(s, buf) == IF s.n_strings = 0 THEN 1 ELSE Chain(re_string_hash(buf), s.hash_bits)

re_string_find(s, buf) ==
  s.n_strings # 0 /\ \E k \in DOMAIN s.hash_table[ChainIn(s, buf)] :
                        s.hash_table[ChainIn(s, buf)][k] = buf

\* Its strings, in the order of the table.
Strings(s) == FlattenSeq(s.hash_table)

Grown_OldBits(s) ==
  LET bits == IF s.hash_bits + 1 > MinBits THEN s.hash_bits + 1 ELSE MinBits
      chain(k) == SelectSeq(Strings(s), LAMBDA buf : Chain(re_string_hash(buf), s.hash_bits) = k)
  IN  [s EXCEPT !.hash_bits = bits, !.hash_table = [k \in 1..(2 ^ bits) |-> Reverse(chain(k))]]

\* A table of twice the size; every string moves to the front of its chain.
Grown(s) ==
  LET bits == IF s.hash_bits + 1 > MinBits THEN s.hash_bits + 1 ELSE MinBits
      chain(k) == SelectSeq(Strings(s), LAMBDA buf : Chain(re_string_hash(buf), bits) = k)
  IN  [s EXCEPT !.hash_bits = bits, !.hash_table = [k \in 1..(2 ^ bits) |-> Reverse(chain(k))]]

PushedTo(s, k, buf) ==
  [s EXCEPT !.hash_table[k] = <<buf>> \o @, !.n_strings = @ + 1]

\* re_string_find2 with add_flag.
WithString(s, buf) ==
  IF re_string_find(s, buf) THEN s
  ELSE IF s.n_strings + 1 > Len(s.hash_table)
    THEN \* the chain is chosen again
         LET g == Grown(s) IN PushedTo(g, Chain(re_string_hash(buf), g.hash_bits), buf)
    ELSE PushedTo(s, ChainIn(s, buf), buf)

re_string_add(s, buf) ==
  IF Len(buf) = 1 THEN [s EXCEPT !.cr = @ \cup {buf[1]}] ELSE WithString(s, buf)

\* s, to which the strings of a sequence are added one by one.
WithStrings(s, bufs) == FoldLeft(re_string_add, s, bufs)

Keeping(s, kept) ==
  LET chain(k) == SelectSeq(s.hash_table[k], LAMBDA buf : buf \in kept)
      table == [k \in DOMAIN s.hash_table |-> chain(k)]
  IN  [s EXCEPT !.hash_table = table, !.n_strings = Len(FlattenSeq(table))]

re_string_list_op(a, b, op) ==
  LET found == {buf \in ToSet(Strings(a)) : re_string_find(b, buf)}
  IN  CASE op = "union" -> WithStrings([a EXCEPT !.cr = @ \cup b.cr], Strings(b))
        [] op = "inter" -> Keeping([a EXCEPT !.cr = @ \cap b.cr], found)
        [] op = "sub" -> Keeping([a EXCEPT !.cr = @ \ b.cr], ToSet(Strings(a)) \ found)

re_string_list_canonicalize(s, is_unicode) ==
  LET canon == Canonical[is_unicode]
      forms == [n \in DOMAIN Strings(s) |-> [k \in DOMAIN Strings(s)[n] |-> canon[Strings(s)[n][k]]]]
      alone == {canon[c] : c \in s.cr}
  IN  IF s.n_strings = 0 THEN [s EXCEPT !.cr = alone]
      ELSE WithStrings([NoStrings EXCEPT !.cr = alone], forms)

--------------------------------------------------------------------------------
\* A list whose strings are where re_string_find2 looks for them, once each, and
\* are counted.
InPlace(s) ==
  /\ s.n_strings = Len(Strings(s))
  /\ Cardinality({Strings(s)[n] : n \in DOMAIN Strings(s)}) = Len(Strings(s))
  /\ \A k \in DOMAIN s.hash_table : \A n \in DOMAIN s.hash_table[k] :
       Chain(re_string_hash(s.hash_table[k][n]), s.hash_bits) = k

\* All that a list stands for, as strings.
Denoted(s) == {<<c>> : c \in s.cr} \cup {Strings(s)[n] : n \in DOMAIN Strings(s)}
================================================================================
