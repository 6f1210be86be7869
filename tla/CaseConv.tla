------------------------------- MODULE CaseConv -------------------------------
(***************************************************************************)
(* Case conversion (libunicode.c:52-261) and the sets of characters that a *)
(* conversion changes (libunicode.c:552-613).                              *)
(***************************************************************************)
EXTENDS Integers, Sequences, CaseTables

Conversions == {"upper", "lower", "fold"}

Entry(k) ==
  LET e == case_conv_table[k]
  IN  [code |-> e[1], len |-> e[2], type |-> e[3], data |-> e[4]]

InEntry(c, k) == Entry(k).code <= c /\ c < Entry(k).code + Entry(k).len

\* The generated table is in order, so that it can be searched by halving.
ASSUME TableAssumption ==
  /\ case_conv_table \in Seq(Nat \X Nat \X STRING \X Nat)
  /\ \A k \in 2..Len(case_conv_table) : Entry(k - 1).code + Entry(k - 1).len <= Entry(k).code

\* The search by halving of lre_case_conv, lre_canonicalize and lre_is_cased: the
\* entry c is in, or none.
EntryOf(c) ==
  LET last == Len(case_conv_table)
      between[part \in (1..(last + 1)) \X (0..last)] ==
        LET lo == part[1]
            hi == part[2]
            mid == (lo + hi) \div 2
        IN  IF lo > hi THEN {}
            ELSE IF c < Entry(mid).code THEN between[<<lo, mid - 1>>]
            ELSE IF InEntry(c, mid) THEN {mid}
            ELSE between[<<mid + 1, hi>>]
  IN  between[<<1, last>>]

Ascii(c) == c < 128
SmallLetter(c) == c \in 97..122
CapitalLetter(c) == c \in 65..90

\* Which conversions a run with one target takes part in.
ConvertedBy(type) ==
  CASE type = "U" -> {"upper"}
    [] type = "L" -> {"lower"}
    [] type = "UF" -> {"upper", "fold"}
    [] type = "LF" -> {"lower", "fold"}
    [] type = "U_EXT" -> {"upper"}
    [] type \in {"LF_EXT", "LF_EXT2"} -> {"lower", "fold"}
    [] type \in {"UF_D20", "UF_D1_EXT", "UF_EXT2", "UF_EXT3"} -> {"upper", "fold"}
    [] OTHER -> Conversions

Ext(k) == case_conv_ext[k + 1]
High(data) == data \div 64
Low(data) == data % 64

\* What entry k makes of the character c, except that the two conversions to more
\* than one character of a folding come to capitals.
Converted(c, conv, k) ==
  LET e == Entry(k)
      a == c - e.code
      lower == conv # "upper"
  IN  IF conv \notin ConvertedBy(e.type) THEN <<c>>
      ELSE CASE e.type \in {"U", "L", "UF", "LF"} -> <<a + case_conv_table[e.data + 1][1]>>
             [] e.type = "UL" ->
                  IF lower <=> a % 2 = 0 THEN <<IF lower THEN c + 1 ELSE c - 1>> ELSE <<c>>
             [] e.type = "LSU" ->
                  IF a = 1 THEN <<IF lower THEN c + 1 ELSE c - 1>>
                  ELSE IF lower /\ a = 0 THEN <<c + 2>>
                  ELSE IF ~lower /\ a = 2 THEN <<c - 2>> ELSE <<c>>
             [] e.type = "U2L_399_EXT2" ->
                  IF lower THEN <<a + Ext(Low(e.data))>> ELSE <<a + Ext(High(e.data)), 921>>
             [] e.type = "UF_D20" -> <<IF conv = "fold" THEN e.data + 32 ELSE e.data>>
             [] e.type = "UF_D1_EXT" -> <<IF conv = "fold" THEN Ext(e.data) + 1 ELSE Ext(e.data)>>
             [] e.type \in {"U_EXT", "LF_EXT"} -> <<Ext(e.data)>>
             [] e.type \in {"LF_EXT2", "UF_EXT2"} -> <<a + Ext(High(e.data)), Ext(Low(e.data))>>
             [] OTHER ->
                  <<Ext(e.data \div 256), Ext((e.data \div 16) % 16), Ext(e.data % 16)>>

\* lre_case_conv1 to lower case, which needs no further call.
Lowered(c) ==
  IF Ascii(c) THEN IF CapitalLetter(c) THEN c + 32 ELSE c
  ELSE IF EntryOf(c) = {} THEN c
  ELSE Converted(c, "lower", CHOOSE k \in EntryOf(c) : TRUE)[1]

lre_case_conv_entry(c, conv, k) ==
  LET res == Converted(c, conv, k)
  IN  IF conv = "fold" /\ Entry(k).type \in {"UF_EXT2", "UF_EXT3"}
        THEN [n \in DOMAIN res |-> Lowered(res[n])] ELSE res

lre_case_conv(c, conv) ==
  IF Ascii(c)
    THEN <<IF conv = "upper"
             THEN IF SmallLetter(c) THEN c - 32 ELSE c
             ELSE IF CapitalLetter(c) THEN c + 32 ELSE c>>
    ELSE IF EntryOf(c) = {} THEN <<c>>
    ELSE lre_case_conv_entry(c, conv, CHOOSE k \in EntryOf(c) : TRUE)

--------------------------------------------------------------------------------
(***************************************************************************)
(* The rules of a regular expression.                                      *)
(***************************************************************************)
\* With the u flag the simple folding, of which three are written out.
Folded(res, c) ==
  CASE Len(res) = 1 -> res[1]
    [] c = 64262 -> 64261
    [] c = 8147 -> 912
    [] c = 8163 -> 944
    [] OTHER -> c

\* Without it the upper case, unless it is more than one character or would make an
\* ASCII character of another one.
Capital(res, c) == IF Len(res) = 1 /\ res[1] >= 128 THEN res[1] ELSE c

lre_case_folding_entry(c, k, is_unicode) ==
  IF is_unicode THEN Folded(lre_case_conv_entry(c, "fold", k), c)
  ELSE IF ~Ascii(c) THEN Capital(lre_case_conv_entry(c, "upper", k), c)
  ELSE IF SmallLetter(c) THEN c - 32 ELSE c

lre_canonicalize(c, is_unicode) ==
  IF Ascii(c)
    THEN IF is_unicode
           THEN IF CapitalLetter(c) THEN c + 32 ELSE c
           ELSE IF SmallLetter(c) THEN c - 32 ELSE c
    ELSE IF EntryOf(c) = {} THEN c
    ELSE lre_case_folding_entry(c, CHOOSE k \in EntryOf(c) : TRUE, is_unicode)

--------------------------------------------------------------------------------
(***************************************************************************)
(* unicode_case1: the points of the intervals of characters that one of    *)
(* some conversions changes, by the types of the runs.                     *)
(***************************************************************************)
tab_run_mask ==
  [upper |-> {"U", "UF", "UL", "LSU", "U2L_399_EXT2", "UF_D20", "UF_D1_EXT", "U_EXT", "UF_EXT2",
              "UF_EXT3"},
   lower |-> {"L", "LF", "UL", "LSU", "U2L_399_EXT2", "LF_EXT", "LF_EXT2"},
   fold |-> {"UF", "LF", "UL", "LSU", "U2L_399_EXT2", "LF_EXT", "LF_EXT2", "UF_D20", "UF_D1_EXT",
             "UF_EXT2", "UF_EXT3"}]

\* The points of entry k.
EntryPoints_AllUL(k, convs) ==
  LET e == Entry(k)
  IN  IF \A t \in convs : e.type \notin tab_run_mask[t] THEN <<>> ELSE <<e.code, e.code + e.len>>

EntryPoints(k, convs) ==
  LET e == Entry(k)
      upper == "upper" \in convs
      bothWays == upper /\ convs # {"upper"}
  IN  IF \A t \in convs : e.type \notin tab_run_mask[t] THEN <<>>
      ELSE CASE e.type = "UL" /\ ~bothWays ->
                  [m \in 1..(2 * ((e.len + 1) \div 2)) |->
                     (IF upper THEN e.code + 1 ELSE e.code) + (m - 1)]
             [] e.type = "LSU" /\ ~bothWays ->
                  IF upper THEN <<e.code + 1, e.code + 2, e.code + 2, e.code + 3>>
                  ELSE <<e.code, e.code + 1, e.code + 1, e.code + 2>>
             [] OTHER -> <<e.code, e.code + e.len>>

\* Those of all entries, joined in halves.
unicode_case1(convs) ==
  LET last == Len(case_conv_table)
      points[part \in (1..last) \X (1..last)] ==
        LET lo == part[1]
            hi == part[2]
            mid == (lo + hi) \div 2
        IN  IF lo >= hi THEN EntryPoints(lo, convs)
            ELSE points[<<lo, mid>>] \o points[<<mid + 1, hi>>]
  IN  points[<<1, last>>]
===============================================================================
