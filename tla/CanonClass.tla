------------------------------ MODULE CanonClass ------------------------------
(***************************************************************************)
(* cr_regexp_canonicalize (libunicode.c:615-742): the set of the canonical *)
(* forms of the characters of a set.  The characters that folding can      *)
(* change are folded one by one, which gives intervals in no order; these  *)
(* are sorted (Rqsort), united, and joined with the characters that stay.  *)
(* What cr_op makes of its operands is that of CharRange, in one step.     *)
(***************************************************************************)
EXTENDS CodePoints, Rqsort, CaseConv

CONSTANTS Inputs,       \* the sets to canonicalize, and their u flag
          MaxFailures   \* how often memory runs out (a bound)

ASSUME InputsAssumption == \A n \in Inputs : n.set \in Ranges /\ n.is_unicode \in BOOLEAN

VARIABLES
  cr,            \* the points of the set, at the end of its canonical form
  input,         \* history: the set that was given, and the flag is_unicode
  cr_inter,      \* its characters that folding may change
  cr_sub,        \* and the others
  size,          \* room in cr_result; its intervals are the elements of arr
  idx,           \* the entry of the conversion table
  i, c,          \* the interval of cr_inter and the character to fold next
  d,             \* <<d_start, d_end>>, none at first
  failures,      \* how often memory ran out
  lost,          \* history: folded characters that were dropped for it
  pc             \* where cr_regexp_canonicalize is

canonVars == <<cr, input, cr_inter, cr_sub, size, idx, i, c, d, failures, lost, pc>>

None == <<>>

--------------------------------------------------------------------------------
(***************************************************************************)
(* cr_op and cr_invert: the points where a character begins or ceases to   *)
(* be in a set, among those of the operands.                               *)
(***************************************************************************)
PointsOf(s) == {s[n] : n \in DOMAIN s}

InOrder(S) ==
  [n \in 1..Cardinality(S) |-> CHOOSE p \in S : Cardinality({q \in S : q < p}) = n - 1]

Inter(s, t) ==
  LET in(p) == Contains(s, p) /\ Contains(t, p)
  IN  InOrder({p \in PointsOf(s) \cup PointsOf(t) : in(p) # in(p - 1)})

Minus(s, t) ==
  LET in(p) == Contains(s, p) /\ ~Contains(t, p)
  IN  InOrder({p \in PointsOf(s) \cup PointsOf(t) : in(p) # in(p - 1)})

Union(s, t) ==
  LET in(p) == Contains(s, p) \/ Contains(t, p)
  IN  InOrder({p \in PointsOf(s) \cup PointsOf(t) : in(p) # in(p - 1)})

\* The points of what unicode_case1 gives for the flag: what folding may change.
cr_mask == [u \in BOOLEAN |-> unicode_case1({IF u THEN "fold" ELSE "upper"})]

\* What the generated table has: an interval of the mask is a part of an entry; an
\* entry folds its characters to natural numbers, and those that are not in the mask
\* to themselves; and what ASCII is folded to without the table is what is in it.
ASSUME FoldingAssumption ==
  \A u \in BOOLEAN :
    /\ cr_mask[u] \in Ranges
    /\ \A n \in DOMAIN cr_mask[u] :
         Odd(n) => \E k \in DOMAIN case_conv_table :
                     /\ Entry(k).code <= cr_mask[u][n]
                     /\ cr_mask[u][n + 1] <= Entry(k).code + Entry(k).len
    /\ \A k \in DOMAIN case_conv_table :
         \A x \in Entry(k).code..(Entry(k).code + Entry(k).len - 1) :
           /\ lre_case_folding_entry(x, k, u) \in Nat
           /\ lre_case_folding_entry(x, k, u) = x \/ Contains(cr_mask[u], x)
    /\ \A x \in 0..127 :
         lre_canonicalize(x, u) =
           IF EntryOf(x) = {} THEN x
           ELSE lre_case_folding_entry(x, CHOOSE k \in EntryOf(x) : TRUE, u)

CanonIdle ==
  /\ cr = <<>> /\ input = [set |-> <<>>, is_unicode |-> FALSE]
  /\ cr_inter = <<>> /\ cr_sub = <<>> /\ size = 0
  /\ idx = 1 /\ i = 1 /\ c = 0 /\ d = None
  /\ failures = 0 /\ lost = {}
  /\ pc = "idle"

CanonInit ==
  /\ SortIdle
  /\ \E n \in Inputs : cr = n.set /\ input = n
  /\ cr_inter = <<>> /\ cr_sub = <<>> /\ size = 0
  /\ idx = 1 /\ i = 1 /\ c = 0 /\ d = None
  /\ failures = 0 /\ lost = {}
  /\ pc = "inter"

Goto(from, to) == pc = from /\ pc' = to

Intersect ==
  /\ Goto("inter", "sub")
  /\ cr_inter' = Inter(cr, cr_mask[input.is_unicode])
  /\ UNCHANGED <<cr, input, cr_sub, size, idx, i, c, d, failures, lost, sortVars>>

Subtract ==
  /\ Goto("sub", "fold")
  /\ cr_sub' = Minus(cr, cr_mask[input.is_unicode])
  /\ c' = IF cr_inter = <<>> THEN c ELSE cr_inter[1]
  /\ UNCHANGED <<cr, input, cr_inter, size, idx, i, d, failures, lost, sortVars>>

\* No memory: -1, where the result is looked at.
Fail ==
  /\ pc \in {"inter", "sub", "last", "union"}
  /\ failures < MaxFailures
  /\ failures' = failures + 1
  /\ pc' = "failed"
  /\ cr' = IF pc = "union" THEN <<>> ELSE cr
  /\ UNCHANGED <<input, cr_inter, cr_sub, size, idx, i, c, d, lost, sortVars>>

--------------------------------------------------------------------------------
(***************************************************************************)
(* The folding of cr_inter.                                                *)
(***************************************************************************)

\* The entry with the character, which the loop only seeks upwards: the assertion
\* says that there is one.
EntryFrom(k) == {n \in k..Len(case_conv_table) : InEntry(c, n)}

\* The next character of cr_inter.
NextCharacter ==
  IF c + 1 < cr_inter[i + 1]
    THEN c' = c + 1 /\ i' = i
    ELSE /\ i' = i + 2
         /\ c' = IF i + 2 < Len(cr_inter) THEN cr_inter[i + 2] ELSE c

Room(n) == IF n > size THEN IF n > (size * 3) \div 2 THEN n ELSE (size * 3) \div 2 ELSE size

\* cr_add_interval(&cr_result, d_start, d_end), whose result the loop ignores.
AddToResult ==
  \/ /\ arr' = Append(arr, d) /\ size' = Room(2 * Len(arr) + 2)
     /\ UNCHANGED <<failures, lost>>
  \/ /\ 2 * Len(arr) + 2 > size /\ failures < MaxFailures
     /\ failures' = failures + 1
     /\ lost' = lost \cup (d[1]..(d[2] - 1))
     /\ UNCHANGED <<arr, size>>

\* The folded character e continues the current interval or starts a new one.
Joined(e) == d[2] = e /\ d' = <<d[1], e + 1>> /\ UNCHANGED <<arr, size, failures, lost>>

Fold ==
  /\ pc = "fold" /\ i < Len(cr_inter)
  /\ \E k \in EntryFrom(idx) : idx' = k /\ \A n \in EntryFrom(idx) : k <= n
  /\ \E e \in {lre_case_folding_entry(c, idx', input.is_unicode)} :
         \/ d = None /\ d' = <<e, e + 1>> /\ UNCHANGED <<arr, size, failures, lost>>
         \/ d # None /\ Joined(e)
         \/ d # None /\ d[2] # e /\ d' = <<e, e + 1>> /\ AddToResult
  /\ NextCharacter
  /\ UNCHANGED <<cr, input, cr_inter, cr_sub, pc>>
  /\ UNCHANGED <<unsorted, stack, ptr, nmemb, depth, plt, pi, pj, pgt, r, spc>>

FoldEnds ==
  /\ pc = "fold" /\ i > Len(cr_inter)
  /\ pc' = "last"
  /\ UNCHANGED <<cr, input, cr_inter, cr_sub, size, idx, i, c, d, failures, lost, sortVars>>

\* The last interval, and rqsort is called.
AddLast ==
  /\ Goto("last", "sort")
  /\ SortCall(IF d = None THEN arr ELSE Append(arr, d))
  /\ UNCHANGED <<cr, input, cr_inter, cr_sub, size, idx, i, c, d, failures, lost>>

--------------------------------------------------------------------------------
(***************************************************************************)
(* cr_sort_and_remove_overlap, after the sort: intervals that overlap or   *)
(* touch are made one.                                                     *)
(***************************************************************************)
Later(m, n) == IF m < n THEN n ELSE m

WithoutOverlap_NoMax(s) ==
  LET upTo[n \in 0..Len(s)] ==
        IF n = 0 THEN <<>>
        ELSE LET out == upTo[n - 1]
                 last == out[Len(out)]
             IN  IF n > 1 /\ s[n][1] <= last[2]
                   THEN [out EXCEPT ![Len(out)] = <<last[1], s[n][2]>>]
                   ELSE Append(out, s[n])
  IN  upTo[Len(s)]

WithoutOverlap(s) ==
  LET upTo[n \in 0..Len(s)] ==
        IF n = 0 THEN <<>>
        ELSE LET out == upTo[n - 1]
                 last == out[Len(out)]
             IN  IF n > 1 /\ s[n][1] <= last[2]
                   THEN [out EXCEPT ![Len(out)] = <<last[1], Later(last[2], s[n][2])>>]
                   ELSE Append(out, s[n])
  IN  upTo[Len(s)]

RemoveOverlap ==
  /\ Goto("sort", "union") /\ spc = "sorted"
  /\ arr' = WithoutOverlap(arr) /\ spc' = "idle"
  /\ UNCHANGED <<cr, input, cr_inter, cr_sub, size, idx, i, c, d, failures, lost>>
  /\ UNCHANGED <<unsorted, stack, ptr, nmemb, depth, plt, pi, pj, pgt, r>>

Flat(s) == [n \in 1..(2 * Len(s)) |-> s[(n + 1) \div 2][IF Odd(n) THEN 1 ELSE 2]]

Unite ==
  /\ Goto("union", "done")
  /\ cr' = Union(Flat(arr), cr_sub)
  /\ UNCHANGED <<input, cr_inter, cr_sub, size, idx, i, c, d, failures, lost, sortVars>>

CanonStep ==
  \/ Intersect \/ Subtract \/ Fail
  \/ Fold \/ FoldEnds \/ AddLast
  \/ RemoveOverlap \/ Unite

CanonNext == CanonStep \/ (SortStep /\ UNCHANGED canonVars)

CanonSpec == CanonInit /\ [][CanonNext]_<<canonVars, sortVars>>

--------------------------------------------------------------------------------
(***************************************************************************)
(* Properties.                                                             *)
(***************************************************************************)
Elements(s) == UNION {s[n]..(s[n + 1] - 1) : n \in {m \in DOMAIN s : Odd(m)}}

CanonicalForms == {lre_canonicalize(x, input.is_unicode) : x \in Elements(input.set)}

\* If memory lasts, the set has become that of the canonical forms of its
\* characters, each found on its own by halving; and while they are folded there is
\* always an entry with the character, as the assertion says.
\* (cr_regexp_canonicalize, libunicode.c:699)
CanonExact ==
  /\ pc = "fold" /\ i < Len(cr_inter) => EntryFrom(idx) # {}
  /\ pc = "done" => /\ Elements(cr) \subseteq CanonicalForms
                    /\ CanonicalForms \subseteq Elements(cr) \cup lost
                    /\ Increasing(cr)
================================================================================
