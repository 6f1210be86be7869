------------------------------- MODULE RangeMatch -------------------------------
(***************************************************************************)
(* A character class: how re_emit_range writes the intervals of a set of   *)
(* characters into the bytecode, and how REOP_range and REOP_range32 look  *)
(* a character up in them by halving.                                      *)
(*                                                                         *)
(* points is the CharRange of the class: an increasing sequence            *)
(* <<from1, to1, from2, to2, ...>> of half-open intervals, whose last end  *)
(* may be UINT32_MAX for a set without end.                                *)
(***************************************************************************)
EXTENDS CodePoints

CONSTANTS Classes,     \* the CharRanges that are compiled
          MaxRanges    \* the number of intervals that is refused (65535)

MaxUnit == 65535       \* as the high end of a 16 bit interval: no end

ASSUME RangeAssumption ==
  /\ UINT32_MAX > MaxUnit
  /\ MaxRanges \in Nat
  /\ MaxRanges < UINT32_MAX
  /\ \A p \in Classes : /\ p \in Seq(0..UINT32_MAX)
                        /\ Len(p) % 2 = 0
                        /\ Len(p) > 0
                        /\ Increasing(p)

VARIABLES points,    \* the class
          c,         \* the character
          idx_min,   \* the first interval that may hold c
          idx_max,   \* the last one
          status     \* what the lookup is doing, or its answer

vars == <<points, c, idx_min, idx_max, status>>

--------------------------------------------------------------------------------
(***************************************************************************)
(* The emitted intervals, numbered from 0.                                 *)
(***************************************************************************)
Count == Len(points) \div 2
Last == points[Len(points)]

\* 16 bits are enough when the last finite end fits
Narrow == (IF Last = UINT32_MAX THEN points[Len(points) - 1] ELSE Last) <= MaxUnit

Low(i) == points[2 * i + 1]
High_Truncated(i) ==
  IF Narrow THEN (points[2 * i + 2] - 1) % 65536 ELSE points[2 * i + 2] - 1

High(i) ==
  IF Narrow /\ points[2 * i + 2] = UINT32_MAX THEN MaxUnit ELSE points[2 * i + 2] - 1

(***************************************************************************)
(* The lookup.                                                             *)
(***************************************************************************)
Init ==
  /\ points \in Classes
  /\ c \in Characters
  /\ idx_min = 0
  /\ idx_max = 0
  /\ status = "compile"

Emit ==
  /\ status = "compile"
  /\ status' = IF Count >= MaxRanges THEN "too_many_ranges" ELSE "start"
  /\ UNCHANGED <<points, c, idx_min, idx_max>>

CheckEnds_NoFirst ==
  /\ status = "start"
  /\ idx_max' = Count - 1
  /\ status' = IF Narrow /\ c >= MaxUnit /\ High(Count - 1) = MaxUnit THEN "match"
               ELSE IF c > High(Count - 1) THEN "no_match"
               ELSE "search"
  /\ UNCHANGED <<points, c, idx_min>>

\* below the first interval, in the endless last one, above the last one, or
\* somewhere between
CheckEnds ==
  /\ status = "start"
  /\ idx_max' = IF c < Low(0) THEN idx_max ELSE Count - 1
  /\ status' = IF c < Low(0) THEN "no_match"
               ELSE IF Narrow /\ c >= MaxUnit /\ High(Count - 1) = MaxUnit THEN "match"
               ELSE IF c > High(Count - 1) THEN "no_match"
               ELSE "search"
  /\ UNCHANGED <<points, c, idx_min>>

\* unsigned arithmetic
Minus1(i) == IF i = 0 THEN UINT32_MAX ELSE i - 1

Halve_Stay ==
  /\ status = "search"
  /\ idx_min <= idx_max
  /\ LET idx == (idx_min + idx_max) \div 2 IN
       \/ /\ c < Low(idx)
          /\ idx_max' = Minus1(idx)
          /\ UNCHANGED <<idx_min, status>>
       \/ /\ Low(idx) <= c
          /\ c > High(idx)
          /\ idx_min' = idx
          /\ UNCHANGED <<idx_max, status>>
       \/ /\ Low(idx) <= c /\ c <= High(idx)
          /\ status' = "match"
          /\ UNCHANGED <<idx_min, idx_max>>
  /\ UNCHANGED <<points, c>>

Halve ==
  /\ status = "search"
  /\ idx_min <= idx_max
  /\ LET idx == (idx_min + idx_max) \div 2 IN
       \/ /\ c < Low(idx)
          /\ idx_max' = Minus1(idx)
          /\ UNCHANGED <<idx_min, status>>
       \/ /\ Low(idx) <= c
          /\ c > High(idx)
          /\ idx_min' = idx + 1
          /\ UNCHANGED <<idx_max, status>>
       \/ /\ Low(idx) <= c /\ c <= High(idx)
          /\ status' = "match"
          /\ UNCHANGED <<idx_min, idx_max>>
  /\ UNCHANGED <<points, c>>

NothingLeft ==
  /\ status = "search"
  /\ idx_min > idx_max
  /\ status' = "no_match"
  /\ UNCHANGED <<points, c, idx_min, idx_max>>

Answers == {"match", "no_match", "too_many_ranges"}

Answered == status \in Answers /\ UNCHANGED vars

Next == Emit \/ CheckEnds \/ Halve \/ NothingLeft \/ Answered

Spec == Init /\ [][Next]_vars /\ WF_vars(Next)

--------------------------------------------------------------------------------
(***************************************************************************)
(* Properties.                                                             *)
(***************************************************************************)
\* idx_min and idx_max stay natural numbers, in every state of the lookup.
TypeOK ==
  /\ idx_min \in Nat
  /\ idx_max \in Nat
  /\ status \in Answers \cup {"compile", "start", "search"}

\* The class itself, whatever the bytecode makes of it.
Member ==
  \E i \in 0..(Count - 1) :
    /\ points[2 * i + 1] <= c
    /\ c < points[2 * i + 2]

\* REOP_range and REOP_range32 accept exactly the characters of the class, with
\* 0xffff read as no end in the 16 bit form and as itself in the 32 bit form.
FoundIffMember ==
  /\ status = "match" => Member
  /\ status = "no_match" => ~Member

\* The loop only reads intervals that exist: idx_max = idx - 1 is computed on
\* uint32_t and does not wrap, although nothing in the loop tests idx for 0.
InBounds == status = "search" /\ idx_min <= idx_max => idx_max < Count

\* The loop ends.
Answers_Eventually == status = "compile" ~> status \in Answers
================================================================================
