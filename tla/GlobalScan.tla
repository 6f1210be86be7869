----------------------------- MODULE GlobalScan -----------------------------
(***************************************************************************)
(* What iterating a global RegExp over a text promises, in the terms of    *)
(* the JavaScript reference the README refers to: matches are sought from  *)
(* a position in UTF-16 units; each match is the first at or after it; the *)
(* next search starts where the match ended, one character later if the    *)
(* match was empty.  It knows nothing of bytes, index tables or            *)
(* last_index, nor of who else uses the RegExp object.                     *)
(***************************************************************************)
EXTENDS JsReference

VARIABLES
  js, re,   \* the subject and the pattern; neither ever changes
  phase,    \* "off", "on" while matches are produced, "done" after the last
  pos,      \* the unit from which the next match is sought
  out       \* the spans produced, in units

vars == <<js, re, phase, pos, out>>

Init == phase = "off" /\ pos = 0 /\ out = <<>>

Fixed == UNCHANGED <<js, re>>

Begin ==
  /\ phase' = "on"
  /\ pos' \in 0..(js.len + 1)
  /\ out' = <<>>
  /\ Fixed

Produce ==
  /\ phase = "on"
  /\ \E m \in NextMatches(js, re, pos) : out' = Append(out, m) /\ pos' = AfterMatch(js, m)
  /\ Fixed /\ UNCHANGED phase

Finish ==
  /\ phase = "on"
  /\ NextMatches(js, re, pos) = {}
  /\ phase' = "done" /\ pos' = 0
  /\ Fixed /\ UNCHANGED out

\* Asked again after the end, a closure scans the text again from its start.
Again ==
  /\ phase = "done"
  /\ \/ /\ NextMatches(js, re, 0) = {}
        /\ out' = <<>> /\ UNCHANGED <<pos, phase>>
     \/ \E m \in NextMatches(js, re, 0) :
          out' = <<m>> /\ pos' = AfterMatch(js, m) /\ phase' = "on"
  /\ Fixed

Abandon == phase' = "off" /\ pos' = 0 /\ out' = <<>> /\ Fixed

Next == Begin \/ Produce \/ Finish \/ Again \/ Abandon

Spec == Init /\ [][Next]_vars
=============================================================================
