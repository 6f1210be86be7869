------------------------------- MODULE CharClass -------------------------------
(***************************************************************************)
(* A character class on its way through the program: calls on a CharRange  *)
(* make the set, re_emit_range writes it, and the interpreter looks        *)
(* characters up in what was written.  The set is written once; it may also *)
(* come from elsewhere, as any member of Classes.                          *)
(***************************************************************************)
EXTENDS CharRange, RangeMatch

classVars == <<crVars, vars>>

NotWritten == points = <<>>

ClassInit ==
  /\ CR_Init
  /\ \/ /\ points = <<>> /\ c = 0 /\ idx_min = 0 /\ idx_max = 0
        /\ status = "no_match"
     \/ Init

MakeSet == NotWritten /\ CR_Next /\ UNCHANGED vars

\* re_emit_range is given a set that an operation has made.  The empty one is
\* written as a character that no text has.
Write ==
  /\ NotWritten
  /\ pc = "done" /\ op \in SetOps \cup {"invert"} /\ cr # <<>>
  /\ points' = cr
  /\ c' \in Characters
  /\ status' = "compile"
  /\ UNCHANGED <<crVars, idx_min, idx_max>>

LookUp == (Emit \/ CheckEnds \/ Halve \/ NothingLeft) /\ UNCHANGED crVars

ClassNext == MakeSet \/ Write \/ LookUp

ClassSpec == ClassInit /\ [][ClassNext]_classVars /\ WF_classVars(LookUp)

--------------------------------------------------------------------------------
\* The interpreter matches a character of the text with the class exactly if it
\* is in the set that the last operation denotes.  (cr_op to REOP_range)
MatchesDenoted ==
  ~NotWritten /\ pc = "done" =>
    /\ status = "match" => Denotes(c)
    /\ status = "no_match" => ~Denotes(c)
================================================================================
