--------------------------- MODULE MCUtf8ToUtf16 ---------------------------
(***************************************************************************)
(* Every text of up to four characters of one to four bytes, and every     *)
(* position at which the decoder may give up.                              *)
(***************************************************************************)
EXTENDS JsStringNew, SequencesExt

CONSTANT MaxChars

MCInputs == {InputOf(text) : text \in BoundedSeq(0..4, MaxChars)}
=============================================================================
