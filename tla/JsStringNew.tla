----------------------------- MODULE JsStringNew -----------------------------
(***************************************************************************)
(* jsstring_new (jsregexp.c): what the conversion loop is given for a      *)
(* text, and the userdata that it makes of it.  JsString describes the     *)
(* userdata by the characters of the text; Utf8ToUtf16 fills it byte after *)
(* byte.                                                                   *)
(***************************************************************************)
EXTENDS Utf8ToUtf16, JsString

\* A width of 0 stands for a byte at which no character can be decoded, which
\* takes up one byte of the string.
BytesOf(text) == [k \in 1..Len(text) |-> IF text[k] = 0 THEN 1 ELSE text[k]]

\* Within a character nothing can be decoded either.
InputOf(text) ==
  LET start == Offsets(BytesOf(text))
      n == start[Len(text)]
  IN  [text |-> text,
       n |-> n,
       width |-> [p \in 0..(n - 1) |->
                    IF \E k \in 1..Len(text) : start[k - 1] = p
                      THEN text[CHOOSE k \in 1..Len(text) : start[k - 1] = p]
                      ELSE 0]]

ASSUME TextsAssumption == \A i \in Inputs : i.text \in Seq(0..4) /\ i = InputOf(i.text)

\* The loop computes exactly the userdata that the model of regexp_exec takes
\* as its subject (JsString), and raises an error only for a malformed string.
MatchesJsString ==
  LET text == input.text
      js == JsStringOf(text)
  IN  /\ status = "wide" => /\ js.wide /\ js.len = q /\ js.blen = input.n
                            /\ js.indices = indices /\ js.rev = rev
                            /\ JsStringOK(js)
      /\ status = "narrow" => ~js.wide /\ js.blen = input.n /\ JsStringOK(js)
      /\ status = "malformed" <=> status \notin {"start", "loop"} /\ \E k \in 1..Len(text) : text[k] = 0
=============================================================================
