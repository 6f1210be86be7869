----------------------------- MODULE MCJsRegExp -----------------------------
(***************************************************************************)
(* Small subjects and every pattern on them.                               *)
(***************************************************************************)
EXTENDS JsRegExp

\* Texts by the UTF-8 widths of their characters.
SmallTexts == {<<>>, <<1, 1>>, <<2, 1>>, <<1, 4>>}
PairTexts == {<<1, 4>>}
SplitTexts == {<<1, 1, 1>>, <<1, 3, 1>>, <<4, 2>>}

\* The results the body of a pattern can have on a subject of which no match
\* starts or ends inside a pair.
EndsOn(s, empty) ==
  LET at(u) == {NoMatch} \cup {e \in s.bounds : u < e \/ (empty /\ u = e)}
  IN  {ends \in [0..s.len -> s.bounds \cup {NoMatch}] :
         \A u \in 0..s.len : ends[u] \in IF u \in s.bounds THEN at(u) ELSE {NoMatch}}

\* empty: may a pattern match the empty string
AlignedInputs(texts, empty) ==
  UNION {LET s == JsStringOf(text)
         IN  {[js |-> s,
               re |-> [ends |-> e, global |-> g, sticky |-> y, unicode |-> TRUE]] :
                e \in EndsOn(s, empty), g \in BOOLEAN, y \in BOOLEAN} :
         text \in texts}

\* Patterns without the u flag that see the two units of a pair separately.
UnalignedInputs ==
  UNION {LET s == JsStringOf(text)
         IN  {[js |-> s, re |-> [ends |-> e, global |-> g, sticky |-> FALSE, unicode |-> FALSE]] :
                e \in [0..s.len -> 0..s.len \cup {NoMatch}], g \in BOOLEAN} :
         text \in PairTexts}

\* Those that consume text.  The others can keep match in its loop for ever: it
\* takes an entry of indices for the second unit, which the conversion does not
\* write.
UnalignedNonEmpty ==
  {i \in UnalignedInputs : \A u \in 0..i.js.len : i.re.ends[u] # NoMatch => u < i.re.ends[u]}

AllInputs ==
  AlignedInputs(SmallTexts, TRUE) \cup AlignedInputs(SplitTexts, FALSE) \cup UnalignedNonEmpty

PairInputs == {i \in AlignedInputs(PairTexts, TRUE) : i.re.global}
=============================================================================
