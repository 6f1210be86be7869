---------------------------- MODULE JsReference ----------------------------
(***************************************************************************)
(* Global matching and splitting as the JavaScript reference defines them, *)
(* which the README names as the documentation of re:match, re:match_all   *)
(* and re:split.  Everything is in UTF-16 units of the subject js, for a   *)
(* pattern re (see RegExpExec): no bytes, no index tables.                 *)
(***************************************************************************)
EXTENDS Naturals, Integers, Sequences

CONSTANT NoMatch

\* The position after u, a character further, past the end of an exhausted text.
Advance(js, u) ==
  IF u >= js.len
    THEN js.len + 1
    ELSE CHOOSE v \in js.bounds : u < v /\ \A w \in js.bounds : u < w => v <= w

Spans(js, re) == {<<u, re.ends[u]>> : u \in {v \in 0..js.len : re.ends[v] # NoMatch}}

\* m is the match found when searching from unit p.
IsNext(js, re, p, m) ==
  /\ m \in Spans(js, re)
  /\ p <= m[1]
  /\ \A v \in p..(m[1] - 1) : re.ends[v] = NoMatch
  /\ re.sticky => m[1] = p

NextMatches(js, re, p) == {m \in Spans(js, re) : IsNext(js, re, p, m)}

\* Where the search goes on after the match m.
AfterMatch(js, m) == IF m[1] = m[2] THEN Advance(js, m[2]) ELSE m[2]

\* All matches of a global pattern from unit p on.
ScanFrom(js, re, p) ==
  LET scan[u \in Nat] ==
        LET hits == NextMatches(js, re, u)
            m == CHOOSE x \in hits : TRUE
        IN  IF hits = {} THEN <<>> ELSE <<m>> \o scan[AfterMatch(js, m)]
  IN  scan[p]

\* The pieces of the text from unit p on, where the current piece began, when q is
\* where the separator is tried.  An empty separator at p is passed over.
PiecesFrom(js, re, p, q) ==
  LET pieces[at \in Nat \X Nat] ==
        LET x == at[1]
            y == at[2]
        IN  IF y >= js.len THEN <<<<x, js.len>>>>
            ELSE IF re.ends[y] \in {NoMatch, x} THEN pieces[<<x, Advance(js, y)>>]
            ELSE <<<<x, y>>>> \o pieces[<<re.ends[y], re.ends[y]>>]
  IN  pieces[<<p, q>>]

\* The pieces a text is split into.
SplitPieces(js, re) ==
  IF js.len = 0 /\ re.ends[0] # NoMatch THEN <<>> ELSE PiecesFrom(js, re, 0, 0)
=============================================================================
