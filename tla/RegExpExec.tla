----------------------------- MODULE RegExpExec -----------------------------
(***************************************************************************)
(* regexp_exec (jsregexp.c) as a function of the RegExp object, its        *)
(* last_index and the subject.                                             *)
(*                                                                         *)
(* A compiled pattern is known to the binding only by what lre_exec        *)
(* returns.  re.ends[u] is the unit at which the body of the pattern ends  *)
(* when it is tried at unit u of the subject, or NoMatch; the search over  *)
(* start positions is the loop lre_compile puts in front of the body of a  *)
(* pattern that is not sticky.  Positions are 0-based here: the Lua side   *)
(* sees last_index and index one higher.                                   *)
(***************************************************************************)
EXTENDS Naturals, Integers, JsString

NoMatch == -1

RegExpOK(re, js) ==
  /\ re \in [global : BOOLEAN, sticky : BOOLEAN, unicode : BOOLEAN,
             ends : [0..js.len -> (0..js.len) \cup {NoMatch}]]
  /\ \A u \in 0..js.len : re.ends[u] # NoMatch => u <= re.ends[u]

\* A pattern that walks the text by code points starts and stops at the
\* boundaries of characters; so does any pattern on a text without pairs.
AlignedOn(re, js) ==
  \A u \in 0..js.len : re.ends[u] # NoMatch => {u, re.ends[u]} \subseteq js.bounds

-----------------------------------------------------------------------------
\* r is where the loop over rev_indices, entered at byte last, stops.
IsNextValid(js, last, r) ==
  /\ r \in last..js.blen
  /\ r = js.blen \/ js.rev[r] # 0
  /\ \A p \in last..(r - 1) : js.rev[p] = 0

\* last_index in the units of the subject.
TranslateLastIndex(js, last) ==
  IF js.wide /\ last \in 1..js.blen
    THEN js.rev[CHOOSE r \in last..js.blen : IsNextValid(js, last, r)]
    ELSE last

\* The start lre_exec really uses: in unicode mode a position between the
\* units of a pair is moved back to the pair.
EngineStart(re, js, start) ==
  IF re.unicode /\ js.wide /\ start \in 1..(js.len - 1) /\ start \notin js.bounds
    THEN start - 1
    ELSE start

\* A match of lre_exec from a start: the first unit at which the body matches.
IsMatchAt(re, js, start, u) ==
  LET from == EngineStart(re, js, start)
  IN  /\ u \in from..js.len
      /\ re.ends[u] # NoMatch
      /\ IF re.sticky THEN u = from
                      ELSE \A v \in from..(u - 1) : re.ends[v] = NoMatch

Matches(re, js, start) == {u \in 0..js.len : IsMatchAt(re, js, start, u)}

ByteOf(js, u) == IF js.wide THEN js.indices[u] ELSE u

(***************************************************************************)
(* The result of re:exec: whether there is a match, the bytes it spans and *)
(* the new last_index.  "ok" is FALSE when the span is not one: b - a then *)
(* wraps and pushing the match raises an error or worse.                   *)
(***************************************************************************)
Indexed(re) == re.global \/ re.sticky

\* What becomes of last_index after a match.
StoredIndex_Start(re, from, to) == IF Indexed(re) THEN from ELSE 0
StoredIndex(re, from, to) == IF Indexed(re) THEN to ELSE 0

NoResult == [found |-> FALSE, from |-> 0, to |-> 0, last |-> 0, ok |-> TRUE]

Exec(re, js, last) ==
  LET start == IF Indexed(re) THEN TranslateLastIndex(js, last) ELSE 0
      hits == Matches(re, js, start)
      u == CHOOSE x \in hits : TRUE
      from == ByteOf(js, u)
      to == ByteOf(js, re.ends[u])
  IN  IF start > js.len \/ hits = {}
        THEN NoResult
        ELSE [found |-> TRUE,
              from |-> from,
              to |-> to,
              last |-> StoredIndex(re, from, to),
              ok |-> from <= to]
=============================================================================
