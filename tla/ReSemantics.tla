------------------------------ MODULE ReSemantics ------------------------------
(***************************************************************************)
(* What a pattern matches according to the JavaScript reference            *)
(* (ECMAScript, "Pattern Semantics"), written over the syntax tree of      *)
(* module ReCompile and independent of the bytecode.                       *)
(*                                                                         *)
(* Results(..., x) are all the states in which a part of a pattern can     *)
(* leave the state x = [e, cap], in the order in which they are tried.     *)
(* The subject is a sequence of characters; e counts characters.           *)
(***************************************************************************)
EXTENDS ReCompile, SequencesExt

Unset == <<>>     \* a group that took no part, otherwise <<start, end>>

RECURSIVE FlatMap(_, _)
FlatMap(f(_), s) == IF s = <<>> THEN <<>> ELSE f(Head(s)) \o FlatMap(f, Tail(s))
If1(cond, x) == IF cond THEN <<x>> ELSE <<>>

\* the groups of a term, by their number
RECURSIVE GroupsOf(_)
GroupsIn(body) == UNION {GroupsOf(body[i][k]) : <<i, k>> \in
                           {ik \in (DOMAIN body) \X (1..9) : ik[2] \in DOMAIN body[ik[1]]}}
GroupsOf(term) ==
  CASE term.t = "group" -> {term.n} \cup GroupsIn(term.body)
    [] term.t \in {"noncapture", "look"} -> GroupsIn(term.body)
    [] term.t = "quant" -> GroupsOf(term.atom)
    [] OTHER -> {}

ResetGroupsOf(x, groups) ==
  [x EXCEPT !.cap = [n \in DOMAIN x.cap |-> IF n \in groups THEN Unset ELSE x.cap[n]]]

(***************************************************************************)
(* r has the fields subject (characters), flags and job (for the case      *)
(* conversion).                                                            *)
(***************************************************************************)
Same(r, c1, c2) ==
  IF r.flags.icase THEN Canonicalize(r.job, c1) = Canonicalize(r.job, c2) ELSE c1 = c2

ReadOne(r, x, back, ok(_)) ==
  LET inside == IF back THEN x.e > 0 ELSE x.e < Len(r.subject)
      ch == r.subject[IF back THEN x.e ELSE x.e + 1]
  IN If1(inside /\ ok(ch), [x EXCEPT !.e = IF back THEN x.e - 1 ELSE x.e + 1])

WordAt(r, i) ==
  /\ i \in DOMAIN r.subject
  /\ \/ IsWordByte(r.subject[i])
     \/ r.flags.icase /\ r.flags.unicode /\ r.subject[i] \in {383, 8490}

SameAgain(r, x, back, groups) ==
  LET set == {i \in DOMAIN groups : x.cap[groups[i]] # Unset}
      sub == x.cap[groups[CHOOSE i \in set : TRUE]]
      len == sub[2] - sub[1]
      from == IF back THEN x.e - len ELSE x.e
      fits == from >= 0 /\ from + len <= Len(r.subject)
  IN IF set = {} THEN <<x>>
     ELSE If1(fits /\ \A i \in 1..len : Same(r, r.subject[sub[1] + i], r.subject[from + i]),
              [x EXCEPT !.e = IF back THEN x.e - len ELSE x.e + len])

RECURSIVE ResultsOfDisjunction(_, _, _, _), Repeat(_, _, _, _, _, _)

Results(r, term, x, back) ==
  CASE term.t = "char" -> ReadOne(r, x, back, LAMBDA ch : \E c \in term.set : Same(r, c, ch))
    [] term.t = "dot" -> ReadOne(r, x, back, LAMBDA ch : r.flags.dotall \/ ~IsLineTerminator(ch))
    [] term.t = "space" -> ReadOne(r, x, back, LAMBDA ch : IsSpace(ch) # term.neg)
    [] term.t = "start" ->
         If1(x.e = 0 \/ (r.flags.multi /\ IsLineTerminator(r.subject[x.e])), x)
    [] term.t = "end" ->
         If1(x.e = Len(r.subject) \/ (r.flags.multi /\ IsLineTerminator(r.subject[x.e + 1])), x)
    [] term.t = "word" -> If1((WordAt(r, x.e) # WordAt(r, x.e + 1)) # term.neg, x)
    [] term.t = "backref" -> SameAgain(r, x, back, term.groups)
    [] term.t = "noncapture" -> ResultsOfDisjunction(r, term.body, x, back)
    [] term.t = "group" ->
         LET close(y) == [y EXCEPT !.cap[term.n] = IF back THEN <<y.e, x.e>> ELSE <<x.e, y.e>>]
         IN FlatMap(LAMBDA y : <<close(y)>>, ResultsOfDisjunction(r, term.body, x, back))
    [] term.t = "look" ->
         LET inner == ResultsOfDisjunction(r, term.body, x, term.behind)
         IN IF term.neg THEN If1(inner = <<>>, x)
            ELSE IF inner = <<>> THEN <<>> ELSE <<[x EXCEPT !.cap = inner[1].cap]>>
    [] term.t = "quant" -> Repeat(r, term, term.min, term.max, x, back)

\* RepeatMatcher: the groups of the atom are reset before each turn, and after the
\* minimal number of turns one that does not advance is refused
Repeat(r, term, min, max, x, back) ==
  LET fewer(k) == IF k = 0 \/ k = Infinity THEN k ELSE k - 1
      once == Results(r, term.atom, ResetGroupsOf(x, GroupsOf(term.atom)), back)
      again == FlatMap(LAMBDA y : IF min = 0 /\ y.e = x.e THEN <<>>
                                  ELSE Repeat(r, term, fewer(min), fewer(max), y, back), once)
  IN IF max = 0 THEN <<x>>
     ELSE IF min # 0 THEN again
     ELSE IF term.greedy THEN again \o <<x>> ELSE <<x>> \o again

RECURSIVE ResultsOfTerms(_, _, _, _)
ResultsOfTerms(r, terms, x, back) ==
  IF terms = <<>> THEN <<x>>
  ELSE FlatMap(LAMBDA y : ResultsOfTerms(r, Tail(terms), y, back), Results(r, Head(terms), x, back))

ResultsOfDisjunction(r, body, x, back) ==
  FlatMap(LAMBDA terms : ResultsOfTerms(r, IF back THEN Reverse(terms) ELSE terms, x, back), body)

--------------------------------------------------------------------------------
(***************************************************************************)
(* The subject as characters, with the code unit each starts at.           *)
(***************************************************************************)
UnitStarts(job) ==
  LET n == Len(job.input)
      f[p \in 0..(n + 1)] == IF p >= n THEN <<p>> ELSE <<p>> \o f[After(job, p, n)]
  IN f[0]

(***************************************************************************)
(* RegExpBuiltinExec from job.start: NoResult, or the ends of each group,  *)
(* in code units.                                                          *)
(***************************************************************************)
NoResult == <<>>

Reference(job, flags, pattern, groups) ==
  LET starts == UnitStarts(job)
      chars == Len(starts) - 1
      subject == [i \in 1..chars |-> CharAt(job, starts[i], Len(job.input))]
      r == [subject |-> subject, flags |-> flags, job |-> job]
      first == (CHOOSE i \in 1..(chars + 1) :
                  /\ starts[i] <= job.start
                  /\ i <= chars => starts[i + 1] > job.start) - 1
      none == [n \in 1..(groups - 1) |-> Unset]
      from(e) == ResultsOfDisjunction(r, pattern, [e |-> e, cap |-> none], FALSE)
      tried == IF flags.sticky THEN {first} ELSE first..chars
      hits == {e \in tried : from(e) # <<>>}
      best == CHOOSE e \in hits : \A h \in hits : e <= h
      x == from(best)[1]
      units(sub) == IF sub = Unset THEN <<NULL, NULL>> ELSE <<starts[sub[1] + 1], starts[sub[2] + 1]>>
  IN IF hits = {} THEN NoResult
     ELSE <<units(<<best, x.e>>)>> \o [n \in 1..(groups - 1) |-> units(x.cap[n])]
================================================================================
