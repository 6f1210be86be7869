------------------------------ MODULE MCBacktrack ------------------------------
(***************************************************************************)
(* Small families of patterns, compiled by module ReCompile, over all      *)
(* short subjects.  Each job carries what the JavaScript reference says    *)
(* the match is.                                                           *)
(***************************************************************************)
EXTENDS Backtrack, ReSemantics

A == TChar({97})
B == TChar({98})
AorB == TChar({97, 98})
Sub(terms) == TNonCapture(<<terms>>)
Either(s, t) == TNonCapture(<<s, t>>)
Cap(n, terms) == TGroup(n, <<terms>>)
Plain == [icase |-> FALSE, multi |-> FALSE, dotall |-> FALSE, sticky |-> FALSE, unicode |-> FALSE]

Job(code, flags, pattern, wide, input, start) ==
  LET run == code @@ [input |-> input, start |-> start,
                      utf16 |-> wide /\ flags.unicode, unicode |-> flags.unicode]
  IN [want |-> Reference(run, flags, pattern, code.ncap)] @@ run

\* a pattern on each of the inputs, from its start
OnAll(flags, pattern, inputs) ==
  LET code == Compile(flags, pattern)
  IN {Job(code, flags, pattern, FALSE, w, 0) : w \in inputs}

Strings(units, n) == UNION {[1..k -> units] : k \in 0..n}

(***************************************************************************)
(* Quantifiers over atoms that may be empty, capture, or both, followed by *)
(* a term that makes them backtrack.                                       *)
(***************************************************************************)
Bounds == {<<0, Infinity>>, <<1, Infinity>>, <<0, 1>>, <<2, 2>>, <<0, 2>>, <<1, 2>>, <<2, Infinity>>,
           <<0, 0>>}
Quant(atom) == {TQuant(atom, b[1], b[2], greedy) : b \in Bounds, greedy \in BOOLEAN}

Atoms ==
  {A, Cap(1, <<A>>), TGroup(1, <<<<A>>, <<>>>>), Either(<<Cap(1, <<A>>)>>, <<B>>),
   Sub(<<TQuant(A, 0, 1, FALSE), Cap(1, <<TQuant(B, 0, 1, TRUE)>>)>>),
   TGroup(1, <<<<A>>, <<A, B>>>>)}
HasGroup(term) == GroupsOf(term) # {}

QuantifierPatterns ==
  {<<<<q, B>>>> : q \in UNION {Quant(a) : a \in Atoms}}
  \cup {<<<<q>>>> : q \in {x \in UNION {Quant(a) : a \in Atoms} : x.greedy}}
  \cup {<<<<q, TBackRef(<<1>>), TEnd>>>> : q \in UNION {Quant(a) : a \in {x \in Atoms : HasGroup(x)}}}

QuantifierJobs ==
  LET inputs == {w \in Strings({97, 98}, 3) : Len(w) = 3 => w[1] = 97}
  IN UNION {OnAll(Plain, p, inputs) : p \in QuantifierPatterns}

(***************************************************************************)
(* Lookaheads and lookbehinds: with captures and ways not taken inside,    *)
(* nested, negated, repeated, and read again by a back reference.          *)
(***************************************************************************)
Ahead(body) == TLook(FALSE, FALSE, body)
NotAhead(body) == TLook(TRUE, FALSE, body)
Behind(body) == TLook(FALSE, TRUE, body)
NotBehind(body) == TLook(TRUE, TRUE, body)
Star(atom) == TQuant(atom, 0, Infinity, TRUE)
Opt(atom) == TQuant(atom, 0, 1, TRUE)
Back1 == TBackRef(<<1>>)

AssertionBodies ==
  {<<<<Cap(1, <<A>>)>>>>, <<<<Cap(1, <<Star(AorB)>>), B>>>>, <<<<A>>, <<Cap(1, <<B>>), TEnd>>>>,
   <<<<Opt(A), Cap(1, <<TQuant(B, 0, 2, TRUE)>>)>>>>}

AssertionPatterns ==
  UNION {{<<<<Ahead(b), Back1>>>>, <<<<AorB, Behind(b), Back1>>>>,
          <<<<NotAhead(b), AorB>>>>, <<<<Star(AorB), NotBehind(b), Back1, TEnd>>>>,
          <<<<TQuant(Ahead(b), 0, 2, TRUE), Back1, B>>>>,
          <<<<Star(Sub(<<Ahead(b), AorB>>)), Back1>>>>,
          <<<<Opt(A), NotAhead(<<<<Ahead(b), B, B>>>>), Back1, B>>>>,
          <<<<Star(Either(<<Ahead(b), A>>, <<B>>)), TEnd>>>>} : b \in AssertionBodies}

AssertionJobs ==
  UNION {OnAll(Plain, p, Strings({97, 98}, 3)) : p \in AssertionPatterns}

(***************************************************************************)
(* Surrogate pairs, from every start, with and without the u and y flags.  *)
(***************************************************************************)
High == 55357
Low == 56832
Smile == FromSurrogate(High, Low)
UnicodePatterns ==
  {<<<<TChar({Smile})>>>>, <<<<TDot, TEnd>>>>, <<<<Behind(<<<<TDot, TDot>>>>)>>>>,
   <<<<TChar({Low})>>>>, <<<<TGroup(1, <<<<TDot>>>>), Back1>>>>,
   <<<<Cap(1, <<TDot>>), TDot, Behind(<<<<Back1>>>>)>>>>,
   <<<<NotBehind(<<<<TChar({High})>>>>), TChar({Low, 97})>>>>}
UnicodeJobs ==
  UNION {LET flags == [Plain EXCEPT !.unicode = u, !.sticky = y]
             code == Compile(flags, p)
         IN UNION {{Job(code, flags, p, TRUE, w, i) : i \in 0..Len(w)} :
                     w \in Strings({97, High, Low}, IF y THEN 2 ELSE 3)} :
         p \in UnicodePatterns, u \in BOOLEAN, y \in BOOLEAN}

(***************************************************************************)
(* The flags: case, lines and word boundaries.                             *)
(***************************************************************************)
FlagPatterns ==
  {<<<<TStart, AorB>>>>, <<<<TDot, TEnd>>>>, <<<<TWord(FALSE), TDot, TWord(TRUE)>>>>,
   <<<<Cap(1, <<AorB>>), Back1>>>>, <<<<TSpace(TRUE), Behind(<<<<Back1, Cap(1, <<A>>)>>>>)>>>>,
   <<<<Cap(1, <<A>>), NotBehind(<<<<TSpace(FALSE), TDot>>>>), Ahead(<<<<TDot>>>>)>>>>}
FlagJobs ==
  UNION {OnAll([icase |-> i, multi |-> m, dotall |-> m, sticky |-> FALSE, unicode |-> u], p,
               Strings({97, 65, 10}, IF u THEN 2 ELSE 3)) :
           p \in FlagPatterns, i \in BOOLEAN, m \in BOOLEAN, u \in BOOLEAN}

ResultJobs == QuantifierJobs \cup AssertionJobs \cup UnicodeJobs \cup FlagJobs

(***************************************************************************)
(* The programs with loops, lookaheads and captures together, few enough   *)
(* to follow every saved state by its copy of the captures.                *)
(***************************************************************************)
SharedPatterns ==
  {<<<<TQuant(Sub(<<Ahead(<<<<Cap(1, <<TQuant(AorB, 1, 2, TRUE)>>)>>>>), AorB>>), 1, 2, TRUE), Back1>>>>,
   <<<<Star(Either(<<Cap(1, <<Opt(A)>>), B>>, <<A>>)), Back1, TEnd>>>>,
   <<<<Opt(A), NotAhead(<<<<Ahead(<<<<Cap(1, <<AorB>>)>>>>), B, B>>>>), B>>>>,
   <<<<TQuant(Cap(1, <<TQuant(AorB, 0, 2, FALSE)>>), 2, 2, TRUE), Behind(<<<<A, Back1>>>>)>>>>}
SharedJobs ==
  UNION {OnAll([Plain EXCEPT !.sticky = TRUE], p, Strings({97, 98}, 3)) : p \in SharedPatterns}

ResultIsReference ==
  /\ mode = "match" =>
       job.want = [n \in 1..job.ncap |-> <<capture[StartSlot(n - 1)], capture[EndSlot(n - 1)]>>]
  /\ mode = "fail" => job.want = NoResult
================================================================================
