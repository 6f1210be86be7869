------------------------------ MODULE MCClassSet ------------------------------
(***************************************************************************)
(* The reference for a class, written over its syntax tree and independent *)
(* of the parser: what the tree's text denotes, as a set of strings, and   *)
(* whether the text is allowed (ECMAScript, ClassSetExpression and         *)
(* CompileToCharSet).  The program reads the text of the tree.             *)
(***************************************************************************)
EXTENDS ClassSet, CaseConv

CONSTANT Classes       \* the trees, and the flags they are read with

VARIABLE class         \* the tree that pattern is the text of

Atom(tok) == [t |-> "atom", tok |-> tok]
Interv(lo, hi) == [t |-> "range", lo |-> lo, hi |-> hi]
Quoted(alts) == [t |-> "q", alts |-> alts]
Class(neg, items, gaps) == [t |-> "class", neg |-> neg, items |-> items, gaps |-> gaps]

--------------------------------------------------------------------------------
\* The text.
Gap(g) == CASE g = "and" -> <<"&", "&">> [] g = "minus" -> <<"-", "-">> [] OTHER -> <<>>

Joined(ss, sep) ==
  FlattenSeq([k \in DOMAIN ss |-> (IF k > 1 THEN sep ELSE <<>>) \o ss[k]])

RECURSIVE Text(_)
Text(x) ==
  CASE x.t = "atom" -> <<x.tok>>
    [] x.t = "range" -> <<x.lo, "-", x.hi>>
    [] x.t = "q" -> <<"\\q", "{">> \o Joined(x.alts, <<"|">>) \o <<"}">>
    [] OTHER ->
         (IF x.neg THEN <<"[", "^">> ELSE <<"[">>)
         \o FlattenSeq([k \in DOMAIN x.items |->
                          Text(x.items[k])
                            \o (IF k \in DOMAIN x.gaps THEN Gap(x.gaps[k]) ELSE <<>>)])
         \o <<"]">>

--------------------------------------------------------------------------------
\* What the text denotes.
MCCodeOf ==
  "&" :> 38 @@ "-" :> 45 @@ "A" :> 65 @@ "B" :> 66 @@ "[" :> 91 @@ "^" :> 94
    @@ "a" :> 97 @@ "b" :> 98 @@ "K" :> 75 @@ "kelvin" :> 8490 @@ "{" :> 123 @@ "|" :> 124
    @@ "}" :> 125 @@ "(" :> 40 @@ "emoji" :> 128512

MCUniverse == {1, 21, 38, 40, 45, 50, 65, 66, 75, 94, 97, 98, 107, 8490, 128512}

\* The canonical forms, which are those of CaseConv.
MCCanonical ==
  [u \in BOOLEAN |->
     [c \in MCUniverse |->
        IF u THEN CASE c \in {65, 66, 75} -> c + 32 [] c = 8490 -> 107 [] OTHER -> c
        ELSE IF c \in {97, 98, 107} THEN c - 32 ELSE c]]

ASSUME CanonicalAssumption ==
  \A u \in BOOLEAN : \A c \in MCUniverse : MCCanonical[u][c] = lre_canonicalize(c, u)

CodeOfTok(tok) ==
  CASE tok = "\\-" -> 45 [] tok = "\\^" -> 94 [] tok = "\\k" -> 107
    [] tok = "\\cA" -> 1 [] tok = "\\c5" -> 21
    [] OTHER -> CodeOf[tok]

Digits == {50}
Words == {50, 65, 66, 75, 97, 98, 107}
Uppercase == {65, 66, 75}

MCProperties ==
  LET p(name, value, inv) == [name |-> name, value |-> value, inv |-> inv]
  IN  "\\p{Lu}" :> p("Lu", "", FALSE) @@ "\\P{gc=Lu}" :> p("gc", "Lu", TRUE)
        @@ "\\p{Seq}" :> p("Seq", "", FALSE) @@ "\\P{Seq}" :> p("Seq", "", TRUE)
        @@ "\\p{sc=Lu}" :> p("sc", "Lu", FALSE) @@ "\\P{ASCII}" :> p("ASCII", "", TRUE)

Sequences == <<<<98, 98>>, <<65>>, <<65, 97>>>>

MCTables ==
  <<"gc", "Lu">> :> Uppercase @@ <<"prop", "ASCII">> :> (MCUniverse \ {8490, 128512})
    @@ <<"sequence", "Seq">> :> Sequences

Unfolded == [f \in [u : BOOLEAN, v : BOOLEAN, ic : BOOLEAN] |->
               [c \in Universe |-> IF f.ic THEN Canonical[f.u][c] ELSE c]]

Fold(f, S) == {[k \in DOMAIN s |-> Unfolded[f][s[k]]] : s \in S}
Chars(S) == {<<c>> : c \in S}
Without(f, S) == Fold(f, Chars(Universe)) \ Fold(f, S)

TokValue(tok, f) ==
  CASE tok = "\\d" -> Chars(Digits)
    [] tok = "\\w" -> Fold(f, Chars(Words))
    [] tok = "\\W" -> Without(f, Chars(Words))
    [] tok = "\\p{Lu}" -> Fold(f, Chars(Uppercase))
    [] tok = "\\P{gc=Lu}" ->
         IF f.v THEN Without(f, Chars(Uppercase)) ELSE Fold(f, Chars(Universe \ Uppercase))
    [] tok = "\\P{ASCII}" ->
         IF f.v THEN Without(f, Chars(Universe \ {8490, 128512}))
         ELSE Fold(f, Chars({8490, 128512}))
    [] tok = "\\p{Seq}" -> Fold(f, {Sequences[k] : k \in DOMAIN Sequences})
    [] OTHER -> Fold(f, Chars({CodeOfTok(tok)}))

SetTokens == {"\\d", "\\w", "\\W"} \cup DOMAIN MCProperties

RECURSIVE Value(_, _)
Value(x, f) ==
  CASE x.t = "atom" -> TokValue(x.tok, f)
    [] x.t = "range" ->
         IF {x.lo, x.hi} \cap SetTokens = {}
           THEN Fold(f, Chars({c \in Universe : CodeOfTok(x.lo) <= c /\ c <= CodeOfTok(x.hi)}))
           ELSE TokValue(x.lo, f) \cup TokValue(x.hi, f) \cup Chars({45})
    [] x.t = "q" ->
         LET chars(alt) == [n \in DOMAIN alt |-> CodeOfTok(alt[n])]
         IN  Fold(f, {chars(x.alts[k]) : k \in DOMAIN x.alts})
    [] OTHER ->
         LET v(k) == Value(x.items[k], f)
             in(s) ==
               CASE Len(x.gaps) = 0 \/ x.gaps[1] = "or" -> \E k \in DOMAIN x.items : s \in v(k)
                 [] x.gaps[1] = "and" -> \A k \in DOMAIN x.items : s \in v(k)
                 [] OTHER -> s \in v(1) /\ \A k \in 2..Len(x.items) : s \notin v(k)
             all == {s \in UNION {v(k) : k \in DOMAIN x.items} : in(s)}
         IN  IF x.neg THEN Without(f, all) ELSE all

\* Whether it is allowed.
TokAllowed(tok, f) ==
  CASE tok \in {"\\p{sc=Lu}", "\\P{Seq}", "\\k", "\\c5"} -> ~f.u
    [] tok = "\\p{Seq}" -> f.v
    [] tok = "(" -> ~f.v
    [] OTHER -> TRUE

RECURSIVE WellFormed(_, _)
WellFormed(x, f) ==
  CASE x.t = "atom" -> TokAllowed(x.tok, f)
    [] x.t = "range" ->
         /\ TokAllowed(x.lo, f) /\ TokAllowed(x.hi, f)
         /\ IF {x.lo, x.hi} \cap SetTokens = {}
              THEN CodeOfTok(x.lo) <= CodeOfTok(x.hi) ELSE ~f.u
    [] x.t = "q" -> \A k \in DOMAIN x.alts : \A n \in DOMAIN x.alts[k] :
                      TokAllowed(x.alts[k][n], f) /\ x.alts[k][n] \notin SetTokens
    [] OTHER ->
         /\ \A k \in DOMAIN x.items : WellFormed(x.items[k], f)
         /\ Cardinality({x.gaps[k] : k \in DOMAIN x.gaps}) <= 1
         /\ Len(x.gaps) > 0 /\ x.gaps[1] # "or" => \A k \in DOMAIN x.items : x.items[k].t # "range"

\* By its text alone: may it denote a string that is not one character?
RECURSIVE MayContainStrings(_)
MayContainStrings(x) ==
  CASE x.t = "atom" -> x.tok = "\\p{Seq}"
    [] x.t = "range" -> FALSE
    [] x.t = "q" -> \E k \in DOMAIN x.alts : Len(x.alts[k]) # 1
    [] OTHER ->
         /\ ~x.neg
         /\ CASE Len(x.gaps) = 0 \/ x.gaps[1] = "or" ->
                   \E k \in DOMAIN x.items : MayContainStrings(x.items[k])
              [] x.gaps[1] = "and" -> \A k \in DOMAIN x.items : MayContainStrings(x.items[k])
              [] OTHER -> MayContainStrings(x.items[1])

RECURSIVE Subtrees(_)
Subtrees(x) ==
  {x} \cup IF x.t = "class" THEN UNION {Subtrees(x.items[k]) : k \in DOMAIN x.items} ELSE {}

\* What is negated in it.
Negated(x) == {[y EXCEPT !.neg = FALSE] : y \in {z \in Subtrees(x) : z.t = "class" /\ z.neg}}

Allowed(x, f) == WellFormed(x, f) /\ \A y \in Negated(x) : ~MayContainStrings(y)

\* Where the program is known to go its own way: it looks whether what is negated does
\* contain strings ("accepts more input than the spec", libregexp.c:1521), takes \- for
\* no escape in \q{} (1101), and without the u flag cannot read a pair (1212).
NegatesNoString(x, f) ==
  /\ WellFormed(x, f)
  /\ \E y \in Negated(x) : MayContainStrings(y)
  /\ \A y \in Negated(x) : \A s \in Value(y, f) : Len(s) = 1

QuotesMinus(x) ==
  \E y \in Subtrees(x) : y.t = "q" /\ \E k \in DOMAIN y.alts : "\\-" \in {y.alts[k][n] : n \in DOMAIN y.alts[k]}

HasPair(x, f) == ~f.u /\ Atom("emoji") \in Subtrees(x)

--------------------------------------------------------------------------------
MCInit ==
  /\ \E k \in Classes :
       /\ class = k.class /\ flags = k.flags /\ backward = k.backward
       /\ pattern = Text(k.class)
  /\ ClassInit

MCNext == ClassStep /\ UNCHANGED class

MCSpec == MCInit /\ [][MCNext]_<<classVars, class>>

--------------------------------------------------------------------------------
(***************************************************************************)
(* Properties.                                                             *)
(***************************************************************************)
\* Through all the growing, uniting, removing and folding every string of a list is
\* in the chain where re_string_find2 seeks it, once, and is counted, and none has
\* the length 1.  (re_string_find2, re_string_list_op, libregexp.c:227-349)
StringsInPlace ==
  /\ \A k \in DOMAIN stack : InPlace(stack[k].cr)
  /\ InPlace(result)
  /\ \A n \in DOMAIN Strings(result) : Len(Strings(result)[n]) # 1

IsFolded(s) == \A k \in DOMAIN s : Folded1(s[k]) = s[k]

\* A class is refused only if its text is not allowed, and accepted only if it is, but
\* for the three known disagreements; and an accepted one has the characters and strings
\* that the text denotes, as a folded subject is compared with them.
\* (re_parse_nested_class, libregexp.c:1382)
ClassDenotes ==
  /\ status = "error" => ~Allowed(class, flags) \/ QuotesMinus(class) \/ HasPair(class, flags)
  /\ status \in {"emit", "done"} =>
       /\ Allowed(class, flags) \/ NegatesNoString(class, flags)
       /\ {s \in Denoted(result) : IsFolded(s)} = Value(class, flags)

Subjects == UNION {[1..n -> {65, 97, 98}] : n \in 0..3}

\* The lengths of the strings of the value at the start or the end of the subject,
\* the longest first.
LengthsAt(subject, value) ==
  LET part(n) == IF backward THEN SubSeq(subject, Len(subject) - n + 1, Len(subject))
                 ELSE SubSeq(subject, 1, n)
      fits(n) == [k \in 1..n |-> Folded1(part(n)[k])] \in value
  IN  SelectSeq([k \in 1..(Len(subject) + 1) |-> Len(subject) + 1 - k], fits)

EndsAsReference ==
  \E value \in {Value(class, flags)} : \A subject \in Subjects :
    LET lens == LengthsAt(subject, value)
    IN  IF backward
          THEN Ends(subject, 1, Len(subject)) = [k \in DOMAIN lens |-> Len(subject) - lens[k]]
          ELSE Ends(subject, 1, 0) = lens

\* "match the longest ones first": the instructions try the strings and characters
\* of the class in the order of their lengths, each once, and the empty one last.
\* (re_emit_string_list, libregexp.c:1276)
LongestFirst ==
  status = "done" /\ (backward => result.n_strings = 0) => EndsAsReference

\* "Provides ECMAScript regular expressions" (README.md): in a look-behind a class with
\* strings matches each of them where it ends.  (re_parse_term, libregexp.c:2148)
LookbehindAsReference == status = "done" => EndsAsReference

--------------------------------------------------------------------------------
(***************************************************************************)
(* Small trees.                                                            *)
(***************************************************************************)
Q1 == Quoted(<<<<"a", "b">>, <<"b">>, <<>>>>)
Q2 == Quoted(<<<<"A", "b">>, <<"a", "a">>, <<"A", "b", "A">>, <<"b", "b">>>>)

VLeaves ==
  {Atom(t) : t \in {"A", "b", "\\W", "\\P{gc=Lu}", "\\p{Seq}"}} \cup {Interv("A", "b"), Q1, Q2}
Odds ==
  {Atom(t) : t \in {"kelvin", "emoji", "(", "\\k", "\\cA", "\\c5", "\\-", "\\^", "\\d", "\\w",
                    "\\p{Lu}", "\\p{sc=Lu}", "\\P{Seq}", "\\P{ASCII}"}}
  \cup {Interv("b", "A"), Interv("\\w", "b"), Interv("A", "\\W"), Interv("A", "\\k")}
Gaps == {"or", "and", "minus"}

Inner ==
  {Class(neg, <<x>>, <<>>) : neg \in BOOLEAN, x \in VLeaves}
  \cup {Class(neg, <<x, y>>, <<g>>) : neg \in BOOLEAN, g \in Gaps,
          x \in {Atom("A"), Atom("\\W"), Q2}, y \in {Atom("b"), Atom("\\p{Seq}"), Q1}}

VClasses ==
  {Class(neg, <<x, y>>, <<g>>) : neg \in BOOLEAN, g \in Gaps, x \in VLeaves, y \in Inner \cup Odds}
  \cup {Class(FALSE, <<x, y>>, <<g>>) : g \in Gaps, x \in Inner, y \in VLeaves}
  \cup {Class(FALSE, <<x, y, z>>, <<g, h>>) : g \in Gaps, h \in Gaps,
          x \in {Atom("A"), Q1, Atom("\\p{Seq}")}, y \in {Q2, Interv("A", "b"), Atom("b")},
          z \in {Q1, Q2, Atom("\\W")}}
  \cup {Class(FALSE, <<Atom("b"), Class(neg, <<x, y>>, <<g>>)>>, <<h>>) :
          neg \in BOOLEAN, g \in Gaps, h \in Gaps, y \in {Q2, Atom("\\W")},
          x \in {Class(FALSE, <<Q1, Q2>>, <<"and">>), Class(TRUE, <<Atom("A")>>, <<>>)}}
  \cup {Class(FALSE, <<Quoted(<<alt>>)>>, <<>>) : alt \in {<<"(">>, <<"\\-">>, <<"\\w", "a">>}}

PlainClasses(tokens) ==
  {Class(neg, <<x, y>>, <<"or">>) : neg \in BOOLEAN,
     x \in {Atom(t) : t \in {"A", "&", "\\W", "\\d"}} \cup {Interv("A", "b")},
     y \in {o \in Odds \cup {Atom("&")} : o.t = "atom" => o.tok \in tokens \cup {"&"}}}

VFlags == [u : {TRUE}, v : {TRUE}, ic : BOOLEAN]
UFlags == [u : {TRUE}, v : {FALSE}, ic : BOOLEAN]
NoFlags == [u : {FALSE}, v : {FALSE}, ic : BOOLEAN]

\* Without the u flag \p is the letter p, and what is in the braces are more characters.
WithoutProperties == {o.tok : o \in {x \in Odds : x.t = "atom"}} \ DOMAIN MCProperties

\* [\q{ab}]
LookbehindClasses ==
  [class : {Class(FALSE, <<Quoted(<<<<"a", "b">>>>)>>, <<>>)}, flags : VFlags, backward : BOOLEAN]

MCClasses ==
  [class : VClasses, flags : VFlags, backward : {FALSE}]
  \cup [class : PlainClasses(WithoutProperties \cup DOMAIN MCProperties), flags : UFlags,
        backward : BOOLEAN]
  \cup [class : PlainClasses(WithoutProperties), flags : NoFlags, backward : BOOLEAN]
================================================================================
