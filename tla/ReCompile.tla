------------------------------- MODULE ReCompile -------------------------------
(***************************************************************************)
(* The code generator of libregexp: from a pattern to its bytecode.  The   *)
(* parser reads the text of the pattern and emits code as it goes; here    *)
(* the text is replaced by the syntax tree it denotes, and the code is a   *)
(* sequence of instructions (module ReOpcodes) instead of a byte buffer.   *)
(*                                                                         *)
(* A disjunction is a sequence of alternatives, an alternative a sequence  *)
(* of terms.  flags has the fields icase, multi, dotall, sticky, unicode.  *)
(***************************************************************************)
EXTENDS ReOpcodes

Infinity == 2147483647

(***************************************************************************)
(* The terms of a pattern.                                                 *)
(***************************************************************************)
TChar(set) == [t |-> "char", set |-> set]
TDot == [t |-> "dot"]
TSpace(neg) == [t |-> "space", neg |-> neg]
TStart == [t |-> "start"]
TEnd == [t |-> "end"]
TWord(neg) == [t |-> "word", neg |-> neg]
TGroup(n, body) == [t |-> "group", n |-> n, body |-> body]
TNonCapture(body) == [t |-> "noncapture", body |-> body]
TLook(neg, behind, body) == [t |-> "look", neg |-> neg, behind |-> behind, body |-> body]
TBackRef(groups) == [t |-> "backref", groups |-> groups]
TQuant(atom, min, max, greedy) ==
  [t |-> "quant", atom |-> atom, min |-> min, max |-> max, greedy |-> greedy]

--------------------------------------------------------------------------------
(***************************************************************************)
(* re_need_check_adv_and_capture_init looks through the code of an atom up *)
(* to the first instruction it cannot predict.                             *)
(***************************************************************************)
ReadingOps == {"char", "dot", "any", "space"}
PlainOps ==
  {"line_start", "line_end", "set_i32", "set_char_pos", "word_boundary", "prev", "save",
   "save_reset"}

Predictable(code) ==
  LET stops == {i \in DOMAIN code :
                  code[i].op \notin ReadingOps \cup PlainOps \cup {"back_reference"}}
  IN {i \in DOMAIN code : \A k \in stops : i < k}

NeedCaptureInit_BackRefs(code) == \E i \in DOMAIN code : code[i].op = "back_reference"

NeedCheckAdv(code) == \A i \in Predictable(code) : code[i].op \notin ReadingOps
NeedCaptureInit(code) ==
  \/ Predictable(code) # DOMAIN code
  \/ \E i \in DOMAIN code : code[i].op = "back_reference"

If(cond, code) == IF cond THEN code ELSE <<>>

(***************************************************************************)
(* The code of a quantifier around the code of its atom, in which the      *)
(* groups from..to-1 are opened.                                           *)
(***************************************************************************)
SplitFirst(next, off) == IF next THEN SplitNextFirst(off) ELSE SplitGotoFirst(off)

Optional_ShortSplit(atom, star, greedy, adv) ==
  LET once == If(adv, <<SetCharPos(0)>>) \o atom \o If(adv, <<CheckAdvance(0)>>)
      code == If(star, <<Jump(-(Len(once) + 2))>>)
  IN <<SplitFirst(greedy, Len(once) + Len(code) - (IF adv THEN 1 ELSE 0))>> \o once \o code

Optional(atom, star, greedy, adv) ==
  LET once == If(adv, <<SetCharPos(0)>>) \o atom \o If(adv, <<CheckAdvance(0)>>)
      code == If(star, <<Jump(-(Len(once) + 2))>>)
  IN <<SplitFirst(greedy, Len(once) + Len(code))>> \o once \o code

\* the counted loop; limit = 0 and no choice when the two bounds are equal
Counted(atom, max, limit, greedy, adv) ==
  LET once == If(adv, <<SetCharPos(0)>>) \o atom
      back == -(Len(once) + 1)
  IN <<SetI32(0, max)>> \o once \o
       <<IF limit = 0 THEN LoopBack(0, back)
         ELSE LoopSplit(IF greedy THEN "goto" ELSE "next", adv, 0, limit, back)>>

Quantifier(code, from, to, min, max, greedy) ==
  LET adv == NeedCheckAdv(code)
      init == NeedCaptureInit(code)
      reset == If(from # to, <<SaveReset(from, to - 1)>>)
      atom == If(init, reset) \o code
      counted == Counted(atom, max, IF min = 0 THEN max ELSE max - min, greedy, adv /\ min # max)
  IN IF min = 0 THEN
       If(~init, reset) \o
         (IF max = 0 THEN <<>>
          ELSE IF max \in {1, Infinity} THEN Optional(atom, max = Infinity, greedy, adv)
          ELSE <<SplitFirst(greedy, Len(counted))>> \o counted)
     ELSE IF min = 1 /\ max = Infinity /\ ~adv THEN
       Append(atom, SplitFirst(~greedy, -(Len(atom) + 1)))
     ELSE counted

(***************************************************************************)
(* Terms, alternatives and disjunctions.  Each is compiled with the number *)
(* n of groups opened so far and gives [code, n].  In a lookbehind the     *)
(* terms are laid out backwards and each character is read between two     *)
(* steps back.                                                             *)
(***************************************************************************)
Emit(code, n) == [code |-> code, n |-> n]

BothWays(backward, ins) == IF backward THEN <<PrevChar, ins, PrevChar>> ELSE <<ins>>

CharsOf(flags, set) ==
  IF flags.icase THEN {Canonicalize(flags, c) : c \in set} ELSE set

RECURSIVE Disjunction(_, _, _, _)

Term(flags, term, n, backward) ==
  CASE term.t = "char" ->
         Emit(BothWays(backward, CharSet(CharsOf(flags, term.set), flags.icase)), n)
    [] term.t = "dot" -> Emit(BothWays(backward, IF flags.dotall THEN AnyChar ELSE Dot), n)
    [] term.t = "space" -> Emit(BothWays(backward, Space(term.neg)), n)
    [] term.t = "start" -> Emit(<<LineStart(flags.multi)>>, n)
    [] term.t = "end" -> Emit(<<LineEnd(flags.multi)>>, n)
    [] term.t = "word" -> Emit(<<WordBoundary(term.neg, flags.icase /\ flags.unicode)>>, n)
    [] term.t = "backref" -> Emit(<<BackReference(term.groups, flags.icase, backward)>>, n)
    [] term.t = "noncapture" -> Disjunction(flags, term.body, n, backward)
    [] term.t = "group" ->
         LET body == Disjunction(flags, term.body, n + 1, backward)
             open == IF backward THEN SaveEnd(n) ELSE SaveStart(n)
             close == IF backward THEN SaveStart(n) ELSE SaveEnd(n)
         IN Emit(<<open>> \o body.code \o <<close>>, body.n)
    [] term.t = "look" ->
         LET body == Disjunction(flags, term.body, n, term.behind)
         IN Emit(<<Lookahead(term.neg, Len(body.code) + 1)>> \o body.code
                   \o <<LookaheadMatch(term.neg)>>, body.n)

QuantifiedTerm(flags, term, n, backward) ==
  IF term.t # "quant" THEN Term(flags, term, n, backward)
  ELSE LET atom == Term(flags, term.atom, n, backward)
       IN Emit(Quantifier(atom.code, n, atom.n, term.min, term.max, term.greedy), atom.n)

\* re_parse_alternative: the next term goes behind the others, in a lookbehind
\* before them
NextTerm(flags, before, term, backward) ==
  LET next == QuantifiedTerm(flags, term, before.n, backward)
  IN Emit(IF backward THEN next.code \o before.code ELSE before.code \o next.code, next.n)

RECURSIVE Terms(_, _, _, _)
Terms(flags, before, terms, backward) ==
  IF terms = <<>> THEN before
  ELSE Terms(flags, NextTerm(flags, before, Head(terms), backward), Tail(terms), backward)

Alternative(flags, terms, n, backward) == Terms(flags, Emit(<<>>, n), terms, backward)

\* re_parse_disjunction: a split before all that was emitted, a goto behind it
Or(before, after) ==
  Emit(<<SplitNextFirst(Len(before.code) + 1)>> \o before.code
         \o <<Jump(Len(after.code))>> \o after.code, after.n)

RECURSIVE Alternatives(_, _, _, _)
Alternatives(flags, before, rest, backward) ==
  IF rest = <<>> THEN before
  ELSE Alternatives(flags, Or(before, Alternative(flags, Head(rest), before.n, backward)),
                    Tail(rest), backward)

Disjunction(flags, alternatives, n, backward) ==
  Alternatives(flags, Alternative(flags, Head(alternatives), n, backward),
               Tail(alternatives), backward)

--------------------------------------------------------------------------------
(***************************************************************************)
(* compute_register_count: the registers are a stack, and the code is      *)
(* nested, so one pass gives every instruction its register.               *)
(***************************************************************************)
Pushes(ins) == IF ins.op \in {"set_i32", "set_char_pos"} THEN 1 ELSE 0
Pops(ins) ==
  CASE ins.op \in {"check_advance", "loop"} -> 1
    [] ins.op = "loop_split" -> (IF ins.adv THEN 2 ELSE 1)
    [] OTHER -> 0

\* top is how many registers are in use before code, done what is in front of it
RECURSIVE GiveRegisters(_, _, _, _)
GiveRegisters(done, code, top, max) ==
  IF code = <<>> THEN [code |-> done, max |-> max]
  ELSE LET ins == Head(code)
           reg == top - Pops(ins)
           next == reg + Pushes(ins)
       IN GiveRegisters(Append(done, IF Pushes(ins) + Pops(ins) = 0 THEN ins
                                     ELSE [ins EXCEPT !.reg = reg]),
                        Tail(code), next, IF next > max THEN next ELSE max)

Registers(code) == GiveRegisters(<<>>, code, 0, 0)

(***************************************************************************)
(* lre_compile: without the sticky flag the match may start anywhere, then *)
(* the pattern between the two ends of group 0.                            *)
(***************************************************************************)
AnyStart(flags) == If(~flags.sticky, <<SplitGotoFirst(2), AnyChar, Jump(-3)>>)

Compile(flags, pattern) ==
  LET body == Disjunction(flags, pattern, 1, FALSE)
      prog == Registers(AnyStart(flags) \o <<SaveStart(0)>> \o body.code
                          \o <<SaveEnd(0), MatchEnd>>)
  IN [prog |-> prog.code, ncap |-> body.n, nreg |-> prog.max]
================================================================================
