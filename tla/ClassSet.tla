------------------------------- MODULE ClassSet -------------------------------
(***************************************************************************)
(* A bracketed class of a pattern, from its text to its bytecode: the      *)
(* recursive descent of re_parse_nested_class with the set operations of   *)
(* the v flag, and the alternatives that re_emit_string_list writes        *)
(* (libregexp.c:863-1552).                                                 *)
(*                                                                         *)
(* The text is a sequence of tokens: a character, or a whole escape.  The  *)
(* stack holds one frame for each call of re_parse_nested_class.  Without  *)
(* the u flag \p is a letter, and no pattern here has one then.            *)
(***************************************************************************)
EXTENDS StringList

CONSTANTS
  CodeOf,        \* the code point of a token that is a character
  Properties,    \* token -> [name, value, inv]: the escapes \p and \P
  Tables         \* <<table, name>> -> what libunicode has for the name (external)

VARIABLES
  pattern,       \* the tokens, from the opening bracket on
  flags,         \* [u, v, ic]: is_unicode, unicode_sets, ignore_case
  backward,      \* is the class in a look-behind
  at,            \* the token to read
  stack,         \* the calls of re_parse_nested_class, the innermost first
  status,        \* "parse", "emit", "done"; "error", or "failed" for want of memory
  result,        \* the list of the class
  code           \* its instructions

classVars == <<pattern, flags, backward, at, stack, status, result, code>>

At(k) == IF k \in DOMAIN pattern THEN pattern[k] ELSE "end"

Folded1(c) == IF flags.ic THEN Canonical[flags.u][c] ELSE c
Inverted(s) == [s EXCEPT !.cr = Universe \ @]
WithChar(s, c) == [s EXCEPT !.cr = @ \cup {Folded1(c)}]

--------------------------------------------------------------------------------
(***************************************************************************)
(* Atoms.                                                                  *)
(***************************************************************************)
char_range_d == <<48, 57>>
char_range_s ==
  <<9, 13, 32, 32, 160, 160, 5760, 5760, 8192, 8202, 8232, 8233, 8239, 8239, 8287, 8287,
    12288, 12288, 65279, 65279>>
char_range_w == <<48, 57, 65, 90, 95, 95, 97, 122>>

CharRangeEscapes ==
  [esc \in {"\\d", "\\D", "\\s", "\\S", "\\w", "\\W"} |->
     [table |-> CASE esc \in {"\\d", "\\D"} -> char_range_d
                  [] esc \in {"\\s", "\\S"} -> char_range_s
                  [] OTHER -> char_range_w,
      invert |-> esc \in {"\\D", "\\S", "\\W"}]]

cr_init_char_range(esc) ==
  LET t == CharRangeEscapes[esc].table
      s == [NoStrings EXCEPT !.cr = {c \in Universe : \E k \in 1..(Len(t) \div 2) :
                                       t[2 * k - 1] <= c /\ c <= t[2 * k]}]
  IN  IF CharRangeEscapes[esc].invert THEN Inverted(s) ELSE s

Error == [kind |-> "error"]
CharAtom(c, next) == [kind |-> "char", c |-> c, next |-> next]
ListAtom(s, next) == [kind |-> "list", list |-> s, next |-> next]

\* The tables that are asked for a property, in this order.
TablesFor(prop) ==
  CASE prop.name \in {"Script", "sc"} -> <<"script">>
    [] prop.name \in {"Script_Extensions", "scx"} -> <<"script_ext">>
    [] prop.name \in {"General_Category", "gc"} -> <<"gc">>
    [] prop.value = "" ->
         <<"gc", "prop">> \o IF flags.v /\ ~prop.inv THEN <<"sequence">> ELSE <<>>
    [] OTHER -> <<>>

\* The first of them that knows the name, if one does.
Known(prop) ==
  LET name == IF prop.value = "" THEN prop.name ELSE prop.value
      knows(k) == <<TablesFor(prop)[k], name>> \in DOMAIN Tables
  IN  {<<TablesFor(prop)[k], name>> :
         k \in {m \in DOMAIN TablesFor(prop) : knows(m) /\ \A n \in 1..(m - 1) : ~knows(n)}}

ListOf(key) ==
  IF key[1] = "sequence" THEN FoldLeft(re_string_add, NoStrings, Tables[key])
  ELSE [NoStrings EXCEPT !.cr = Tables[key]]

\* With the v flag the set is folded before it is inverted, without it after.
PropertyList(prop, s) ==
  LET fold(t) == IF flags.ic THEN re_string_list_canonicalize(t, flags.u) ELSE t
      turn(t) == IF prop.inv THEN Inverted(t) ELSE t
  IN  IF flags.v THEN turn(fold(s)) ELSE fold(turn(s))

parse_unicode_property(prop, next) ==
  IF Known(prop) = {} THEN {Error}
  ELSE {ListAtom(PropertyList(prop, s), next) : s \in {ListOf(key) : key \in Known(prop)}}

DoublePunctuators == {"&", "^"}
SyntaxCharacters == {"(", "[", "]", "{", "}", "-", "|"}
IdentityOf == "\\^" :> 94 @@ "\\[" :> 91 @@ "\\]" :> 93      \* escapes of themselves
Control == "\\cA" :> 1                      \* \c with a letter
ControlDigit == "\\c5" :> 21                \* \c with a digit or _ (Annex B.1.4)
Unknown == "\\k" :> 107                     \* a letter that is no escape

\* get_class_atom where it only has to find a character: in \q{...}, where cr is NULL,
\* and otherwise when the atom is no set.
CharacterAt(k, inclass) ==
  LET t == At(k)
  IN  CASE t \in DOMAIN IdentityOf -> CharAtom(IdentityOf[t], k + 1)
        [] t = "\\-" -> IF ~inclass /\ flags.u THEN Error ELSE CharAtom(45, k + 1)
        [] t \in DOMAIN Control -> CharAtom(Control[t], k + 1)
        [] t \in DOMAIN ControlDigit ->
             IF inclass /\ ~flags.u THEN CharAtom(ControlDigit[t], k + 1) ELSE Error
        [] t \in DOMAIN Unknown -> IF flags.u THEN Error ELSE CharAtom(Unknown[t], k + 1)
        [] t \in DOMAIN CodeOf ->
             IF \/ flags.v /\ t \in SyntaxCharacters
                \/ flags.v /\ t \in DoublePunctuators /\ At(k + 1) = t
                \/ ~flags.u /\ CodeOf[t] > 65535
               THEN Error ELSE CharAtom(CodeOf[t], k + 1)
        [] OTHER -> Error

\* The alternatives of \q{...}, where k is the token after \q and end its last.
Alternatives(k, end) ==
  LET read(ss, n) == IF At(n) = "|" THEN Append(ss, <<>>)
                     ELSE [ss EXCEPT ![Len(ss)] = Append(@, CharacterAt(n, FALSE).c)]
  IN  FoldLeft(read, <<<<>>>>, [n \in 1..(end - k - 1) |-> k + n])

QuotedList(ss) ==
  {IF flags.ic THEN re_string_list_canonicalize(s, TRUE) ELSE s :
     s \in {FoldLeft(re_string_add, NoStrings, ss)}}

parse_class_string_disjunction(k) ==
  LET ends == {n \in DOMAIN pattern : n > k /\ pattern[n] = "}"}
      end == CHOOSE n \in ends : \A m \in ends : n <= m
      wrong(n) == At(n) # "|" /\ CharacterAt(n, FALSE) = Error
  IN  IF At(k) # "{" \/ ends = {} THEN {Error}
      ELSE IF \E n \in (k + 1)..(end - 1) : wrong(n) THEN {Error}
      ELSE UNION {{ListAtom(s, end + 1) : s \in QuotedList(ss)} : ss \in {Alternatives(k, end)}}

\* The one result of get_class_atom, as a set.
get_class_atom(k) ==
  LET t == At(k)
  IN  CASE t \in DOMAIN CharRangeEscapes -> {ListAtom(cr_init_char_range(t), k + 1)}
        [] t \in DOMAIN Properties /\ flags.u -> parse_unicode_property(Properties[t], k + 1)
        [] t = "\\q" /\ flags.v -> parse_class_string_disjunction(k + 1)
        [] OTHER -> {CharacterAt(k, TRUE)}

--------------------------------------------------------------------------------
(***************************************************************************)
(* re_parse_nested_class.                                                  *)
(***************************************************************************)
top == Head(stack)
Reading == status = "parse" /\ stack # <<>>
Stays == UNCHANGED <<pattern, flags, backward, code>>

Frame(as, invert) ==
  [cr |-> NoStrings, invert |-> invert, is_first |-> TRUE, op |-> "union", as |-> as]

\* The call of re_parse_nested_class with its text at k.
Enter(as, k) ==
  /\ At(k) = "["
  /\ LET invert == At(k + 1) = "^"
     IN  /\ stack' = <<Frame(as, invert)>> \o stack
         /\ at' = IF invert THEN k + 2 ELSE k + 1
  /\ Stays /\ UNCHANGED <<status, result>>

Fail ==
  /\ status' = "error"
  /\ Stays /\ UNCHANGED <<at, stack, result>>

\* No memory for a list, or no stack for a call.
Interrupted ==
  /\ status = "parse" /\ status' = "failed"
  /\ Stays /\ UNCHANGED <<at, stack, result>>

InterAt(k) == At(k) = "&" /\ At(k + 1) = "&" /\ At(k + 2) # "&"
SubAt(k) == At(k) = "-" /\ At(k + 1) = "-"

AfterFirst_Always(frame, k) ==
  [frame EXCEPT
     !.is_first = FALSE,
     !.op = IF ~flags.v THEN @
            ELSE IF InterAt(k) THEN "inter" ELSE IF SubAt(k) THEN "sub" ELSE @]

\* After the first operand: is it that of a set operation?  An interval is not.
AfterFirst(frame, k) ==
  [frame EXCEPT
     !.is_first = FALSE,
     !.op = IF ~(flags.v /\ frame.is_first) THEN @
            ELSE IF InterAt(k) THEN "inter" ELSE IF SubAt(k) THEN "sub" ELSE @]

\* The frame becomes f, and the text goes on at k.
Continue(f, k) ==
  /\ stack' = <<f>> \o Tail(stack) /\ at' = k
  /\ Stays /\ UNCHANGED <<status, result>>

\* A class begins.
Open == stack = <<>> /\ status = "parse" /\ Enter("class", at)
OpenUnion == Reading /\ top.op = "union" /\ flags.v /\ Enter("union", at)

AtAtom == Reading /\ top.op = "union" /\ At(at) # "]" /\ ~(At(at) = "[" /\ flags.v)

\* A minus follows the atom that may make it the start of an interval.
MinusAfter(a) ==
  /\ At(a.next) = "-" /\ At(a.next + 1) # "]"
  /\ ~(At(a.next + 1) = "-" /\ flags.v /\ top.is_first)

IntervalList(c1, c2) ==
  LET s == [NoStrings EXCEPT !.cr = {c \in Universe : c1 <= c /\ c <= c2}]
  IN  IF flags.ic THEN re_string_list_canonicalize(s, flags.u) ELSE s

Interval(a, b) ==
  /\ a.kind = "char" /\ b.kind = "char" /\ a.c <= b.c
  /\ \E s \in {IntervalList(a.c, b.c)} :
       Continue([top EXCEPT !.cr = re_string_list_op(@, s, "union"), !.is_first = FALSE], b.next)

\* A character or a set on its own, when no minus follows; or when one of the ends is
\* a set, and the minus is a character (Annex B).
Single(a) ==
  Continue([AfterFirst(top, a.next) EXCEPT
              !.cr = IF a.kind = "list" THEN re_string_list_op(@, a.list, "union")
                     ELSE WithChar(@, a.c)], a.next)

ReadAtom ==
  /\ AtAtom
  /\ \E a \in get_class_atom(at) :
       \/ a.kind = "error" /\ Fail
       \/ a.kind # "error" /\ ~MinusAfter(a) /\ Single(a)
       \/ a.kind = "list" /\ MinusAfter(a) /\ IF flags.u THEN Fail ELSE Single(a)
       \/ /\ a.kind = "char" /\ MinusAfter(a)
          /\ \E b \in get_class_atom(a.next + 1) :
               \/ Interval(a, b)
               \/ b.kind = "list" /\ IF flags.u THEN Fail ELSE Single(a)
               \/ b.kind = "char" /\ b.c < a.c /\ Fail
               \/ b.kind = "error" /\ Fail

\* The operands of && and --.
AtOperator ==
  /\ Reading
  /\ CASE top.op = "inter" -> InterAt(at) [] top.op = "sub" -> SubAt(at) [] OTHER -> FALSE

OpenOperand == AtOperator /\ Enter("operand", at + 2)

OperandList(a) == IF a.kind = "list" THEN a.list ELSE WithChar(NoStrings, a.c)

re_parse_class_set_operand ==
  /\ AtOperator /\ At(at + 2) # "["
  /\ \E a \in get_class_atom(at + 2) :
       \/ a.kind = "error" /\ Fail
       \/ /\ a.kind # "error"
          /\ Continue([top EXCEPT !.cr = re_string_list_op(@, OperandList(a), top.op)], a.next)

NoOperator == Reading /\ top.op # "union" /\ At(at) # "]" /\ ~AtOperator /\ Fail

\* The end of a class: its value goes to the caller.
AtEnd == Reading /\ At(at) = "]"

CloseFails == AtEnd /\ top.invert /\ top.cr.n_strings # 0 /\ Fail

Close ==
  /\ AtEnd /\ ~(top.invert /\ top.cr.n_strings # 0)
  /\ \E s \in {IF top.invert THEN Inverted(top.cr) ELSE top.cr} :
       \/ /\ top.as = "class"
          /\ stack' = <<>> /\ status' = "emit" /\ result' = s
       \/ /\ top.as # "class"
          /\ \E caller \in {IF top.as = "union" THEN AfterFirst(stack[2], at + 1) ELSE stack[2]} :
               stack' = <<[caller EXCEPT !.cr = re_string_list_op(@, s, stack[2].op)]>>
                          \o SubSeq(stack, 3, Len(stack))
          /\ UNCHANGED <<status, result>>
  /\ at' = at + 1
  /\ Stays

--------------------------------------------------------------------------------
(***************************************************************************)
(* re_emit_string_list.  Targets of split and goto are instructions; while *)
(* they are not known the gotos are linked by their arguments.             *)
(***************************************************************************)
Instr(op, arg) == [op |-> op, arg |-> arg]

\* re_string_cmp_len: the order of the alternatives.
Longer_Swapped(x, y) == Len(x) < Len(y)
Longer(x, y) == Len(x) > Len(y)

EmitRange(c, s) == Append(c, Instr("range", s.cr))

Emitted(s, c0) ==
  LET notEmpty(x) == x # <<>>
      tab == SortSeq(SelectSeq(Strings(s), notEmpty), Longer)
      has_empty_string == Len(tab) < s.n_strings
      is_last(k) == ~has_empty_string /\ s.cr = {} /\ k = Len(tab)
      chars(k) == [n \in DOMAIN tab[k] |-> Instr("char", tab[k][n])]
      alternative(acc, k) ==
        IF is_last(k) THEN [acc EXCEPT !.code = @ \o chars(k)]
        ELSE LET goto == Len(acc.code) + Len(tab[k]) + 2
             IN  [code |-> acc.code \o <<Instr("split", goto + 1)>> \o chars(k)
                                    \o <<Instr("goto", acc.last_match_pos)>>,
                  last_match_pos |-> goto]
      strings == FoldLeft(alternative, [code |-> c0, last_match_pos |-> 0],
                          [k \in DOMAIN tab |-> k])
      all == IF s.cr = {} THEN strings.code
             ELSE EmitRange(IF has_empty_string
                              THEN Append(strings.code, Instr("split", Len(strings.code) + 3))
                              ELSE strings.code, s)
      linked[p \in 0..Len(all)] == IF p = 0 THEN {} ELSE {p} \cup linked[all[p].arg]
  IN  IF s.n_strings = 0 THEN EmitRange(c0, s)
      ELSE [p \in DOMAIN all |->
              IF p \in linked[strings.last_match_pos] THEN Instr("goto", Len(all) + 1) ELSE all[p]]

\* re_parse_char_class, and the steps back that re_parse_term puts around it.
EmitClass ==
  /\ status = "emit" /\ status' = "done"
  /\ LET prev == IF backward THEN <<Instr("prev", 0)>> ELSE <<>>
     IN  code' = Emitted(result, prev) \o prev
  /\ UNCHANGED <<pattern, flags, backward, at, stack, result>>

ClassInit ==
  /\ at = 1 /\ stack = <<>> /\ status = "parse" /\ result = NoStrings /\ code = <<>>

ClassStep ==
  \/ Open \/ OpenUnion \/ ReadAtom
  \/ OpenOperand \/ re_parse_class_set_operand \/ NoOperator
  \/ Close \/ CloseFails \/ EmitClass \/ Interrupted

--------------------------------------------------------------------------------
(***************************************************************************)
(* What the instructions from pc on do at a position between characters of *)
(* the subject: where they end, in the order of the attempts.              *)
(***************************************************************************)
RECURSIVE Ends(_, _, _)
Ends(subject, pc, pos) ==
  LET i == code[pc]
      next == Folded1(subject[pos + 1])
      reads == IF i.op = "char" THEN next = i.arg ELSE next \in i.arg
  IN  IF pc > Len(code) THEN <<pos>>
      ELSE CASE i.op = "split" -> Ends(subject, pc + 1, pos) \o Ends(subject, i.arg, pos)
             [] i.op = "goto" -> Ends(subject, i.arg, pos)
             [] i.op = "prev" -> IF pos = 0 THEN <<>> ELSE Ends(subject, pc + 1, pos - 1)
             [] OTHER -> IF pos < Len(subject) /\ reads
                           THEN Ends(subject, pc + 1, pos + 1) ELSE <<>>
================================================================================
