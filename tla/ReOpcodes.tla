------------------------------- MODULE ReOpcodes -------------------------------
(***************************************************************************)
(* The bytecode of libregexp: what one instruction does to the position of *)
(* the interpreter, as a value.  lre_exec_backtrack runs these             *)
(* instructions with a stack of undo entries (module Backtrack); the       *)
(* specification of what it promises runs the same instructions with       *)
(* copies of the captures (module BacktrackSearch).                        *)
(*                                                                         *)
(* A job is a program and what it is run on: [prog, ncap, nreg, input,     *)
(* utf16, unicode, start].  input is the sequence of code units of the     *)
(* subject and a position p stands before input[p + 1].  prog is a         *)
(* sequence of instructions; jumps are relative to the next instruction,   *)
(* as in the bytecode, and count instructions instead of bytes.            *)
(***************************************************************************)
EXTENDS Integers, Sequences

NULL == -1       \* an unset capture
Junk == -2       \* what a register holds before anything is stored in it

Positions(job) == 0..Len(job.input)

(***************************************************************************)
(* capture[]: two slots per group, then the registers.                     *)
(***************************************************************************)
StartSlot(n) == 2 * n
EndSlot(n) == 2 * n + 1
Register(job, r) == 2 * job.ncap + r
GroupSlots(job) == 0..(2 * job.ncap - 1)
Slots(job) == 0..(2 * job.ncap + job.nreg - 1)

--------------------------------------------------------------------------------
(***************************************************************************)
(* Characters.  A high surrogate followed by a low one is one character    *)
(* when the job is a UTF-16 one (cbuf_type 2), and never across the end    *)
(* (or the start) of the stretch that is read.                             *)
(***************************************************************************)
IsHi(c) == c \div 1024 = 54
IsLo(c) == c \div 1024 = 55
FromSurrogate(hi, lo) == 65536 + 1024 * (hi - 55296) + (lo - 56320)

PairAt(job, p, end) ==
  /\ job.utf16
  /\ p + 1 < end
  /\ IsHi(job.input[p + 1])
  /\ IsLo(job.input[p + 2])

PairBefore(job, p, start) ==
  /\ job.utf16
  /\ p - 1 > start
  /\ IsLo(job.input[p])
  /\ IsHi(job.input[p - 1])

CharAt(job, p, end) ==
  IF PairAt(job, p, end) THEN FromSurrogate(job.input[p + 1], job.input[p + 2])
                         ELSE job.input[p + 1]
After(job, p, end) == IF PairAt(job, p, end) THEN p + 2 ELSE p + 1

CharBefore(job, p, start) ==
  IF PairBefore(job, p, start) THEN FromSurrogate(job.input[p - 1], job.input[p])
                               ELSE job.input[p]
Before(job, p, start) == IF PairBefore(job, p, start) THEN p - 2 ELSE p - 1

IsLineTerminator(c) == c \in {10, 13, 8232, 8233}
IsSpace(c) ==
  c \in (9..13) \cup (8192..8202) \cup
        {32, 160, 5760, 8232, 8233, 8239, 8287, 12288, 65279}
IsWordByte(c) == c \in (48..57) \cup (65..90) \cup {95} \cup (97..122)

\* lre_canonicalize, on the characters without a case outside ASCII
Canonicalize(job, c) ==
  IF job.unicode /\ c \in 65..90 THEN c + 32
  ELSE IF ~job.unicode /\ c \in 97..122 THEN c - 32
  ELSE c

--------------------------------------------------------------------------------
(***************************************************************************)
(* The instructions.  char is char, char32 and the ranges (set is the set  *)
(* of characters they accept); first says which branch a split takes       *)
(* first.                                                                  *)
(***************************************************************************)
CharSet(set, icase) == [op |-> "char", set |-> set, icase |-> icase]
Dot == [op |-> "dot"]
AnyChar == [op |-> "any"]
Space(neg) == [op |-> "space", neg |-> neg]
LineStart(multi) == [op |-> "line_start", multi |-> multi]
LineEnd(multi) == [op |-> "line_end", multi |-> multi]
WordBoundary(neg, icase) == [op |-> "word_boundary", neg |-> neg, icase |-> icase]
Jump(off) == [op |-> "goto", off |-> off]
SplitGotoFirst(off) == [op |-> "split", first |-> "goto", off |-> off]
SplitNextFirst(off) == [op |-> "split", first |-> "next", off |-> off]
SaveStart(n) == [op |-> "save", slot |-> StartSlot(n)]
SaveEnd(n) == [op |-> "save", slot |-> EndSlot(n)]
SaveReset(from, to) == [op |-> "save_reset", from |-> from, to |-> to]
SetI32(r, val) == [op |-> "set_i32", reg |-> r, val |-> val]
LoopBack(r, off) == [op |-> "loop", reg |-> r, off |-> off]
LoopSplit(first, adv, r, limit, off) ==
  [op |-> "loop_split", first |-> first, adv |-> adv, reg |-> r, limit |-> limit, off |-> off]
SetCharPos(r) == [op |-> "set_char_pos", reg |-> r]
CheckAdvance(r) == [op |-> "check_advance", reg |-> r]
BackReference(groups, icase, backward) ==
  [op |-> "back_reference", groups |-> groups, icase |-> icase, backward |-> backward]
Lookahead(neg, off) ==
  [op |-> "lookahead", type |-> IF neg THEN "negative" ELSE "lookahead", off |-> off]
LookaheadMatch(neg) ==
  [op |-> "assertion_end", type |-> IF neg THEN "negative" ELSE "lookahead"]
PrevChar == [op |-> "prev"]
MatchEnd == [op |-> "match"]

--------------------------------------------------------------------------------
(***************************************************************************)
(* What an instruction asks of the interpreter: go on at pc and cptr, or   *)
(* backtrack (to = "no_match"), or go on and save the alternative alt on   *)
(* the stack (to = "branch"), or end an assertion, or end the match.       *)
(* writes are the slots it sets, in order; check says that slots already   *)
(* saved since the last branch are not saved again.                        *)
(***************************************************************************)
Outcome(to, p, c) ==
  [to |-> to, pc |-> p, cptr |-> c, writes |-> <<>>, check |-> FALSE,
   alt |-> p, type |-> "split"]

GoOn(p, c) == Outcome("run", p, c)
NoMatch(p, c) == Outcome("no_match", p, c)
GoOnIf(cond, p, c) == IF cond THEN GoOn(p, c) ELSE NoMatch(p, c)

\* go on at go, keeping alt and its type for later
Branch(go, alt, type, c) == [Outcome("branch", go, c) EXCEPT !.alt = alt, !.type = type]

Storing(out, check, writes) == [out EXCEPT !.writes = writes, !.check = check]
Write(slot, val) == [slot |-> slot, val |-> val]

Accepts(job, ins, c) ==
  CASE ins.op = "char"  -> (IF ins.icase THEN Canonicalize(job, c) ELSE c) \in ins.set
    [] ins.op = "dot"   -> ~IsLineTerminator(c)
    [] ins.op = "any"   -> TRUE
    [] ins.op = "space" -> IsSpace(c) # ins.neg

ReadChar(job, ins, p, c) ==
  LET end == Len(job.input) IN
  IF c >= end THEN NoMatch(p + 1, c)
  ELSE GoOnIf(Accepts(job, ins, CharAt(job, c, end)), p + 1, After(job, c, end))

AtLineStart(job, ins, p, c) ==
  GoOnIf(\/ c = 0
         \/ ins.multi /\ IsLineTerminator(CharBefore(job, c, 0)), p + 1, c)

AtLineEnd(job, ins, p, c) ==
  GoOnIf(\/ c = Len(job.input)
         \/ ins.multi /\ IsLineTerminator(CharAt(job, c, Len(job.input))), p + 1, c)

\* K and s have a third form outside ASCII when case is ignored
IsWordChar(ins, ch) == IsWordByte(ch) \/ (ins.icase /\ ch \in {383, 8490})

AtWordBoundary(job, ins, p, c) ==
  LET before == c # 0 /\ IsWordChar(ins, CharBefore(job, c, 0))
      here == c < Len(job.input) /\ IsWordChar(ins, CharAt(job, c, Len(job.input)))
  IN GoOnIf((before # here) # ins.neg, p + 1, c)

SplitHere(ins, p, c) ==
  IF ins.first = "next" THEN Branch(p + 1, p + 1 + ins.off, "split", c)
                        ELSE Branch(p + 1 + ins.off, p + 1, "split", c)

StartAssertion(ins, p, c) == Branch(p + 1, p + 1 + ins.off, ins.type, c)

Save(ins, p, c) == Storing(GoOn(p + 1, c), FALSE, <<Write(ins.slot, c)>>)

ResetGroups(ins, p, c) ==
  LET first == StartSlot(ins.from)
      count == EndSlot(ins.to) - first + 1
  IN Storing(GoOn(p + 1, c), FALSE, [i \in 1..count |-> Write(first + i - 1, NULL)])

SetRegister(job, ins, p, c) ==
  Storing(GoOn(p + 1, c), TRUE,
          <<Write(Register(job, ins.reg), IF ins.op = "set_i32" THEN ins.val ELSE c)>>)

\* decrement the counter and jump back while it is not zero
CountDown(job, ins, p, c, cap) ==
  LET r == Register(job, ins.reg)
      left == cap[r] - 1
  IN Storing(GoOn(IF left # 0 THEN p + 1 + ins.off ELSE p + 1, c), TRUE, <<Write(r, left)>>)

\* the same, with a choice once the minimal count is done; the register after
\* the counter holds where the last iteration began
CountDownAndSplit(job, ins, p, c, cap) ==
  LET r == Register(job, ins.reg)
      left == cap[r] - 1
      next == IF left > ins.limit THEN GoOn(p + 1 + ins.off, c)
              ELSE IF ins.adv /\ cap[r + 1] = c /\ left # ins.limit THEN NoMatch(p + 1, c)
              ELSE IF left # 0 THEN SplitHere(ins, p, c)
              ELSE GoOn(p + 1, c)
  IN Storing(next, TRUE, <<Write(r, left)>>)

HasAdvanced(job, ins, p, c, cap) == GoOnIf(cap[Register(job, ins.reg)] # c, p + 1, c)

(***************************************************************************)
(* Back references: the first group of the list that is set is compared    *)
(* with what is at the position, character by character.  The result is    *)
(* where the comparison ends, NULL where it fails.                         *)
(***************************************************************************)
SameChar(job, ins, c1, c2) ==
  IF ins.icase THEN Canonicalize(job, c1) = Canonicalize(job, c2) ELSE c1 = c2

MatchForward(job, ins, from, to, c) ==
  LET end == Len(job.input)
      f[i \in from..to, j \in 0..end] ==
        IF i >= to THEN j
        ELSE IF j >= end THEN NULL
        ELSE IF ~SameChar(job, ins, CharAt(job, i, to), CharAt(job, j, end)) THEN NULL
        ELSE f[After(job, i, to), After(job, j, end)]
  IN IF from < to THEN f[from, c] ELSE c

MatchBackward(job, ins, from, to, c) ==
  LET f[i \in from..to, j \in 0..Len(job.input)] ==
        IF i <= from THEN j
        ELSE IF j = 0 THEN NULL
        ELSE IF ~SameChar(job, ins, CharBefore(job, i, from), CharBefore(job, j, 0)) THEN NULL
        ELSE f[Before(job, i, from), Before(job, j, 0)]
  IN IF from < to THEN f[to, c] ELSE c

GroupIsSet(cap, n) == cap[StartSlot(n)] # NULL /\ cap[EndSlot(n)] # NULL

MatchAgain(job, ins, p, c, cap) ==
  LET stops == {i \in 1..Len(ins.groups) :
                  ins.groups[i] >= job.ncap \/ GroupIsSet(cap, ins.groups[i])}
      n == ins.groups[CHOOSE i \in stops : \A k \in stops : i <= k]
      e == IF ins.backward THEN MatchBackward(job, ins, cap[StartSlot(n)], cap[EndSlot(n)], c)
                           ELSE MatchForward(job, ins, cap[StartSlot(n)], cap[EndSlot(n)], c)
  IN IF stops = {} THEN GoOn(p + 1, c)
     ELSE IF n < job.ncap /\ e \in Positions(job) THEN GoOn(p + 1, e)
     ELSE NoMatch(p + 1, c)

StepBack_PastStart(job, p, c) == GoOn(p + 1, Before(job, c, 0))

StepBack(job, p, c) ==
  IF c = 0 THEN NoMatch(p + 1, c) ELSE GoOn(p + 1, Before(job, c, 0))

Effect(job, p, c, cap) ==
  LET ins == job.prog[p] IN
  CASE ins.op \in {"char", "dot", "any", "space"} -> ReadChar(job, ins, p, c)
    [] ins.op = "line_start"     -> AtLineStart(job, ins, p, c)
    [] ins.op = "line_end"       -> AtLineEnd(job, ins, p, c)
    [] ins.op = "word_boundary"  -> AtWordBoundary(job, ins, p, c)
    [] ins.op = "goto"           -> GoOn(p + 1 + ins.off, c)
    [] ins.op = "split"          -> SplitHere(ins, p, c)
    [] ins.op = "save"           -> Save(ins, p, c)
    [] ins.op = "save_reset"     -> ResetGroups(ins, p, c)
    [] ins.op \in {"set_i32", "set_char_pos"} -> SetRegister(job, ins, p, c)
    [] ins.op = "loop"           -> CountDown(job, ins, p, c, cap)
    [] ins.op = "loop_split"     -> CountDownAndSplit(job, ins, p, c, cap)
    [] ins.op = "check_advance"  -> HasAdvanced(job, ins, p, c, cap)
    [] ins.op = "back_reference" -> MatchAgain(job, ins, p, c, cap)
    [] ins.op = "lookahead"      -> StartAssertion(ins, p, c)
    [] ins.op = "assertion_end"  -> Outcome(ins.type, p, c)
    [] ins.op = "prev"           -> StepBack(job, p, c)
    [] ins.op = "match"          -> Outcome("match", p, c)

(***************************************************************************)
(* What the compiler guarantees of a program: every instruction that can   *)
(* be reached from another is there, slots and registers are those of the  *)
(* program's groups and registers, and lookaheads are nested.              *)
(***************************************************************************)
Instruction(job, i) == i \in DOMAIN job.prog

FallsThrough == {"char", "dot", "any", "space", "line_start", "line_end", "word_boundary", "split",
                 "save", "save_reset", "set_i32", "set_char_pos", "loop", "loop_split",
                 "check_advance", "back_reference", "lookahead", "prev"}
Jumps == {"goto", "split", "loop", "loop_split", "lookahead"}
UsesRegister == {"set_i32", "set_char_pos", "loop", "loop_split", "check_advance"}
AssertionTypes == {"lookahead", "negative"}

InstructionOK(job, i) ==
  LET ins == job.prog[i] IN
  /\ ins.op \in FallsThrough \cup {"goto", "assertion_end", "match"}
  /\ ins.op \in FallsThrough => Instruction(job, i + 1)
  /\ ins.op \in Jumps => ins.off \in Int /\ Instruction(job, i + 1 + ins.off)
  /\ ins.op = "save" => ins.slot \in GroupSlots(job)
  /\ ins.op = "save_reset" => /\ ins.from \in 0..(job.ncap - 1)
                              /\ ins.to \in 0..(job.ncap - 1)
                              /\ ins.from <= ins.to
  /\ ins.op \in UsesRegister => ins.reg \in 0..(job.nreg - 1)
  /\ ins.op = "set_i32" => ins.val \in Nat
  /\ ins.op \in {"lookahead", "assertion_end"} => ins.type \in AssertionTypes

\* The lookaheads that instruction i is inside of.  The offset of a lookahead, which
\* is filled in when its inside has been emitted, leads behind the end of it.
OpenAt(job, i) ==
  {q \in DOMAIN job.prog :
     job.prog[q].op = "lookahead" /\ q < i /\ i <= q + job.prog[q].off}

\* Only the start and the end of a lookahead lead into it and out of it, the end
\* belongs to the innermost one, and a match is outside of all of them.
NestingOK(job, i) ==
  LET ins == job.prog[i]
      open == OpenAt(job, i)
  IN
  /\ ins.op \in FallsThrough \ {"lookahead"} => OpenAt(job, i + 1) = open
  /\ ins.op \in Jumps => OpenAt(job, i + 1 + ins.off) = open
  /\ ins.op = "lookahead" => OpenAt(job, i + 1) = open \cup {i}
  /\ ins.op = "assertion_end" =>
       \E q \in open : /\ q + job.prog[q].off = i
                       /\ job.prog[q].type = ins.type
                       /\ \A h \in open : h <= q
  /\ ins.op = "match" => open = {}

JobOK(job) ==
  /\ job.input \in Seq(Nat)
  /\ job.ncap \in Nat \ {0}
  /\ job.nreg \in Nat
  /\ job.start \in Positions(job)
  /\ Instruction(job, 1)
  /\ OpenAt(job, 1) = {}
  /\ \A i \in DOMAIN job.prog : i \in Int /\ InstructionOK(job, i) /\ NestingOK(job, i)

(***************************************************************************)
(* lre_exec: every group unset, the registers not initialised, and the     *)
(* position moved to the start of the pair it is inside of.                *)
(***************************************************************************)
NoCaptures(job) == [x \in Slots(job) |-> IF x \in GroupSlots(job) THEN NULL ELSE Junk]

\* where the interpreter is while it backtracks
NowhereOf(job) == [pc |-> 0, cptr |-> 0, capture |-> NoCaptures(job)]

StartPosition(job) ==
  LET n == Len(job.input) IN
  IF 0 < job.start /\ job.start < n /\ PairAt(job, job.start - 1, n)
  THEN job.start - 1 ELSE job.start
================================================================================
