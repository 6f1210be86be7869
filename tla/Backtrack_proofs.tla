----------------------------- MODULE Backtrack_proofs -----------------------------
(***************************************************************************)
(* The interpreter of the bytecode, for every program the compiler may     *)
(* emit and every subject.                                                 *)
(*                                                                         *)
(* First its state: it stays well formed, and the links of the saved       *)
(* states are the chain of the saved states on the stack, so that what     *)
(* no_match and lookahead_match pop is what they take it for.              *)
(*                                                                         *)
(* Then the interpreter implements the search in which every way has its   *)
(* own copy of the captures.  A saved state k stands for the captures that *)
(* undoing everything above it would give: the oldest undo entry of a slot *)
(* above k holds its value, and a slot without one has not changed since.  *)
(* No step changes this for a state that stays on the stack, and the saved *)
(* states, from the bottom of the stack to the top, change as the ways of  *)
(* the search do.                                                          *)
(*                                                                         *)
(* Last the assertions.  Only the start and the end of a lookahead lead    *)
(* into it and out of it, so that at every moment of the search the        *)
(* lookaheads open at the instruction are those with a way that is not a   *)
(* split's, in the same order.  At a match none is open.                   *)
(***************************************************************************)
EXTENDS Backtrack, SequenceTheorems, FiniteSetTheorems, WellFoundedInduction, TLAPS

Writes(j) == [slot : Slots(j), val : Int]

OutcomeOK(j, out) ==
  /\ out.to \in {"run", "branch", "no_match", "lookahead", "negative", "match"}
  /\ out.to \in {"run", "branch"} => Instruction(j, out.pc) /\ out.cptr \in Positions(j)
  /\ out.to = "branch" => Instruction(j, out.alt) /\ out.type \in Types
  /\ out.writes \in Seq(Writes(j))
  /\ out.check \in BOOLEAN
  /\ out.check => Len(out.writes) = 1

--------------------------------------------------------------------------------
(***************************************************************************)
(* Characters: reading one stays inside the subject.                       *)
(***************************************************************************)
LEMMA JobFacts ==
  ASSUME NEW j, JobOK(j)
  PROVE  /\ Len(j.input) \in Nat
         /\ j.ncap \in Nat
         /\ j.ncap >= 1
         /\ j.nreg \in Nat
         /\ \A i \in DOMAIN j.prog : i \in Int /\ InstructionOK(j, i)
  BY DEF JobOK

LEMMA AfterInside ==
  ASSUME NEW j, JobOK(j), NEW c \in Positions(j), c < Len(j.input)
  PROVE  After(j, c, Len(j.input)) \in Positions(j)
  BY JobFacts DEF After, PairAt, Positions

LEMMA BeforeInside ==
  ASSUME NEW j, JobOK(j), NEW c \in Positions(j), c # 0
  PROVE  Before(j, c, 0) \in Positions(j)
  BY JobFacts DEF Before, PairBefore, Positions

LEMMA StartInside ==
  ASSUME NEW j, JobOK(j)
  PROVE  StartPosition(j) \in Positions(j)
  BY JobFacts DEF JobOK, StartPosition, Positions

--------------------------------------------------------------------------------
(***************************************************************************)
(* Outcomes.                                                               *)
(***************************************************************************)
LEMMA GoOnOK ==
  ASSUME NEW j, JobOK(j), NEW p, Instruction(j, p), NEW c \in Positions(j)
  PROVE  OutcomeOK(j, GoOn(p, c))
  BY DEF OutcomeOK, GoOn, Outcome

LEMMA NoMatchOK ==
  ASSUME NEW j, NEW p, NEW c
  PROVE  OutcomeOK(j, NoMatch(p, c))
  BY DEF OutcomeOK, NoMatch, Outcome

LEMMA GoOnIfOK ==
  ASSUME NEW j, JobOK(j), NEW p, Instruction(j, p), NEW c \in Positions(j), NEW cond
  PROVE  OutcomeOK(j, GoOnIf(cond, p, c))
  BY GoOnOK, NoMatchOK DEF GoOnIf

LEMMA BranchOK ==
  ASSUME NEW j, JobOK(j), NEW go, Instruction(j, go), NEW alt, Instruction(j, alt),
         NEW type \in Types, NEW c \in Positions(j)
  PROVE  OutcomeOK(j, Branch(go, alt, type, c))
  BY DEF OutcomeOK, Branch, Outcome

\* Storing one value leaves an outcome well formed, in both ways of saving it.
LEMMA StoringOneOK ==
  ASSUME NEW j, JobOK(j), NEW out, OutcomeOK(j, out), NEW check \in BOOLEAN,
         NEW x \in Slots(j), NEW v \in Int,
         out = [to |-> out.to, pc |-> out.pc, cptr |-> out.cptr, writes |-> out.writes,
                check |-> out.check, alt |-> out.alt, type |-> out.type]
  PROVE  OutcomeOK(j, Storing(out, check, <<Write(x, v)>>))
  <1> DEFINE w == <<Write(x, v)>>
             s == Storing(out, check, w)
  <1>1. w \in Seq(Writes(j)) /\ Len(w) = 1
    BY DEF Write, Writes
  <1>2. /\ s.to = out.to /\ s.pc = out.pc /\ s.cptr = out.cptr /\ s.alt = out.alt
        /\ s.type = out.type /\ s.writes = w /\ s.check = check
    BY DEF Storing
  <1> HIDE DEF w, s
  <1> QED
    BY <1>1, <1>2 DEF OutcomeOK, s, w

--------------------------------------------------------------------------------
(***************************************************************************)
(* Every instruction of a well-formed program has a well-formed outcome.   *)
(***************************************************************************)
LEMMA SlotFacts ==
  ASSUME NEW j, JobOK(j)
  PROVE  /\ GroupSlots(j) \subseteq Slots(j)
         /\ \A r \in 0..(j.nreg - 1) : Register(j, r) \in Slots(j)
         /\ \A x \in Slots(j) : x \in Int
  BY SMTT(30), JobFacts DEF GroupSlots, Slots, Register

LEMMA NextInstruction ==
  ASSUME NEW j, JobOK(j), NEW p \in DOMAIN j.prog, j.prog[p].op \in FallsThrough
  PROVE  Instruction(j, p + 1)
  BY JobFacts DEF InstructionOK

LEMMA JumpTarget ==
  ASSUME NEW j, JobOK(j), NEW p \in DOMAIN j.prog, j.prog[p].op \in Jumps
  PROVE  Instruction(j, p + 1 + j.prog[p].off)
  <1>1. p \in Int /\ InstructionOK(j, p)
    BY JobFacts
  <1>2. j.prog[p].off \in Int /\ Instruction(j, p + 1 + j.prog[p].off)
    BY <1>1 DEF InstructionOK
  <1> QED
    BY <1>2

LEMMA ReadCharOK ==
  ASSUME NEW j, JobOK(j), NEW p \in DOMAIN j.prog, NEW c \in Positions(j),
         j.prog[p].op \in {"char", "dot", "any", "space"}
  PROVE  OutcomeOK(j, ReadChar(j, j.prog[p], p, c))
  <1>1. Instruction(j, p + 1)
    BY NextInstruction DEF FallsThrough
  <1>2. CASE c >= Len(j.input)
    BY <1>2, NoMatchOK DEF ReadChar
  <1>3. CASE ~(c >= Len(j.input))
    <2>1. c < Len(j.input)
      BY <1>3, JobFacts DEF Positions
    <2>2. After(j, c, Len(j.input)) \in Positions(j)
      BY <2>1, AfterInside
    <2>3. ReadChar(j, j.prog[p], p, c)
            = GoOnIf(Accepts(j, j.prog[p], CharAt(j, c, Len(j.input))),
                     p + 1, After(j, c, Len(j.input)))
      BY <1>3 DEF ReadChar
    <2> QED
      BY <1>1, <2>2, <2>3, GoOnIfOK
  <1> QED
    BY <1>2, <1>3

LEMMA ChecksOK ==
  ASSUME NEW j, JobOK(j), NEW p \in DOMAIN j.prog, NEW c \in Positions(j), NEW cap,
         j.prog[p].op \in {"line_start", "line_end", "word_boundary", "check_advance"}
  PROVE  /\ OutcomeOK(j, AtLineStart(j, j.prog[p], p, c))
         /\ OutcomeOK(j, AtLineEnd(j, j.prog[p], p, c))
         /\ OutcomeOK(j, AtWordBoundary(j, j.prog[p], p, c))
         /\ OutcomeOK(j, HasAdvanced(j, j.prog[p], p, c, cap))
  <1>1. Instruction(j, p + 1)
    BY NextInstruction DEF FallsThrough
  <1>2. \A cond : OutcomeOK(j, GoOnIf(cond, p + 1, c))
    BY <1>1, GoOnIfOK
  <1> QED
    BY <1>2 DEF AtLineStart, AtLineEnd, AtWordBoundary, HasAdvanced

LEMMA SplitOK ==
  ASSUME NEW j, JobOK(j), NEW p \in DOMAIN j.prog, NEW c \in Positions(j),
         j.prog[p].op \in FallsThrough \cap Jumps
  PROVE  OutcomeOK(j, SplitHere(j.prog[p], p, c))
  <1>1. Instruction(j, p + 1) /\ Instruction(j, p + 1 + j.prog[p].off)
    BY NextInstruction, JumpTarget
  <1>2. "split" \in Types
    BY DEF Types
  <1> QED
    BY <1>1, <1>2, BranchOK DEF SplitHere

LEMMA StartAssertionOK ==
  ASSUME NEW j, JobOK(j), NEW p \in DOMAIN j.prog, NEW c \in Positions(j),
         j.prog[p].op = "lookahead"
  PROVE  OutcomeOK(j, StartAssertion(j.prog[p], p, c))
  <1>1. Instruction(j, p + 1) /\ Instruction(j, p + 1 + j.prog[p].off)
    BY NextInstruction, JumpTarget DEF FallsThrough, Jumps
  <1>2. InstructionOK(j, p)
    BY JobFacts
  <1>3. j.prog[p].type \in Types
    BY <1>2 DEF InstructionOK, Types, AssertionTypes
  <1> QED
    BY <1>1, <1>3, BranchOK DEF StartAssertion

LEMMA StepBackOK ==
  ASSUME NEW j, JobOK(j), NEW p \in DOMAIN j.prog, NEW c \in Positions(j),
         j.prog[p].op = "prev"
  PROVE  OutcomeOK(j, StepBack(j, p, c))
  <1>1. Instruction(j, p + 1)
    BY NextInstruction DEF FallsThrough
  <1> QED
    BY <1>1, BeforeInside, NoMatchOK, GoOnOK DEF StepBack

LEMMA MatchAgainOK ==
  ASSUME NEW j, JobOK(j), NEW p \in DOMAIN j.prog, NEW c \in Positions(j), NEW cap,
         j.prog[p].op = "back_reference"
  PROVE  OutcomeOK(j, MatchAgain(j, j.prog[p], p, c, cap))
  <1>1. Instruction(j, p + 1)
    BY NextInstruction DEF FallsThrough
  <1>2. \A e \in Positions(j) : OutcomeOK(j, GoOn(p + 1, e))
    BY <1>1, GoOnOK
  <1>3. OutcomeOK(j, NoMatch(p + 1, c))
    BY NoMatchOK
  <1> QED
    BY <1>2, <1>3 DEF MatchAgain

LEMMA SaveOK ==
  ASSUME NEW j, JobOK(j), NEW p \in DOMAIN j.prog, NEW c \in Positions(j),
         j.prog[p].op = "save"
  PROVE  OutcomeOK(j, Save(j.prog[p], p, c))
  <1>1. Instruction(j, p + 1)
    BY NextInstruction DEF FallsThrough
  <1>2. j.prog[p].slot \in Slots(j)
    BY JobFacts, SlotFacts DEF InstructionOK
  <1>3. c \in Int
    BY JobFacts DEF Positions
  <1>4. OutcomeOK(j, GoOn(p + 1, c))
    BY <1>1, GoOnOK
  <1> QED
    BY <1>2, <1>3, <1>4, StoringOneOK DEF Save, GoOn, Outcome

LEMMA ResetGroupsOK ==
  ASSUME NEW j, JobOK(j), NEW p \in DOMAIN j.prog, NEW c \in Positions(j),
         j.prog[p].op = "save_reset"
  PROVE  OutcomeOK(j, ResetGroups(j.prog[p], p, c))
  <1> DEFINE ins == j.prog[p]
             first == StartSlot(ins.from)
             count == EndSlot(ins.to) - first + 1
             w == [i \in 1..count |-> Write(first + i - 1, NULL)]
  <1>1. Instruction(j, p + 1)
    BY NextInstruction DEF FallsThrough
  <1>2. /\ ins.from \in 0..(j.ncap - 1)
        /\ ins.to \in 0..(j.ncap - 1)
        /\ ins.from <= ins.to
    BY JobFacts DEF InstructionOK
  <1>3. count \in Nat /\ \A i \in 1..count : first + i - 1 \in Slots(j)
    <2>1. j.ncap \in Nat /\ j.nreg \in Nat
      BY JobFacts
    <2>2. ins.from \in Int /\ ins.to \in Int /\ 0 <= ins.from /\ ins.to <= j.ncap - 1
      BY <1>2, <2>1
    <2>3. /\ first = 2 * ins.from
          /\ count = 2 * ins.to + 1 - 2 * ins.from + 1
      BY <2>2 DEF StartSlot, EndSlot
    <2>4. Slots(j) = 0..(2 * j.ncap + j.nreg - 1)
      BY DEF Slots
    <2> HIDE DEF ins, first, count
    <2>5. count \in Nat
      BY <1>2, <2>2, <2>3
    <2>6. ASSUME NEW i \in 1..count
          PROVE  first + i - 1 \in Slots(j)
      <3>1. /\ i \in Int /\ 1 <= i /\ i <= 2 * ins.to + 1 - 2 * ins.from + 1
            /\ first \in Int
        BY <2>2, <2>3, <2>5
      <3>2. 0 <= first + i - 1 /\ first + i - 1 <= 2 * j.ncap + j.nreg - 1
        BY <2>1, <2>2, <2>3, <3>1
      <3> QED
        BY <2>1, <2>4, <3>1, <3>2
    <2> QED
      BY <2>5, <2>6
  <1>4. \A i \in 1..count : Write(first + i - 1, NULL) \in Writes(j)
    BY <1>3 DEF Write, Writes, NULL
  <1>5. w \in [1..count -> Writes(j)]
    <2> HIDE DEF first, count
    <2> QED
      BY <1>4
  <1>6. w \in Seq(Writes(j))
    <2> HIDE DEF count, w
    <2> QED
      BY <1>3, <1>5, SeqDef
  <1>7. OutcomeOK(j, GoOn(p + 1, c))
    BY <1>1, GoOnOK
  <1>8. ResetGroups(ins, p, c) = [GoOn(p + 1, c) EXCEPT !.writes = w, !.check = FALSE]
    BY DEF ResetGroups, Storing
  <1> HIDE DEF w
  <1> QED
    BY <1>6, <1>7, <1>8 DEF OutcomeOK, GoOn, Outcome

LEMMA SetRegisterOK ==
  ASSUME NEW j, JobOK(j), NEW p \in DOMAIN j.prog, NEW c \in Positions(j),
         j.prog[p].op \in {"set_i32", "set_char_pos"}
  PROVE  OutcomeOK(j, SetRegister(j, j.prog[p], p, c))
  <1> DEFINE v == IF j.prog[p].op = "set_i32" THEN j.prog[p].val ELSE c
  <1>1. Instruction(j, p + 1)
    BY NextInstruction DEF FallsThrough
  <1>2. InstructionOK(j, p)
    BY JobFacts
  <1>3. Register(j, j.prog[p].reg) \in Slots(j)
    BY <1>2, SlotFacts DEF InstructionOK, UsesRegister
  <1>4. v \in Int
    BY <1>2, JobFacts DEF Positions, InstructionOK
  <1>5. OutcomeOK(j, GoOn(p + 1, c))
    BY <1>1, GoOnOK
  <1> QED
    BY <1>3, <1>4, <1>5, StoringOneOK DEF SetRegister, GoOn, Outcome

LEMMA CountsOK ==
  ASSUME NEW j, JobOK(j), NEW p \in DOMAIN j.prog, NEW c \in Positions(j),
         NEW cap \in [Slots(j) -> Int], j.prog[p].op \in {"loop", "loop_split"}
  PROVE  /\ OutcomeOK(j, CountDown(j, j.prog[p], p, c, cap))
         /\ OutcomeOK(j, CountDownAndSplit(j, j.prog[p], p, c, cap))
  <1> DEFINE ins == j.prog[p]
             r == Register(j, ins.reg)
             left == cap[r] - 1
  <1>1. Instruction(j, p + 1) /\ Instruction(j, p + 1 + ins.off)
    BY NextInstruction, JumpTarget DEF FallsThrough, Jumps
  <1>2. r \in Slots(j)
    BY JobFacts, SlotFacts DEF InstructionOK, UsesRegister
  <1>3. left \in Int
    BY <1>2
  <1>4. \A q : Instruction(j, q) => OutcomeOK(j, GoOn(q, c))
    BY GoOnOK
  <1>5. OutcomeOK(j, SplitHere(ins, p, c))
    BY SplitOK DEF FallsThrough, Jumps
  <1>6. OutcomeOK(j, NoMatch(p + 1, c))
    BY NoMatchOK
  <1>7. OutcomeOK(j, CountDown(j, ins, p, c, cap))
    <2> DEFINE next == GoOn(IF left # 0 THEN p + 1 + ins.off ELSE p + 1, c)
    <2>1. OutcomeOK(j, next)
      BY <1>1, <1>4
    <2>2. next = [to |-> next.to, pc |-> next.pc, cptr |-> next.cptr,
                  writes |-> next.writes, check |-> next.check, alt |-> next.alt,
                  type |-> next.type]
      BY DEF GoOn, Outcome
    <2>3. CountDown(j, ins, p, c, cap) = Storing(next, TRUE, <<Write(r, left)>>)
      BY DEF CountDown
    <2> HIDE DEF next, r, left
    <2> QED
      BY <1>2, <1>3, <2>1, <2>2, <2>3, StoringOneOK
  <1>8. OutcomeOK(j, CountDownAndSplit(j, ins, p, c, cap))
    <2> DEFINE next == IF left > ins.limit THEN GoOn(p + 1 + ins.off, c)
                       ELSE IF ins.adv /\ cap[r + 1] = c /\ left # ins.limit
                            THEN NoMatch(p + 1, c)
                       ELSE IF left # 0 THEN SplitHere(ins, p, c)
                       ELSE GoOn(p + 1, c)
    <2>1. OutcomeOK(j, next)
      BY <1>1, <1>4, <1>5, <1>6
    <2>2. next = [to |-> next.to, pc |-> next.pc, cptr |-> next.cptr,
                  writes |-> next.writes, check |-> next.check, alt |-> next.alt,
                  type |-> next.type]
      BY DEF GoOn, NoMatch, SplitHere, Branch, Outcome
    <2>3. CountDownAndSplit(j, ins, p, c, cap) = Storing(next, TRUE, <<Write(r, left)>>)
      BY DEF CountDownAndSplit
    <2> HIDE DEF next, r, left
    <2> QED
      BY <1>2, <1>3, <2>1, <2>2, <2>3, StoringOneOK
  <1> QED
    BY <1>7, <1>8

LEMMA EndsOK ==
  ASSUME NEW j, NEW p, NEW c, NEW to \in {"lookahead", "negative", "match"}
  PROVE  OutcomeOK(j, Outcome(to, p, c))
  BY DEF OutcomeOK, Outcome

LEMMA EffectOK ==
  ASSUME NEW j, JobOK(j), NEW p \in DOMAIN j.prog, NEW c \in Positions(j),
         NEW cap \in [Slots(j) -> Int]
  PROVE  OutcomeOK(j, Effect(j, p, c, cap))
  <1> DEFINE ins == j.prog[p]
  <1>1. InstructionOK(j, p)
    BY JobFacts
  <1>2. ins.op \in FallsThrough \cup {"goto", "assertion_end", "match"}
    BY <1>1 DEF InstructionOK
  <1>3. CASE ins.op \in {"char", "dot", "any", "space"}
    BY <1>3, ReadCharOK DEF Effect
  <1>4. CASE ins.op \in {"line_start", "line_end", "word_boundary", "check_advance"}
    BY <1>4, ChecksOK DEF Effect
  <1>5. CASE ins.op = "goto"
    BY <1>5, JumpTarget, GoOnOK DEF Effect, Jumps
  <1>6. CASE ins.op = "split"
    BY <1>6, SplitOK DEF Effect, Jumps, FallsThrough
  <1>7. CASE ins.op = "save"
    BY <1>7, SaveOK DEF Effect
  <1>8. CASE ins.op = "save_reset"
    BY <1>8, ResetGroupsOK DEF Effect
  <1>9. CASE ins.op \in {"set_i32", "set_char_pos"}
    BY <1>9, SetRegisterOK DEF Effect
  <1>10. CASE ins.op \in {"loop", "loop_split"}
    BY <1>10, CountsOK DEF Effect
  <1>11. CASE ins.op = "back_reference"
    BY <1>11, MatchAgainOK DEF Effect
  <1>12. CASE ins.op = "lookahead"
    BY <1>12, StartAssertionOK DEF Effect
  <1>13. CASE ins.op = "assertion_end"
    <2>1. ins.type \in {"lookahead", "negative"}
      BY <1>1, <1>13 DEF InstructionOK, AssertionTypes
    <2> QED
      BY <1>13, <2>1, EndsOK DEF Effect
  <1>14. CASE ins.op = "prev"
    BY <1>14, StepBackOK DEF Effect
  <1>15. CASE ins.op = "match"
    BY <1>15, EndsOK DEF Effect
  <1> QED
    BY <1>2, <1>3, <1>4, <1>5, <1>6, <1>7, <1>8, <1>9, <1>10, <1>11, <1>12, <1>13,
       <1>14, <1>15 DEF FallsThrough

--------------------------------------------------------------------------------
(***************************************************************************)
(* The chain of saved states, as a relation between a stack and the index  *)
(* of its last saved state.                                                *)
(***************************************************************************)
Saved(s, k) == s[k].kind = "saved"

LastBelow(s, k, b) ==
  /\ b = 0 \/ (b \in 1..(k - 1) /\ Saved(s, b))
  /\ \A i \in 1..(k - 1) : b < i => ~Saved(s, i)

Linked(s, b) ==
  /\ LastBelow(s, Len(s) + 1, b)
  /\ \A k \in 1..Len(s) : Saved(s, k) => LastBelow(s, k, s[k].bp)

LEMMA LinkedIsFramesLinked == FramesLinked <=> Linked(stack, bp)
  BY DEF FramesLinked, LastSavedBelow, IsSaved, Linked, LastBelow, Saved

\* LastBelow looks at the entries below k only.
LEMMA LastBelowSame ==
  ASSUME NEW s, NEW t, NEW k \in Nat, NEW b, LastBelow(s, k, b),
         \A i \in 1..(k - 1) : t[i] = s[i]
  PROVE  LastBelow(t, k, b)
  BY DEF LastBelow, Saved

\* Undo entries are pushed: the chain stays.
LEMMA PushUndo ==
  ASSUME NEW s, NEW t, NEW b \in Nat, Linked(s, b), Len(s) \in Nat, Len(t) \in Nat,
         Len(t) >= Len(s),
         \A i \in 1..Len(s) : t[i] = s[i],
         \A i \in (Len(s) + 1)..Len(t) : ~Saved(t, i)
  PROVE  Linked(t, b)
  <1>1. LastBelow(t, Len(t) + 1, b)
    <2>1. b = 0 \/ (b \in 1..Len(t) /\ Saved(t, b))
      BY DEF Linked, LastBelow, Saved
    <2>2. \A i \in 1..Len(s) : b < i => ~Saved(t, i)
      BY DEF Linked, LastBelow, Saved
    <2>3. \A i \in 1..Len(t) : b < i => ~Saved(t, i)
      BY <2>2
    <2> QED
      BY <2>1, <2>3 DEF LastBelow
  <1>2. ASSUME NEW k \in 1..Len(t), Saved(t, k)
        PROVE  LastBelow(t, k, t[k].bp)
    <2>1. k \in 1..Len(s)
      BY <1>2
    <2>2. Saved(s, k) /\ t[k] = s[k] /\ \A i \in 1..(k - 1) : t[i] = s[i]
      BY <1>2, <2>1 DEF Saved
    <2>3. LastBelow(s, k, s[k].bp)
      BY <2>1, <2>2 DEF Linked
    <2> QED
      BY <2>2, <2>3, LastBelowSame
  <1> QED
    BY <1>1, <1>2 DEF Linked

\* A saved state is pushed with a link to the last one: it becomes the last one.
LEMMA PushSaved ==
  ASSUME NEW s, NEW t, NEW b \in Nat, Linked(s, b), Len(s) \in Nat, Len(t) \in Nat,
         Len(t) > Len(s),
         \A i \in 1..Len(s) : t[i] = s[i],
         \A i \in (Len(s) + 1)..(Len(t) - 1) : ~Saved(t, i),
         Saved(t, Len(t)), t[Len(t)].bp = b
  PROVE  Linked(t, Len(t))
  <1>1. LastBelow(t, Len(t) + 1, Len(t))
    BY DEF LastBelow
  <1>2. ASSUME NEW k \in 1..Len(s), Saved(t, k)
        PROVE  LastBelow(t, k, t[k].bp)
    <2>1. Saved(s, k) /\ t[k] = s[k] /\ \A i \in 1..(k - 1) : t[i] = s[i]
      BY <1>2 DEF Saved
    <2>2. LastBelow(s, k, s[k].bp)
      BY <2>1 DEF Linked
    <2> QED
      BY <2>1, <2>2, LastBelowSame
  <1>3. LastBelow(t, Len(t), b)
    <2>1. b = 0 \/ (b \in 1..(Len(t) - 1) /\ Saved(t, b))
      BY DEF Linked, LastBelow, Saved
    <2>2. \A i \in 1..Len(s) : b < i => ~Saved(t, i)
      BY DEF Linked, LastBelow, Saved
    <2>3. \A i \in 1..(Len(t) - 1) : b < i => ~Saved(t, i)
      BY <2>2
    <2> QED
      BY <2>1, <2>3 DEF LastBelow
  <1>4. \A k \in 1..Len(t) : Saved(t, k) => LastBelow(t, k, t[k].bp)
    <2>1. \A k \in 1..Len(t) : Saved(t, k) => k \in 1..Len(s) \/ k = Len(t)
      OBVIOUS
    <2> QED
      BY <1>2, <1>3, <2>1
  <1> QED
    BY <1>1, <1>4 DEF Linked

\* The last saved state is taken out, the undo entries above it move down: the
\* chain continues with the state it links to.
LEMMA TakeOut ==
  ASSUME NEW s, NEW t, NEW b \in 1..Len(s), Linked(s, b), Len(s) \in Nat,
         Len(t) = Len(s) - 1,
         \A i \in 1..(b - 1) : t[i] = s[i],
         \A i \in b..Len(t) : t[i] = s[i + 1]
  PROVE  Linked(t, s[b].bp)
  <1>1. Saved(s, b) /\ LastBelow(s, b, s[b].bp)
    BY DEF Linked, LastBelow
  <1>2. \A i \in b..Len(t) : ~Saved(t, i)
    <2>1. \A i \in b..Len(t) : i + 1 \in 1..Len(s) /\ b < i + 1
      OBVIOUS
    <2>2. \A i \in 1..Len(s) : b < i => ~Saved(s, i)
      BY DEF Linked, LastBelow
    <2> QED
      BY <2>1, <2>2 DEF Saved
  <1>3. LastBelow(t, b, s[b].bp)
    BY <1>1, LastBelowSame
  <1>4. LastBelow(t, Len(t) + 1, s[b].bp)
    <2>1. s[b].bp = 0 \/ (s[b].bp \in 1..Len(t) /\ Saved(t, s[b].bp))
      BY <1>3 DEF LastBelow
    <2>2. \A i \in 1..Len(t) : s[b].bp < i => ~Saved(t, i)
      BY <1>2, <1>3 DEF LastBelow
    <2> QED
      BY <2>1, <2>2 DEF LastBelow
  <1>5. ASSUME NEW k \in 1..Len(t), Saved(t, k)
        PROVE  LastBelow(t, k, t[k].bp)
    <2>1. k \in 1..(b - 1)
      BY <1>2, <1>5
    <2>2. Saved(s, k) /\ t[k] = s[k] /\ \A i \in 1..(k - 1) : t[i] = s[i]
      BY <1>5, <2>1 DEF Saved
    <2>3. LastBelow(s, k, s[k].bp)
      BY <2>1, <2>2 DEF Linked
    <2> QED
      BY <2>2, <2>3, LastBelowSame
  <1> QED
    BY <1>4, <1>5 DEF Linked

\* An undo entry above the last saved state is popped: the chain stays.
LEMMA PopUndo ==
  ASSUME NEW s, NEW t, NEW b \in Nat, Linked(s, b), Len(s) \in Nat, b < Len(s),
         Len(t) = Len(s) - 1,
         \A i \in 1..Len(t) : t[i] = s[i]
  PROVE  Linked(t, b)
  <1>1. LastBelow(t, Len(t) + 1, b)
    BY DEF Linked, LastBelow, Saved
  <1>2. ASSUME NEW k \in 1..Len(t), Saved(t, k)
        PROVE  LastBelow(t, k, t[k].bp)
    <2>1. Saved(s, k) /\ t[k] = s[k] /\ \A i \in 1..(k - 1) : t[i] = s[i]
      BY <1>2 DEF Saved
    <2>2. LastBelow(s, k, s[k].bp)
      BY <2>1 DEF Linked
    <2> QED
      BY <2>1, <2>2, LastBelowSame
  <1> QED
    BY <1>1, <1>2 DEF Linked

--------------------------------------------------------------------------------
(***************************************************************************)
(* The words on the stack: two per entry and one more per saved state.     *)
(***************************************************************************)
SavedAt(s) == {k \in 1..Len(s) : Saved(s, k)}
Words(s) == UndoWords * Len(s) + Cardinality(SavedAt(s))

LEMMA SavedAtFinite ==
  ASSUME NEW s, Len(s) \in Nat
  PROVE  IsFiniteSet(SavedAt(s)) /\ Cardinality(SavedAt(s)) \in Nat
  <1>1. IsFiniteSet(1..Len(s))
    BY FS_Interval
  <1>2. SavedAt(s) \in SUBSET (1..Len(s))
    BY DEF SavedAt
  <1>3. IsFiniteSet(SavedAt(s))
    BY <1>1, <1>2, FS_Subset
  <1> QED
    BY <1>3, FS_CardinalityType

LEMMA WordsCounted ==
  ASSUME NEW s, Len(s) \in Nat
  PROVE  UndoWords * Cardinality({k \in 1..Len(s) : ~Saved(s, k)})
           + SavedWords * Cardinality({k \in 1..Len(s) : Saved(s, k)}) = Words(s)
  <1> DEFINE n == Cardinality(SavedAt(s))
  <1>1. {k \in 1..Len(s) : Saved(s, k)} = SavedAt(s)
    BY DEF SavedAt
  <1>2. {k \in 1..Len(s) : ~Saved(s, k)} = (1..Len(s)) \ SavedAt(s)
    BY DEF SavedAt
  <1>3. IsFiniteSet(1..Len(s)) /\ Cardinality(1..Len(s)) = Len(s)
    <2>1. /\ IsFiniteSet(1..Len(s))
          /\ Cardinality(1..Len(s)) = IF 1 > Len(s) THEN 0 ELSE Len(s) - 1 + 1
      BY FS_Interval, 1 \in Int, Len(s) \in Int
    <2> QED
      BY <2>1
  <1>4. (1..Len(s)) \cap SavedAt(s) = SavedAt(s)
    BY DEF SavedAt
  <1>5. Cardinality((1..Len(s)) \ SavedAt(s)) = Len(s) - n
    <2>1. Cardinality((1..Len(s)) \ SavedAt(s))
            = Cardinality(1..Len(s)) - Cardinality((1..Len(s)) \cap SavedAt(s))
      BY <1>3, FS_Difference
    <2> QED
      BY <1>3, <1>4, <2>1
  <1>6. n \in Nat
    BY SavedAtFinite
  <1> HIDE DEF n
  <1>7. UndoWords * (Len(s) - n) + SavedWords * n = UndoWords * Len(s) + n
    BY <1>6 DEF UndoWords, SavedWords
  <1> QED
    BY <1>1, <1>2, <1>5, <1>7 DEF n, Words

LEMMA WordsPushed ==
  ASSUME NEW s, NEW t, Len(s) \in Nat, Len(t) \in Nat, NEW n \in {0, 1},
         Len(t) >= Len(s) + n,
         \A i \in 1..Len(s) : t[i] = s[i],
         \A i \in (Len(s) + 1)..(Len(t) - n) : ~Saved(t, i),
         n = 1 => Saved(t, Len(t))
  PROVE  Words(t) = Words(s) + UndoWords * (Len(t) - Len(s)) + n
  <1>1. IsFiniteSet(SavedAt(s)) /\ Cardinality(SavedAt(s)) \in Nat
    BY SavedAtFinite
  <1>2. Cardinality(SavedAt(t)) = Cardinality(SavedAt(s)) + n
    <2>1. CASE n = 0
      <3>1. \A k \in 1..Len(t) : k \in 1..Len(s) \/ k \in (Len(s) + 1)..(Len(t) - n)
        BY <2>1
      <3>2. \A k : k \in SavedAt(t) <=> k \in SavedAt(s)
        BY <2>1, <3>1 DEF SavedAt, Saved
      <3>3. SavedAt(t) = SavedAt(s)
        BY <3>2
      <3> QED
        BY <1>1, <2>1, <3>3
    <2>2. CASE n = 1
      <3>1. \A k \in 1..Len(t) :
              k \in 1..Len(s) \/ k \in (Len(s) + 1)..(Len(t) - n) \/ k = Len(t)
        BY <2>2
      <3>2. Len(t) \notin SavedAt(s) /\ Len(t) \in SavedAt(t)
        BY <2>2 DEF SavedAt
      <3>3. \A k : k \in SavedAt(t) <=> k \in SavedAt(s) \cup {Len(t)}
        BY <2>2, <3>1, <3>2 DEF SavedAt, Saved
      <3>4. SavedAt(t) = SavedAt(s) \cup {Len(t)}
        BY <3>3
      <3> QED
        BY <1>1, <2>2, <3>2, <3>4, FS_AddElement
    <2> QED
      BY <2>1, <2>2
  <1> DEFINE a == Cardinality(SavedAt(s))
             b == Cardinality(SavedAt(t))
  <1>3. a \in Nat /\ b = a + n /\ Words(s) = 2 * Len(s) + a /\ Words(t) = 2 * Len(t) + b
    BY <1>1, <1>2 DEF Words, UndoWords
  <1> HIDE DEF a, b
  <1> QED
    BY <1>3 DEF UndoWords

LEMMA WordsTakenOut ==
  ASSUME NEW s, NEW t, NEW b \in 1..Len(s), Linked(s, b), Len(s) \in Nat,
         Len(t) = Len(s) - 1,
         \A i \in 1..(b - 1) : t[i] = s[i],
         \A i \in b..Len(t) : t[i] = s[i + 1]
  PROVE  Words(t) = Words(s) - SavedWords
  <1>1. IsFiniteSet(SavedAt(s)) /\ Cardinality(SavedAt(s)) \in Nat
    BY SavedAtFinite
  <1>2. Saved(s, b) /\ \A i \in 1..Len(s) : b < i => ~Saved(s, i)
    BY DEF Linked, LastBelow
  <1>3. \A i \in b..Len(t) : ~Saved(t, i)
    <2>1. \A i \in b..Len(t) : i + 1 \in 1..Len(s) /\ b < i + 1
      OBVIOUS
    <2> QED
      BY <1>2, <2>1 DEF Saved
  <1>4. \A k : k \in SavedAt(t) <=> k \in 1..(b - 1) /\ Saved(s, k)
    <2>1. \A k \in 1..Len(t) : k \in 1..(b - 1) \/ k \in b..Len(t)
      OBVIOUS
    <2>2. 1..(b - 1) \subseteq 1..Len(t)
      OBVIOUS
    <2> QED
      BY <1>3, <2>1, <2>2 DEF SavedAt, Saved
  <1>5. \A k : k \in SavedAt(s) \ {b} <=> k \in 1..(b - 1) /\ Saved(s, k)
    BY <1>2 DEF SavedAt
  <1>6. SavedAt(t) = SavedAt(s) \ {b} /\ b \in SavedAt(s)
    BY <1>2, <1>4, <1>5 DEF SavedAt
  <1>7. Cardinality(SavedAt(t)) = Cardinality(SavedAt(s)) - 1
    BY <1>1, <1>6, FS_RemoveElement
  <1> QED
    BY <1>1, <1>7 DEF Words, UndoWords, SavedWords

LEMMA WordsPopped ==
  ASSUME NEW s, NEW t, Len(s) \in Nat \ {0}, ~Saved(s, Len(s)),
         Len(t) = Len(s) - 1,
         \A i \in 1..Len(t) : t[i] = s[i]
  PROVE  Words(t) = Words(s) - UndoWords
  <1>1. IsFiniteSet(SavedAt(s)) /\ Cardinality(SavedAt(s)) \in Nat
    BY SavedAtFinite
  <1>2. \A k : k \in SavedAt(t) <=> k \in SavedAt(s)
    BY DEF SavedAt, Saved
  <1>3. SavedAt(t) = SavedAt(s)
    BY <1>2
  <1> QED
    BY <1>1, <1>3 DEF Words, UndoWords

LEMMA GrownFits ==
  ASSUME NEW words \in Nat, NEW need \in Nat
  PROVE  Grown(words, need) \in Nat /\ need <= Grown(words, need)
  <1>1. (3 * words) \div 2 \in Nat
    OBVIOUS
  <1> QED
    BY <1>1 DEF Grown

--------------------------------------------------------------------------------
(***************************************************************************)
(* The inductive invariant.  TypeOK needs FramesLinked, because a popped   *)
(* entry is an undo entry or a saved state by where it lies and not by     *)
(* what it says, and StackFits, because sp counts words and goes down.     *)
(***************************************************************************)
Inv == /\ job \in Jobs
       /\ TypeOK
       /\ FramesLinked
       /\ StackFits

Entries(j) == UndoEntries(j) \cup SavedStates(j)

LEMMA EntryFacts ==
  ASSUME NEW j, NEW e \in Entries(j)
  PROVE  /\ e.kind = "saved" => e \in SavedStates(j)
         /\ e.kind # "saved" => e \in UndoEntries(j)
         /\ e.kind = "saved" => /\ e.pc \in DOMAIN j.prog
                                /\ e.cptr \in Positions(j)
                                /\ e.type \in Types
         /\ e.kind # "saved" => e.slot \in Slots(j) /\ e.val \in Int
  BY DEF Entries, UndoEntries, SavedStates

LEMMA InvFacts ==
  ASSUME Inv
  PROVE  /\ JobOK(job)
         /\ Len(stack) \in Nat
         /\ stack \in Seq(Entries(job))
         /\ \A k \in 1..Len(stack) : stack[k] \in Entries(job)
         /\ bp \in Nat
         /\ bp <= Len(stack)
         /\ Linked(stack, bp)
         /\ sp = Words(stack)
         /\ sp \in Nat
         /\ size \in Nat
         /\ sp <= size
  <1>1. JobOK(job)
    BY JobsAssumption DEF Inv
  <1>2. stack \in Seq(Entries(job)) /\ Len(stack) \in Nat
    BY DEF Inv, TypeOK, Entries
  <1>3. \A k \in 1..Len(stack) : stack[k] \in Entries(job)
    BY <1>2, ElementOfSeq
  <1>4. Linked(stack, bp)
    BY LinkedIsFramesLinked DEF Inv
  <1>5. sp = Words(stack)
    <2>1. UndoWords * Cardinality({k \in 1..Len(stack) : ~Saved(stack, k)})
            + SavedWords * Cardinality({k \in 1..Len(stack) : Saved(stack, k)}) = Words(stack)
      BY <1>2, WordsCounted
    <2> QED
      BY <2>1 DEF Inv, StackFits, IsSaved, Saved
  <1> QED
    BY <1>1, <1>2, <1>3, <1>4, <1>5 DEF Inv, TypeOK, StackFits

\* The other direction, for the state after a step.
LEMMA InvAfter ==
  ASSUME job' \in Jobs,
         pc' \in DOMAIN job'.prog,
         cptr' \in Positions(job'),
         capture' \in [Slots(job') -> Int],
         stack' \in Seq(Entries(job')),
         bp' \in 0..Len(stack'),
         Linked(stack', bp'),
         sp' = Words(stack'),
         size' \in Nat,
         sp' <= size',
         mode' \in Modes
  PROVE  Inv'
  <1>1. Len(stack') \in Nat
    OBVIOUS
  <1>2. Cardinality(SavedAt(stack')) \in Nat
    BY <1>1, SavedAtFinite
  <1>3. sp' \in Nat
    BY <1>1, <1>2 DEF Words, UndoWords
  <1>4. FramesLinked'
    BY DEF FramesLinked, LastSavedBelow, IsSaved, Linked, LastBelow, Saved
  <1>5. UndoWords * Cardinality({k \in 1..Len(stack') : ~Saved(stack', k)})
           + SavedWords * Cardinality({k \in 1..Len(stack') : Saved(stack', k)}) = Words(stack')
    BY <1>1, WordsCounted
  <1>6. StackFits'
    BY <1>5 DEF StackFits, IsSaved, Saved
  <1>7. TypeOK'
    BY <1>3 DEF TypeOK, Entries
  <1> QED
    BY <1>4, <1>6, <1>7 DEF Inv

LEMMA OutOK ==
  ASSUME Inv
  PROVE  OutcomeOK(job, Out)
  BY InvFacts, EffectOK DEF Inv, TypeOK, Out

\* What SAVE_CAPTURE pushes are undo entries, as many as are written or none.
LEMMA UndoInfoOK ==
  ASSUME Inv
  PROVE  UndoInfo(Out.writes, Out.check) \in Seq(UndoEntries(job))
  <1> DEFINE w == Out.writes
  <1>1. w \in Seq(Writes(job))
    BY OutOK DEF OutcomeOK
  <1>2. \A i \in 1..Len(w) : w[i] \in Writes(job)
    BY <1>1, ElementOfSeq
  <1>3. capture \in [Slots(job) -> Int]
    BY DEF Inv, TypeOK
  <1>4. \A i \in 1..Len(w) : Undo(w[i].slot, capture[w[i].slot]) \in UndoEntries(job)
    BY <1>2, <1>3 DEF Undo, UndoEntries, Writes
  <1>5. DOMAIN w = 1..Len(w) /\ Len(w) \in Nat
    BY <1>1
  <1> HIDE DEF w
  <1>6. [i \in DOMAIN w |-> Undo(w[i].slot, capture[w[i].slot])] \in Seq(UndoEntries(job))
    BY <1>4, <1>5, SeqDef
  <1>7. <<>> \in Seq(UndoEntries(job))
    OBVIOUS
  <1> QED
    BY <1>6, <1>7 DEF UndoInfo, w

LEMMA StoredOK ==
  ASSUME Inv
  PROVE  Stored(capture, Out.writes) \in [Slots(job) -> Int]
  <1> DEFINE w == Out.writes
  <1>1. w \in Seq(Writes(job))
    BY OutOK DEF OutcomeOK
  <1>2. \A i \in DOMAIN w : w[i].val \in Int
    <2>1. \A i \in 1..Len(w) : w[i] \in Writes(job)
      BY <1>1, ElementOfSeq
    <2> QED
      BY SMTT(30), <1>1, <2>1 DEF Writes
  <1>3. capture \in [Slots(job) -> Int]
    BY DEF Inv, TypeOK
  <1> HIDE DEF w
  <1>4. \A x \in Slots(job) :
          (IF \E i \in DOMAIN w : w[i].slot = x
           THEN w[CHOOSE i \in DOMAIN w : w[i].slot = x].val
           ELSE capture[x]) \in Int
    BY <1>2, <1>3
  <1> QED
    BY <1>3, <1>4 DEF Stored, w

--------------------------------------------------------------------------------
(***************************************************************************)
(* Storing: undo entries, then at most one saved state, on the stack that  *)
(* was made large enough.                                                  *)
(***************************************************************************)
LEMMA StoreOK ==
  ASSUME Inv, NEW saved \in Seq(SavedStates(job)), Len(saved) \in {0, 1}, Store(saved)
  PROVE  /\ capture' \in [Slots(job) -> Int]
         /\ stack' \in Seq(Entries(job))
         /\ Len(stack') \in Nat
         /\ Len(stack') >= Len(stack) + Len(saved)
         /\ \A i \in 1..Len(stack) : stack'[i] = stack[i]
         /\ \A i \in (Len(stack) + 1)..(Len(stack') - Len(saved)) : ~Saved(stack', i)
         /\ Len(saved) = 1 => Saved(stack', Len(stack')) /\ stack'[Len(stack')] = saved[1]
         /\ sp' = Words(stack')
         /\ size' \in Nat
         /\ sp' <= size'
  <1> DEFINE undo == UndoInfo(Out.writes, Out.check)
             top == sp + UndoWords * Len(undo)
             u == Len(undo)
             n == Len(saved)
             m == Len(stack)
  <1>1. undo \in Seq(UndoEntries(job)) /\ u \in Nat
    BY UndoInfoOK
  <1> HIDE DEF undo
  <1>2. undo \in Seq(Entries(job)) /\ saved \in Seq(Entries(job))
    BY <1>1 DEF Entries
  <1>3. stack \in Seq(Entries(job)) /\ m \in Nat
    BY InvFacts
  <1>4. \A i \in 1..u : undo[i].kind = "undo"
    <2>1. \A i \in 1..u : undo[i] \in UndoEntries(job)
      BY <1>1, ElementOfSeq
    <2> QED
      BY <2>1 DEF UndoEntries
  <1>5. n = 1 => saved[1].kind = "saved"
    <2>1. n = 1 => saved[1] \in SavedStates(job)
      BY ElementOfSeq
    <2> QED
      BY <2>1 DEF SavedStates
  <1>6. capture' \in [Slots(job) -> Int]
    BY StoredOK DEF Store
  <1>7. stack' = (stack \o undo) \o saved
    BY DEF Store, undo
  <1> DEFINE t == stack \o undo
  <1>8. /\ t \in Seq(Entries(job))
        /\ Len(t) = m + u
        /\ \A i \in 1..(m + u) : t[i] = IF i <= m THEN stack[i] ELSE undo[i - m]
    BY <1>2, <1>3, ConcatProperties
  <1>9. /\ stack' \in Seq(Entries(job))
        /\ Len(stack') = m + u + n
        /\ \A i \in 1..(m + u + n) :
             stack'[i] = IF i <= m + u THEN t[i] ELSE saved[i - (m + u)]
    <2>1. t \in Seq(Entries(job)) /\ saved \in Seq(Entries(job))
      BY <1>2, <1>8
    <2> HIDE DEF t
    <2>2. /\ t \o saved \in Seq(Entries(job))
          /\ Len(t \o saved) = Len(t) + Len(saved)
          /\ \A i \in 1..(Len(t) + Len(saved)) :
               (t \o saved)[i] = IF i <= Len(t) THEN t[i] ELSE saved[i - Len(t)]
      BY <2>1, ConcatProperties
    <2> QED
      BY <1>7, <1>8, <2>2 DEF t
  <1> HIDE DEF t, u, n, m
  <1>10. n \in {0, 1}
    BY DEF n
  <1>11. \A i \in 1..m : stack'[i] = stack[i]
    BY <1>1, <1>3, <1>8, <1>9, <1>10
  <1>12. \A i \in (m + 1)..(m + u) : ~Saved(stack', i)
    <2>1. \A i \in (m + 1)..(m + u) : i - m \in 1..u /\ stack'[i] = undo[i - m]
      BY <1>1, <1>3, <1>8, <1>9, <1>10
    <2> QED
      BY <1>4, <2>1 DEF Saved
  <1>13. n = 1 => Saved(stack', Len(stack')) /\ stack'[Len(stack')] = saved[1]
    <2>1. n = 1 => stack'[m + u + 1] = saved[1]
      BY <1>1, <1>3, <1>9
    <2> QED
      BY <1>5, <1>9, <2>1 DEF Saved
  <1>14. Len(stack') - n = m + u /\ Len(stack') \in Nat /\ Len(stack') >= m + n
    BY <1>1, <1>3, <1>9, <1>10
  <1>15. Words(stack') = Words(stack) + UndoWords * (Len(stack') - m) + n
    BY <1>3, <1>10, <1>11, <1>12, <1>13, <1>14, WordsPushed DEF m
  <1>16. sp = Words(stack) /\ sp \in Nat /\ size \in Nat
    BY InvFacts
  <1>17. sp' = top + SavedWords * n
    BY DEF Store, undo, n
  <1>18. top = sp + UndoWords * u
    BY DEF u
  <1> HIDE DEF top
  <1>19. sp' = Words(stack')
    <2>1. UndoWords * (Len(stack') - m) = UndoWords * u + UndoWords * n
      BY SMTT(30), <1>1, <1>3, <1>9, <1>10 DEF UndoWords
    <2> QED
      BY <1>1, <1>10, <1>15, <1>16, <1>17, <1>18, <2>1 DEF UndoWords, SavedWords
  <1>20. top \in Nat /\ sp' \in Nat
    <2>1. top \in Nat
      BY <1>1, <1>16, <1>18 DEF UndoWords
    <2> QED
      BY <1>10, <1>17, <2>1 DEF SavedWords
  <1>21. SizeWith(undo) \in Nat /\ top <= SizeWith(undo)
    <2> DEFINE half == Grown(size, sp + u)
    <2>1. half \in Nat
      <3>1. sp + u \in Nat
        BY <1>1, <1>16
      <3> QED
        BY <1>16, <3>1, GrownFits
    <2> HIDE DEF half
    <2>2. (3 * half) \div 2 \in Nat
      BY <2>1
    <2> DEFINE h == IF top <= half THEN half ELSE (3 * half) \div 2
    <2>3. h \in Nat
      BY <2>1, <2>2
    <2>4. SizeWith(undo) = Grown(h, top)
      BY DEF SizeWith, half, top, u
    <2> HIDE DEF h
    <2> QED
      BY <1>20, <2>3, <2>4, GrownFits
  <1>22. size' \in Nat /\ sp' <= size'
    <2>1. CASE saved = <<>>
      <3>1. size' = SizeWith(undo)
        BY <2>1 DEF Store, undo, SizeAfter
      <3>2. sp' = top
        BY <1>17, <1>20, <2>1 DEF n, SavedWords
      <3> QED
        BY <1>21, <3>1, <3>2
    <2>2. CASE saved # <<>>
      <3>1. size' = Grown(SizeWith(undo), sp')
        BY <2>2 DEF Store, undo, SizeAfter
      <3> QED
        BY <1>20, <1>21, <3>1, GrownFits
    <2> QED
      BY <2>1, <2>2
  <1> QED
    BY <1>6, <1>9, <1>11, <1>12, <1>13, <1>14, <1>19, <1>22 DEF m, n

\* Pushing nothing but undo entries keeps the invariant wherever the program goes on.
LEMMA StoreNothing ==
  ASSUME Inv, Store(<<>>), pc' \in DOMAIN job.prog, cptr' \in Positions(job),
         job' = job, bp' = bp, mode' \in Modes
  PROVE  Inv'
  <1> DEFINE none == <<>>
  <1>1. none \in Seq(SavedStates(job)) /\ Len(none) = 0 /\ Len(none) \in {0, 1} /\ Store(none)
    OBVIOUS
  <1> HIDE DEF none
  <1>2. /\ capture' \in [Slots(job) -> Int]
        /\ stack' \in Seq(Entries(job))
        /\ Len(stack') \in Nat
        /\ Len(stack') >= Len(stack)
        /\ \A i \in 1..Len(stack) : stack'[i] = stack[i]
        /\ \A i \in (Len(stack) + 1)..Len(stack') : ~Saved(stack', i)
        /\ sp' = Words(stack')
        /\ size' \in Nat
        /\ sp' <= size'
    <2>1. Len(stack') >= Len(stack) + Len(none)
      BY <1>1, StoreOK
    <2>2. \A i \in (Len(stack) + 1)..(Len(stack') - Len(none)) : ~Saved(stack', i)
      BY <1>1, StoreOK
    <2>3. Len(stack) \in Nat /\ Len(stack') \in Nat
      BY <1>1, StoreOK, InvFacts
    <2>4. Len(stack') - Len(none) = Len(stack') /\ Len(stack) + Len(none) = Len(stack)
      BY <1>1, <2>3
    <2>5. /\ capture' \in [Slots(job) -> Int]
          /\ stack' \in Seq(Entries(job))
          /\ \A i \in 1..Len(stack) : stack'[i] = stack[i]
          /\ sp' = Words(stack')
          /\ size' \in Nat
          /\ sp' <= size'
      BY <1>1, StoreOK
    <2> QED
      BY <2>1, <2>2, <2>3, <2>4, <2>5
  <1>3. Linked(stack', bp)
    BY <1>2, InvFacts, PushUndo
  <1>4. bp \in 0..Len(stack')
    BY <1>2, InvFacts
  <1>5. job' \in Jobs
    BY DEF Inv
  <1> QED
    BY <1>2, <1>3, <1>4, <1>5, InvAfter

--------------------------------------------------------------------------------
(***************************************************************************)
(* Every step keeps the invariant.                                         *)
(***************************************************************************)
LEMMA InitInv == Init => Inv
  <1> SUFFICES ASSUME Init PROVE Inv
    OBVIOUS
  <1>1. JobOK(job) /\ StaticWords \in Nat
    BY JobsAssumption DEF Init
  <1>2. pc \in DOMAIN job.prog
    BY <1>1 DEF Init, JobOK, Instruction
  <1>3. cptr \in Positions(job)
    BY <1>1, StartInside DEF Init
  <1>4. capture \in [Slots(job) -> Int]
    BY DEF Init, NoCaptures, NULL, Junk
  <1>5. stack \in Seq(Entries(job)) /\ Len(stack) = 0 /\ bp = 0
    BY DEF Init
  <1>6. TypeOK
    BY <1>1, <1>2, <1>3, <1>4, <1>5 DEF Init, TypeOK, Entries, Modes
  <1>7. FramesLinked
    BY <1>5 DEF FramesLinked, LastSavedBelow
  <1>8. StackFits
    <2>1. {k \in 1..Len(stack) : ~IsSaved(k)} = {} /\ {k \in 1..Len(stack) : IsSaved(k)} = {}
      BY <1>5
    <2>2. Cardinality({}) = 0
      BY FS_EmptySet
    <2>3. sp = 0 /\ size \in Nat
      BY <1>1 DEF Init
    <2>4. /\ Cardinality({k \in 1..Len(stack) : ~IsSaved(k)}) = 0
          /\ Cardinality({k \in 1..Len(stack) : IsSaved(k)}) = 0
      BY <2>1, <2>2
    <2>5. UndoWords * 0 + SavedWords * 0 = 0
      BY DEF UndoWords, SavedWords
    <2>6. sp <= size
      BY <2>3
    <2>7. sp = UndoWords * Cardinality({k \in 1..Len(stack) : ~IsSaved(k)})
               + SavedWords * Cardinality({k \in 1..Len(stack) : IsSaved(k)})
      BY <2>3, <2>4, <2>5
    <2> QED
      BY <2>6, <2>7 DEF StackFits
  <1> QED
    BY <1>6, <1>7, <1>8 DEF Inv, Init

LEMMA ContinueInv == Inv /\ Continue => Inv'
  <1> SUFFICES ASSUME Inv, Continue PROVE Inv'
    OBVIOUS
  <1>1. Out.pc \in DOMAIN job.prog /\ Out.cptr \in Positions(job)
    BY OutOK DEF Continue, OutcomeOK, Instruction
  <1>2. mode' \in Modes
    BY DEF Continue, Modes
  <1> QED
    BY <1>1, <1>2, StoreNothing DEF Continue

LEMMA MismatchInv == Inv /\ Mismatch => Inv'
  <1> SUFFICES ASSUME Inv, Mismatch PROVE Inv'
    OBVIOUS
  <1>1. pc' \in DOMAIN job.prog /\ cptr' \in Positions(job)
    BY DEF Mismatch, Inv, TypeOK
  <1>2. mode' \in Modes
    BY DEF Mismatch, Modes
  <1> QED
    BY <1>1, <1>2, StoreNothing DEF Mismatch

LEMMA TakeBranchInv == Inv /\ TakeBranch => Inv'
  <1> SUFFICES ASSUME Inv, TakeBranch PROVE Inv'
    OBVIOUS
  <1> DEFINE st == SavedState(Out.alt, Out.cptr, bp, Out.type)
             saved == <<st>>
  <1>1. /\ Out.pc \in DOMAIN job.prog
        /\ Out.cptr \in Positions(job)
        /\ Out.alt \in DOMAIN job.prog
        /\ Out.type \in Types
    BY OutOK DEF TakeBranch, OutcomeOK, Instruction
  <1>2. st \in SavedStates(job) /\ st.bp = bp
    BY <1>1, InvFacts DEF SavedState, SavedStates
  <1>3. Store(saved)
    BY DEF TakeBranch
  <1> HIDE DEF st
  <1>4. saved \in Seq(SavedStates(job)) /\ Len(saved) = 1 /\ Len(saved) \in {0, 1} /\ saved[1] = st
    BY <1>2
  <1> HIDE DEF saved
  <1>5. /\ capture' \in [Slots(job) -> Int]
        /\ stack' \in Seq(Entries(job))
        /\ Len(stack') \in Nat
        /\ \A i \in 1..Len(stack) : stack'[i] = stack[i]
        /\ sp' = Words(stack')
        /\ size' \in Nat
        /\ sp' <= size'
    BY <1>3, <1>4, StoreOK
  <1>6. /\ Len(stack') >= Len(stack) + Len(saved)
        /\ \A i \in (Len(stack) + 1)..(Len(stack') - Len(saved)) : ~Saved(stack', i)
        /\ Len(saved) = 1 => Saved(stack', Len(stack')) /\ stack'[Len(stack')] = saved[1]
    BY <1>3, <1>4, StoreOK
  <1>7. Len(stack') > Len(stack)
    BY <1>4, <1>5, <1>6, InvFacts
  <1>8. \A i \in (Len(stack) + 1)..(Len(stack') - 1) : ~Saved(stack', i)
    BY <1>4, <1>6
  <1>9. Saved(stack', Len(stack')) /\ stack'[Len(stack')].bp = bp
    BY <1>2, <1>4, <1>6
  <1>10. Linked(stack', Len(stack'))
    BY <1>5, <1>7, <1>8, <1>9, InvFacts, PushSaved
  <1>11. /\ job' = job
         /\ job' \in Jobs
         /\ pc' = Out.pc
         /\ cptr' = Out.cptr
         /\ bp' = Len(stack')
         /\ mode' \in Modes
    BY DEF TakeBranch, Inv, Modes
  <1>12. bp' \in 0..Len(stack')
    BY <1>5, <1>11
  <1>13. Linked(stack', bp')
    BY <1>10, <1>11
  <1> QED
    BY <1>1, <1>5, <1>11, <1>12, <1>13, InvAfter

LEMMA StopInv == Inv /\ (EndAssertion \/ EndMatch \/ OutOfMemory \/ Exhausted) => Inv'
  <1> SUFFICES ASSUME Inv, EndAssertion \/ EndMatch \/ OutOfMemory \/ Exhausted
               PROVE  Inv'
    OBVIOUS
  <1>1. mode' \in Modes
    BY DEF EndAssertion, EndMatch, OutOfMemory, Exhausted, Modes, Stopped
  <1>2. UNCHANGED <<job, pc, cptr, capture, stack, sp, bp, size>>
    BY DEF EndAssertion, EndMatch, OutOfMemory, Exhausted
  <1>3. TypeOK'
    BY <1>1, <1>2 DEF Inv, TypeOK
  <1>4. FramesLinked'
    BY <1>2 DEF Inv, FramesLinked, LastSavedBelow, IsSaved
  <1>5. StackFits'
    BY <1>2 DEF Inv, StackFits, IsSaved
  <1> QED
    BY <1>2, <1>3, <1>4, <1>5 DEF Inv

\* The stack without its last entry.
LEMMA PoppedFacts ==
  ASSUME NEW S, NEW s \in Seq(S), Len(s) # 0, NEW t, t = SubSeq(s, 1, Len(s) - 1)
  PROVE  /\ t \in Seq(S)
         /\ Len(t) = Len(s) - 1
         /\ \A i \in 1..Len(t) : t[i] = s[i]
  <1>1. Len(s) \in Nat \ {0}
    OBVIOUS
  <1>2. \A i \in 1..(Len(s) - 1) : s[i] \in S
    BY ElementOfSeq
  <1>3. /\ t \in Seq(S)
        /\ Len(t) = IF 1 <= Len(s) - 1 THEN Len(s) - 1 - 1 + 1 ELSE 0
        /\ \A i \in 1..(Len(s) - 1 - 1 + 1) : t[i] = s[1 + i - 1]
    BY <1>1, <1>2, SubSeqProperties
  <1>4. Len(t) = Len(s) - 1
    <2>1. \A n \in Nat \ {0} : (IF 1 <= n - 1 THEN n - 1 - 1 + 1 ELSE 0) = n - 1
      OBVIOUS
    <2> QED
      BY <1>1, <1>3, <2>1
  <1> QED
    BY <1>1, <1>3, <1>4

LEMMA UndoTopInv == Inv /\ UndoTop => Inv'
  <1> SUFFICES ASSUME Inv, UndoTop PROVE Inv'
    OBVIOUS
  <1>1. /\ Len(stack) \in Nat \ {0}
        /\ bp < Len(stack)
        /\ bp \in Nat
        /\ stack \in Seq(Entries(job))
        /\ Linked(stack, bp)
    BY InvFacts DEF UndoTop
  <1>2. ~Saved(stack, Len(stack))
    BY <1>1 DEF Linked, LastBelow
  <1>3. Top.slot \in Slots(job) /\ Top.val \in Int
    <2>1. stack[Len(stack)] \in Entries(job)
      BY <1>1, InvFacts
    <2> QED
      BY <1>2, <2>1, EntryFacts DEF Top, Saved
  <1>4. capture' \in [Slots(job) -> Int]
    BY <1>3 DEF UndoTop, Inv, TypeOK
  <1>5. /\ stack' \in Seq(Entries(job))
        /\ Len(stack') = Len(stack) - 1
        /\ \A i \in 1..Len(stack') : stack'[i] = stack[i]
    BY <1>1, PoppedFacts DEF UndoTop, Popped
  <1>6. Linked(stack', bp)
    BY <1>1, <1>5, PopUndo
  <1>7. Words(stack') = Words(stack) - UndoWords
    BY <1>1, <1>2, <1>5, WordsPopped
  <1>8. sp' = Words(stack')
    BY <1>7, InvFacts DEF UndoTop
  <1>9. sp' <= size
    BY InvFacts DEF UndoTop, UndoWords
  <1>10. /\ job' = job
         /\ job' \in Jobs
         /\ pc' = pc /\ pc \in DOMAIN job.prog
         /\ cptr' = cptr /\ cptr \in Positions(job)
         /\ bp' = bp
         /\ size' = size /\ size \in Nat
         /\ mode' \in Modes
    BY DEF UndoTop, Inv, TypeOK
  <1>11. bp \in 0..Len(stack')
    BY <1>1, <1>5
  <1> QED
    BY <1>4, <1>5, <1>6, <1>8, <1>9, <1>10, <1>11, InvAfter

\* The last saved state is a saved state: restoring it is restoring a position and
\* a link.
LEMMA LastSavedFacts ==
  ASSUME Inv, bp # 0
  PROVE  /\ bp \in 1..Len(stack)
         /\ Saved(stack, bp)
         /\ stack[bp].pc \in DOMAIN job.prog
         /\ stack[bp].cptr \in Positions(job)
         /\ stack[bp].type \in Types
         /\ stack[bp].bp = 0 \/ stack[bp].bp \in 1..(bp - 1)
  <1>1. bp \in 1..Len(stack) /\ Linked(stack, bp)
    BY InvFacts
  <1>2. Saved(stack, bp)
    BY <1>1 DEF Linked, LastBelow
  <1>3. stack[bp] \in Entries(job)
    BY <1>1, InvFacts
  <1>4. LastBelow(stack, bp, stack[bp].bp)
    BY <1>1, <1>2 DEF Linked
  <1> QED
    BY <1>1, <1>2, <1>3, <1>4, EntryFacts DEF Saved, LastBelow

LEMMA DropSaved ==
  ASSUME Inv, bp # 0, Restore(stack[bp]),
         stack' \in Seq(Entries(job)),
         Len(stack') = Len(stack) - 1,
         \A i \in 1..(bp - 1) : stack'[i] = stack[i],
         \A i \in bp..Len(stack') : stack'[i] = stack[i + 1],
         sp' = sp - SavedWords,
         UNCHANGED <<job, capture, size>>,
         mode' \in Modes
  PROVE  Inv'
  <1>1. bp \in 1..Len(stack) /\ Linked(stack, bp) /\ Len(stack) \in Nat
    BY InvFacts, LastSavedFacts
  <1>2. Linked(stack', stack[bp].bp)
    BY <1>1, TakeOut
  <1>3. Words(stack') = Words(stack) - SavedWords
    BY <1>1, WordsTakenOut
  <1>4. sp' = Words(stack') /\ sp' <= size /\ size \in Nat
    BY <1>3, InvFacts DEF SavedWords
  <1>5. /\ pc' \in DOMAIN job.prog
        /\ cptr' \in Positions(job)
        /\ bp' = stack[bp].bp
        /\ bp' \in 0..Len(stack')
    BY <1>1, LastSavedFacts DEF Restore
  <1>6. Linked(stack', bp')
    BY <1>2, <1>5
  <1>7. job' = job /\ job' \in Jobs /\ capture' \in [Slots(job) -> Int] /\ size' = size
    BY DEF Inv, TypeOK
  <1> QED
    BY <1>4, <1>5, <1>6, <1>7, InvAfter

LEMMA ResumeInv == Inv /\ (Resume \/ PopNegative) => Inv'
  <1> SUFFICES ASSUME Inv, Resume \/ PopNegative PROVE Inv'
    OBVIOUS
  <1>1. /\ bp # 0
        /\ Len(stack) = bp
        /\ Restore(stack[bp])
        /\ stack' = SubSeq(stack, 1, Len(stack) - 1)
        /\ sp' = sp - SavedWords
        /\ UNCHANGED <<job, capture, size>>
    BY DEF Resume, PopNegative, Top, Popped
  <1>2. mode' \in Modes
    BY DEF Resume, PopNegative, Modes
  <1>3. stack \in Seq(Entries(job)) /\ Len(stack) \in Nat
    BY InvFacts
  <1>4. /\ stack' \in Seq(Entries(job))
        /\ Len(stack') = Len(stack) - 1
        /\ \A i \in 1..Len(stack') : stack'[i] = stack[i]
    BY <1>1, <1>3, PoppedFacts
  <1>5. /\ \A i \in 1..(bp - 1) : stack'[i] = stack[i]
        /\ \A i \in bp..Len(stack') : stack'[i] = stack[i + 1]
    BY <1>1, <1>3, <1>4
  <1> QED
    BY <1>1, <1>2, <1>4, <1>5, DropSaved

\* The stack without its entry b.
Without(s, b) == SubSeq(s, 1, b - 1) \o SubSeq(s, b + 1, Len(s))

LEMMA TakenOutFacts ==
  ASSUME NEW S, NEW s \in Seq(S), NEW b \in 1..Len(s), NEW t, t = Without(s, b)
  PROVE  /\ t \in Seq(S)
         /\ Len(t) = Len(s) - 1
         /\ \A i \in 1..(b - 1) : t[i] = s[i]
         /\ \A i \in b..Len(t) : t[i] = s[i + 1]
  <1> DEFINE low == SubSeq(s, 1, b - 1)
             high == SubSeq(s, b + 1, Len(s))
             n == Len(s)
  <1>1. n \in Nat /\ b \in Nat /\ 1 <= b /\ b <= n
    OBVIOUS
  <1>2. \A i \in 1..n : s[i] \in S
    BY ElementOfSeq
  <1>3. /\ low \in Seq(S)
        /\ Len(low) = b - 1
        /\ \A i \in 1..(b - 1) : low[i] = s[i]
    <2>1. \A i \in 1..(b - 1) : s[i] \in S
      BY <1>1, <1>2
    <2>2. /\ low \in Seq(S)
          /\ Len(low) = IF 1 <= b - 1 THEN b - 1 - 1 + 1 ELSE 0
          /\ \A i \in 1..(b - 1 - 1 + 1) : low[i] = s[1 + i - 1]
      BY <1>1, <2>1, SubSeqProperties
    <2>3. (IF 1 <= b - 1 THEN b - 1 - 1 + 1 ELSE 0) = b - 1
      BY <1>1
    <2> HIDE DEF low
    <2> QED
      BY <1>1, <2>2, <2>3
  <1>4. /\ high \in Seq(S)
        /\ Len(high) = n - b
        /\ \A i \in 1..(n - b) : high[i] = s[b + i]
    <2>1. \A i \in (b + 1)..n : s[i] \in S
      BY <1>1, <1>2
    <2>2. /\ high \in Seq(S)
          /\ Len(high) = IF b + 1 <= n THEN n - (b + 1) + 1 ELSE 0
          /\ \A i \in 1..(n - (b + 1) + 1) : high[i] = s[b + 1 + i - 1]
      BY <1>1, <2>1, SubSeqProperties
    <2>3. (IF b + 1 <= n THEN n - (b + 1) + 1 ELSE 0) = n - b
      BY <1>1
    <2>4. \A i \in 1..(n - b) : i \in 1..(n - (b + 1) + 1) /\ b + 1 + i - 1 = b + i
      BY <1>1
    <2> HIDE DEF high
    <2> QED
      BY <2>2, <2>3, <2>4
  <1> HIDE DEF low, high
  <1>5. /\ t \in Seq(S)
        /\ Len(t) = Len(low) + Len(high)
        /\ \A i \in 1..(Len(low) + Len(high)) :
             t[i] = IF i <= Len(low) THEN low[i] ELSE high[i - Len(low)]
    <2>1. t = low \o high
      BY DEF low, high, Without
    <2>2. low \in Seq(S) /\ high \in Seq(S)
      BY <1>3, <1>4
    <2>3. /\ low \o high \in Seq(S)
          /\ Len(low \o high) = Len(low) + Len(high)
          /\ \A i \in 1..(Len(low) + Len(high)) :
               (low \o high)[i] = IF i <= Len(low) THEN low[i] ELSE high[i - Len(low)]
      BY <2>2, ConcatProperties
    <2> QED
      BY <2>1, <2>3
  <1>6. Len(t) = n - 1
    <2>1. Len(t) = Len(low) + Len(high) /\ Len(low) = b - 1 /\ Len(high) = n - b
      BY <1>3, <1>4, <1>5
    <2>2. \A x, y \in Nat : (x - 1) + (y - x) = y - 1
      OBVIOUS
    <2>3. Len(t) = (b - 1) + (n - b)
      BY <2>1
    <2> HIDE DEF n
    <2> QED
      BY <1>1, <2>2, <2>3
  <1>7. \A i \in 1..(b - 1) : t[i] = s[i]
    <2>1. \A i \in 1..(b - 1) : i \in 1..(Len(low) + Len(high)) /\ i <= Len(low)
      BY <1>1, <1>3, <1>4
    <2> QED
      BY <1>3, <1>5, <2>1
  <1>8. \A i \in b..(n - 1) : t[i] = s[i + 1]
    <2>1. \A i \in b..(n - 1) :
            /\ i \in 1..(Len(low) + Len(high))
            /\ ~(i <= Len(low))
            /\ i - Len(low) = i - b + 1
            /\ i - b + 1 \in 1..(n - b)
            /\ b + (i - b + 1) = i + 1
      BY <1>1, <1>3, <1>4
    <2> QED
      BY ZenonT(40), <1>4, <1>5, <2>1
  <1> QED
    BY <1>5, <1>6, <1>7, <1>8

LEMMA PopLookaheadInv == Inv /\ PopLookahead => Inv'
  <1> SUFFICES ASSUME Inv, PopLookahead PROVE Inv'
    OBVIOUS
  <1>1. /\ bp # 0
        /\ Restore(stack[bp])
        /\ stack' = TakenOut(bp, stack[bp].type)
        /\ sp' = IF stack' = <<>> THEN 0 ELSE sp - SavedWords
        /\ UNCHANGED <<job, capture, size>>
    BY DEF PopLookahead
  <1>2. mode' \in Modes
    BY DEF PopLookahead, Modes
  <1>3. stack \in Seq(Entries(job)) /\ Len(stack) \in Nat /\ bp \in 1..Len(stack)
    BY <1>1, InvFacts, LastSavedFacts
  <1>4. CASE bp = 1 /\ stack[bp].type = "lookahead"
    <2>1. stack' = <<>> /\ sp' = 0
      BY <1>1, <1>4 DEF TakenOut
    <2>2. bp' = 0 /\ pc' \in DOMAIN job.prog /\ cptr' \in Positions(job)
      BY <1>1, <1>4, LastSavedFacts DEF Restore
    <2>3. SavedAt(<<>>) = {}
      BY DEF SavedAt
    <2>4. Words(stack') = 0
      BY <2>1, <2>3, FS_EmptySet DEF Words, UndoWords
    <2>5. Linked(stack', bp')
      BY <2>1, <2>2 DEF Linked, LastBelow
    <2>6. stack' \in Seq(Entries(job)) /\ Len(stack') = 0
      BY <2>1
    <2>7. job' = job /\ job' \in Jobs /\ capture' \in [Slots(job) -> Int] /\ size' = size
      BY <1>1 DEF Inv, TypeOK
    <2>8. size \in Nat /\ 0 <= size
      BY InvFacts
    <2> QED
      BY <1>2, <2>1, <2>2, <2>4, <2>5, <2>6, <2>7, <2>8, InvAfter
  <1>5. CASE ~(bp = 1 /\ stack[bp].type = "lookahead")
    <2>1. stack' = Without(stack, bp)
      BY <1>1, <1>5 DEF TakenOut, Without
    <2>2. /\ stack' \in Seq(Entries(job))
          /\ Len(stack') = Len(stack) - 1
          /\ \A i \in 1..(bp - 1) : stack'[i] = stack[i]
          /\ \A i \in bp..Len(stack') : stack'[i] = stack[i + 1]
      BY <1>3, <2>1, TakenOutFacts
    <2>3. sp' = sp - SavedWords
      <3>1. CASE stack' = <<>>
        <4>1. Len(stack') = 0
          BY <3>1
        <4>2. Words(stack') = 0
          <5>1. SavedAt(<<>>) = {}
            BY DEF SavedAt
          <5> QED
            BY <3>1, <5>1, FS_EmptySet DEF Words, UndoWords
        <4>3. Words(stack') = Words(stack) - SavedWords
          BY <1>3, <2>2, InvFacts, WordsTakenOut
        <4> QED
          BY <1>1, <3>1, <4>2, <4>3, InvFacts
      <3>2. CASE stack' # <<>>
        BY <1>1, <3>2
      <3> QED
        BY <3>1, <3>2
    <2> QED
      BY <1>1, <1>2, <2>2, <2>3, DropSaved
  <1> QED
    BY <1>4, <1>5

LEMMA NextInv == Inv /\ [Next]_vars => Inv'
  <1> SUFFICES ASSUME Inv, [Next]_vars PROVE Inv'
    OBVIOUS
  <1>1. CASE Continue
    BY <1>1, ContinueInv
  <1>2. CASE TakeBranch
    BY <1>2, TakeBranchInv
  <1>3. CASE Mismatch
    BY <1>3, MismatchInv
  <1>4. CASE EndAssertion \/ EndMatch \/ OutOfMemory \/ Exhausted
    BY <1>4, StopInv
  <1>5. CASE UndoTop
    BY <1>5, UndoTopInv
  <1>6. CASE Resume \/ PopNegative
    BY <1>6, ResumeInv
  <1>7. CASE PopLookahead
    BY <1>7, PopLookaheadInv
  <1>8. CASE Returned \/ UNCHANGED vars
    <2>1. UNCHANGED vars
      BY <1>8 DEF Returned
    <2> QED
      BY <2>1 DEF vars, Inv, TypeOK, FramesLinked, LastSavedBelow, StackFits, IsSaved
  <1> QED
    BY <1>1, <1>2, <1>3, <1>4, <1>5, <1>6, <1>7, <1>8 DEF Next

--------------------------------------------------------------------------------
(***************************************************************************)
(* The theorems.                                                           *)
(***************************************************************************)
LEMMA Invariance == Spec => []Inv
  <1> QED
    BY InitInv, NextInv, PTL DEF Spec

\* The interpreter's state keeps its types: pc and cptr never leave the program and
\* the subject, and an undo entry always names a slot of capture[]
\* (lre_exec_backtrack, for every program compiled and every subject).
THEOREM TypeCorrect == Spec => []TypeOK
  <1>1. Inv => TypeOK
    BY DEF Inv
  <1> QED
    BY <1>1, Invariance, PTL

\* The links of the saved states are the chain of the saved states on the stack,
\* through backtracking and through the compaction at lookahead_match.
THEOREM FramesAreLinked == Spec => []FramesLinked
  <1>1. Inv => FramesLinked
    BY DEF Inv
  <1> QED
    BY <1>1, Invariance, PTL

\* CHECK_STACK_SPACE: what is pushed always fits the words stack_realloc allocated.
THEOREM StackAlwaysFits == Spec => []StackFits
  <1>1. Inv => StackFits
    BY DEF Inv
  <1> QED
    BY <1>1, Invariance, PTL

--------------------------------------------------------------------------------
(***************************************************************************)
(* The least element of a set, as undo entries are sought.                 *)
(***************************************************************************)
LEMMA LeastExists ==
  ASSUME NEW S \in SUBSET Nat, S # {}
  PROVE  \E p \in S : \A n \in S : p <= n
  <1> DEFINE R == {ss \in Nat \X Nat : ss[1] < ss[2]}
  <1>1. IsWellFoundedOn(R, Nat)
    BY NatLessThanWellFounded DEF OpToRel
  <1>2. PICK p \in S : \A n \in S : ~(<<n, p>> \in R)
    <2> HIDE DEF R
    <2> QED
      BY <1>1, WFMin
  <1>3. \A n \in S : ~(n < p)
    BY <1>2
  <1> QED
    BY <1>3

LeastOf(S) == CHOOSE i \in S : \A h \in S : i <= h

LEMMA LeastOfIs ==
  ASSUME NEW S \in SUBSET Nat, S # {}
  PROVE  LeastOf(S) \in S /\ \A h \in S : LeastOf(S) <= h
  BY LeastExists DEF LeastOf

LEMMA LeastOfUnique ==
  ASSUME NEW S \in SUBSET Nat, NEW i \in S, \A h \in S : i <= h
  PROVE  LeastOf(S) = i
  <1>1. LeastOf(S) \in S /\ LeastOf(S) <= i
    BY LeastOfIs
  <1>2. i <= LeastOf(S)
    BY <1>1
  <1>3. i \in Nat /\ LeastOf(S) \in Nat
    BY <1>1
  <1> QED
    BY <1>1, <1>2, <1>3

--------------------------------------------------------------------------------
(***************************************************************************)
(* The captures that index k of a stack s stands for, when cap is in the   *)
(* array.                                                                  *)
(***************************************************************************)
Undone(s, k, x) == {i \in (k + 1)..Len(s) : ~Saved(s, i) /\ s[i].slot = x}

OldValue(s, cap, k, x) ==
  IF Undone(s, k, x) = {} THEN cap[x] ELSE s[LeastOf(Undone(s, k, x))].val

LEMMA CaptureAtIs ==
  ASSUME NEW k
  PROVE  /\ CaptureAt(k) = [x \in Slots(job) |-> OldValue(stack, capture, k, x)]
         /\ CaptureAt(k)' = [x \in Slots(job') |-> OldValue(stack', capture', k, x)]
  BY DEF CaptureAt, UndoneAbove, IsSaved, Saved, Undone, OldValue, LeastOf

\* Undo entries with the values of the array are pushed, and then only slots change
\* that have one; a saved state on top of them makes no difference.
Pushed(s, cap, t, new, k, x) ==
  /\ Len(s) \in Nat /\ Len(t) \in Nat /\ Len(s) <= Len(t)
  /\ k \in Nat /\ k <= Len(s)
  /\ \A i \in 1..Len(s) : t[i] = s[i]
  /\ \A i \in (Len(s) + 1)..Len(t) : ~Saved(t, i) => t[i].val = cap[t[i].slot]
  /\ new[x] # cap[x] => Undone(t, k, x) # {}

LEMMA OldValueKept ==
  ASSUME NEW s, NEW cap, NEW t, NEW new, NEW k, NEW x, Pushed(s, cap, t, new, k, x)
  PROVE  OldValue(t, new, k, x) = OldValue(s, cap, k, x)
  <1> DEFINE U == Undone(s, k, x)
             V == Undone(t, k, x)
  <1>1. U \in SUBSET Nat /\ V \in SUBSET Nat
    BY DEF Pushed, Undone
  <1>2. U \subseteq V
    BY DEF Pushed, Undone, Saved
  <1>3. \A i \in V : i \in U \/ (i > Len(s) /\ t[i].val = cap[x])
    BY DEF Pushed, Undone, Saved
  <1>4. CASE U # {}
    <2>1. LeastOf(U) \in U /\ \A h \in U : LeastOf(U) <= h
      BY <1>1, <1>4, LeastOfIs
    <2>2. \A h \in V : LeastOf(U) <= h
      BY <1>3, <2>1 DEF Pushed, Undone
    <2>3. LeastOf(V) = LeastOf(U)
      BY <1>1, <1>2, <2>1, <2>2, LeastOfUnique
    <2>4. t[LeastOf(U)] = s[LeastOf(U)]
      BY <2>1 DEF Pushed, Undone
    <2>5. V # {}
      BY <1>2, <1>4
    <2> QED
      BY <1>4, <2>3, <2>4, <2>5 DEF OldValue
  <1>5. CASE U = {} /\ V # {}
    <2>1. LeastOf(V) \in V
      BY <1>1, <1>5, LeastOfIs
    <2>2. t[LeastOf(V)].val = cap[x]
      BY <1>3, <1>5, <2>1
    <2> QED
      BY <1>5, <2>2 DEF OldValue
  <1>6. CASE U = {} /\ V = {}
    BY <1>6 DEF Pushed, OldValue
  <1> QED
    BY <1>4, <1>5, <1>6

\* A saved state above k is taken out.
LEMMA OldValueTakenOut ==
  ASSUME NEW s, NEW t, NEW cap, NEW k \in Nat, NEW x, NEW b \in 1..Len(s),
         Len(s) \in Nat, Len(t) = Len(s) - 1, k < b, Saved(s, b),
         \A i \in 1..(b - 1) : t[i] = s[i],
         \A i \in b..Len(t) : t[i] = s[i + 1]
  PROVE  OldValue(t, cap, k, x) = OldValue(s, cap, k, x)
  <1> DEFINE U == Undone(s, k, x)
             V == Undone(t, k, x)
             up(i) == IF i < b THEN i ELSE i + 1
  <1>1. U \in SUBSET Nat /\ V \in SUBSET Nat
    BY DEF Undone
  <1>2. \A i \in V : up(i) \in U /\ t[i] = s[up(i)]
    BY DEF Undone, Saved
  <1>3. \A h \in U : \E i \in V : h = up(i)
    <2> SUFFICES ASSUME NEW h \in U PROVE \E i \in V : h = up(i)
      OBVIOUS
    <2>1. h # b
      BY DEF Undone
    <2>2. CASE h < b
      <3>1. h \in V
        BY <2>2 DEF Undone, Saved
      <3> QED
        BY <2>2, <3>1
    <2>3. CASE h > b
      <3>1. h - 1 \in V /\ h = up(h - 1)
        BY <2>3 DEF Undone, Saved
      <3> QED
        BY <3>1
    <2> QED
      BY <2>1, <2>2, <2>3 DEF Undone
  <1>4. CASE V # {}
    <2>1. LeastOf(V) \in V /\ \A h \in V : LeastOf(V) <= h
      BY <1>1, <1>4, LeastOfIs
    <2>2. up(LeastOf(V)) \in U
      BY <1>2, <2>1
    <2>3. \A h \in U : up(LeastOf(V)) <= h
      BY <1>1, <1>3, <2>1
    <2>4. LeastOf(U) = up(LeastOf(V))
      <3> HIDE DEF up, U, V
      <3> QED
        BY <1>1, <2>2, <2>3, LeastOfUnique
    <2>5. U # {} /\ t[LeastOf(V)] = s[LeastOf(U)]
      BY <1>2, <2>1, <2>2, <2>4
    <2> QED
      BY <1>4, <2>5 DEF OldValue
  <1>5. CASE V = {}
    <2>1. U = {}
      BY <1>3, <1>5
    <2> QED
      BY <1>5, <2>1 DEF OldValue
  <1> QED
    BY <1>4, <1>5

--------------------------------------------------------------------------------
(***************************************************************************)
(* Every step.                                                             *)
(***************************************************************************)
\* The saved states that stay on the stack stand for the captures they stood for.
KeepCaptures ==
  \A k \in 1..Len(stack) :
    Saved(stack, k) /\ k <= Len(stack') /\ Saved(stack', k) => CaptureAt(k)' = CaptureAt(k)

LEMMA KeepCapturesIf ==
  ASSUME job' = job,
         \A k \in 1..Len(stack) : \A x \in Slots(job) :
           Saved(stack, k) /\ k <= Len(stack') /\ Saved(stack', k) =>
             OldValue(stack', capture', k, x) = OldValue(stack, capture, k, x)
  PROVE  KeepCaptures
  BY CaptureAtIs DEF KeepCaptures

\* All saved states are at or below bp.
LEMMA SavedBelow ==
  ASSUME Inv, NEW k \in 1..Len(stack), Saved(stack, k)
  PROVE  k <= bp
  BY InvFacts DEF Linked, LastBelow

\* What SAVE_CAPTURE and SAVE_CAPTURE_CHECK leave: every slot that changes has an undo
\* entry above bp.
LEMMA StoreWrites ==
  ASSUME Inv, NEW saved \in Seq(SavedStates(job)), Len(saved) \in {0, 1}, Store(saved),
         job' = job
  PROVE  /\ \A i \in (Len(stack) + 1)..Len(stack') :
              ~Saved(stack', i) => stack'[i].val = capture[stack'[i].slot]
         /\ \A x \in Slots(job) : capture'[x] # capture[x] => Undone(stack', bp, x) # {}
  <1> DEFINE w == Out.writes
             undo == UndoInfo(w, Out.check)
             m == Len(stack)
             u == Len(undo)
  <1>1. undo \in Seq(UndoEntries(job)) /\ u \in Nat
    BY UndoInfoOK
  <1>2. w \in Seq(Writes(job)) /\ Len(w) \in Nat /\ DOMAIN w = 1..Len(w)
    BY OutOK DEF OutcomeOK
  <1>3. Out.check => Len(w) = 1
    BY OutOK DEF OutcomeOK
  <1>4. \A i \in 1..u : undo[i] = Undo(w[i].slot, capture[w[i].slot]) /\ i \in DOMAIN w
    <2> HIDE DEF w
    <2>1. CASE undo = <<>>
      BY <2>1
    <2>2. CASE undo = [i \in DOMAIN w |-> Undo(w[i].slot, capture[w[i].slot])]
      <3>1. DOMAIN undo = 1..u
        BY <1>1
      <3> QED
        BY <2>2, <3>1
    <2> QED
      BY <2>1, <2>2 DEF UndoInfo
  <1>5. m \in Nat /\ stack \in Seq(Entries(job)) /\ bp \in Nat /\ bp <= m
    BY InvFacts
  <1>6. stack' = (stack \o undo) \o saved
    BY DEF Store
  <1>7. /\ Len(stack') = m + u + Len(saved)
        /\ \A i \in 1..m : stack'[i] = stack[i]
        /\ \A i \in 1..u : stack'[m + i] = undo[i]
        /\ \A i \in 1..Len(saved) : stack'[m + u + i] = saved[i]
    <2> HIDE DEF undo
    <2> QED
      BY SMTT(30), <1>1, <1>5, <1>6
  <1>8. \A i \in 1..Len(saved) : Saved(stack', m + u + i)
    <2>1. \A i \in 1..Len(saved) : saved[i] \in SavedStates(job)
      BY ElementOfSeq
    <2> QED
      BY <1>7, <2>1 DEF Saved, SavedStates
  <1>9. \A i \in 1..u : /\ ~Saved(stack', m + i)
                        /\ stack'[m + i].slot = w[i].slot
                        /\ stack'[m + i].val = capture[w[i].slot]
    <2> HIDE DEF w, undo, u, m
    <2>1. \A i \in 1..u : stack'[m + i] = Undo(w[i].slot, capture[w[i].slot])
      BY <1>4, <1>7
    <2>2. \A x, v : /\ Undo(x, v).kind # "saved"
                   /\ Undo(x, v).slot = x
                   /\ Undo(x, v).val = v
      BY DEF Undo
    <2> QED
      BY <2>1, <2>2 DEF Saved
  <1>10. capture' = Stored(capture, w) /\ DOMAIN capture = Slots(job)
    BY DEF Store, Inv, TypeOK
  <1> HIDE DEF w, undo, m, u
  <1>11. ASSUME NEW i \in (m + 1)..Len(stack'), ~Saved(stack', i)
         PROVE  stack'[i].val = capture[stack'[i].slot]
    <2>1. i - m \in 1..u \/ i - m - u \in 1..Len(saved)
      <3>1. m \in Nat /\ u \in Nat /\ Len(saved) \in Nat /\ i \in (m + 1)..(m + u + Len(saved))
        BY <1>1, <1>5, <1>7
      <3> QED
        BY ONLY <3>1
    <2>2. m + (i - m) = i /\ m + u + (i - m - u) = i
      BY <1>1, <1>5
    <2>3. i - m - u \notin 1..Len(saved)
      BY <1>8, <1>11, <2>2
    <2> QED
      BY <1>9, <2>1, <2>2, <2>3
  <1>12. ASSUME NEW x \in Slots(job), capture'[x] # capture[x]
         PROVE  Undone(stack', bp, x) # {}
    <2>1. PICK n \in DOMAIN w : w[n].slot = x
      BY <1>10, <1>12 DEF Stored
    <2>2. CASE Out.check /\ SavedSinceBranch(w[1].slot)
      <3>1. n = 1
        <4>1. n \in 1..Len(w) /\ Len(w) = 1
          BY <1>2, <1>3, <2>1, <2>2 DEF w
        <4> QED
          BY <4>1
      <3>2. PICK i \in (bp + 1)..m : stack[i].slot = x
        BY <2>1, <2>2, <3>1 DEF SavedSinceBranch, m
      <3>3. ~Saved(stack, i)
        BY <1>5, <3>2, SavedBelow DEF m
      <3>4. i \in Undone(stack', bp, x)
        BY <1>1, <1>5, <1>7, <3>2, <3>3 DEF Undone, Saved
      <3> QED
        BY <3>4
    <2>3. CASE ~(Out.check /\ SavedSinceBranch(w[1].slot))
      <3>1. undo = [i \in DOMAIN w |-> Undo(w[i].slot, capture[w[i].slot])]
        BY <2>3 DEF UndoInfo, undo
      <3>2. n \in 1..u
        BY <1>1, <3>1 DEF u
      <3>3. m + n \in Undone(stack', bp, x)
        BY <1>1, <1>5, <1>7, <1>9, <2>1, <3>2 DEF Undone
      <3> QED
        BY <3>3
    <2> QED
      BY <2>2, <2>3
  <1> QED
    BY <1>11, <1>12 DEF m

\* After undo entries and at most one saved state were pushed, every saved state
\* stands for the captures it stood for, and so does what is pushed on top: it
\* stands for the array.
LEMMA StoreKeeps ==
  ASSUME Inv, NEW saved \in Seq(SavedStates(job)), Len(saved) \in {0, 1}, Store(saved),
         job' = job
  PROVE  KeepCaptures
  <1>1. /\ \A i \in (Len(stack) + 1)..Len(stack') :
             ~Saved(stack', i) => stack'[i].val = capture[stack'[i].slot]
        /\ \A x \in Slots(job) : capture'[x] # capture[x] => Undone(stack', bp, x) # {}
    BY StoreWrites
  <1>2. /\ Len(stack) \in Nat
        /\ Len(stack') \in Nat
        /\ Len(stack) <= Len(stack')
        /\ \A i \in 1..Len(stack) : stack'[i] = stack[i]
    <2>1. /\ Len(stack') \in Nat
          /\ Len(stack') >= Len(stack) + Len(saved)
          /\ \A i \in 1..Len(stack) : stack'[i] = stack[i]
      BY StoreOK
    <2>2. Len(stack) \in Nat
      BY InvFacts
    <2> QED
      BY <2>1, <2>2
  <1>3. ASSUME NEW k \in 1..Len(stack), NEW x \in Slots(job), Saved(stack, k)
        PROVE  OldValue(stack', capture', k, x) = OldValue(stack, capture, k, x)
    <2>1. k \in Nat /\ k <= Len(stack) /\ k <= bp /\ bp \in Nat
      BY <1>2, <1>3, SavedBelow, InvFacts
    <2>2. Undone(stack', bp, x) \subseteq Undone(stack', k, x)
      BY <1>2, <2>1 DEF Undone
    <2>3. capture'[x] # capture[x] => Undone(stack', k, x) # {}
      BY <1>1, <2>2
    <2>4. Pushed(stack, capture, stack', capture', k, x)
      BY <1>1, <1>2, <2>1, <2>3 DEF Pushed
    <2> QED
      BY <2>4, OldValueKept
  <1> QED
    BY <1>3, KeepCapturesIf

LEMMA StoreNoneKeeps ==
  ASSUME Inv, Store(<<>>), job' = job
  PROVE  KeepCaptures
  <1> DEFINE none == <<>>
  <1>1. none \in Seq(SavedStates(job)) /\ Len(none) \in {0, 1} /\ Store(none)
    OBVIOUS
  <1> HIDE DEF none
  <1> QED
    BY <1>1, StoreKeeps

\* The state that TakeBranch pushes.
LEMMA BranchFacts ==
  ASSUME Inv, TakeBranch
  PROVE  \E saved \in Seq(SavedStates(job)) :
           /\ saved = <<SavedState(Out.alt, Out.cptr, bp, Out.type)>>
           /\ Len(saved) = 1
           /\ Store(saved)
  <1> DEFINE st == SavedState(Out.alt, Out.cptr, bp, Out.type)
  <1>1. /\ Out.cptr \in Positions(job)
        /\ Out.alt \in DOMAIN job.prog
        /\ Out.type \in Types
    BY OutOK DEF TakeBranch, OutcomeOK, Instruction
  <1>2. st \in SavedStates(job)
    BY <1>1, InvFacts DEF SavedState, SavedStates
  <1>3. Store(<<st>>)
    BY DEF TakeBranch
  <1> HIDE DEF st
  <1>4. <<st>> \in Seq(SavedStates(job)) /\ Len(<<st>>) = 1
    BY <1>2
  <1> QED
    BY <1>3, <1>4 DEF st

\* Undoing the last modification is the reverse of storing it.
LEMMA UndoTopKeeps ==
  ASSUME Inv, UndoTop
  PROVE  KeepCaptures
  <1>1. /\ Len(stack) \in Nat \ {0}
        /\ bp < Len(stack)
        /\ bp \in Nat
        /\ stack \in Seq(Entries(job))
        /\ Linked(stack, bp)
    BY InvFacts DEF UndoTop
  <1>2. ~Saved(stack, Len(stack))
    BY <1>1 DEF Linked, LastBelow
  <1>3. Top.slot \in Slots(job) /\ Top = stack[Len(stack)]
    <2>1. stack[Len(stack)] \in Entries(job)
      BY <1>1, InvFacts
    <2> QED
      BY <1>2, <2>1, EntryFacts DEF Top, Saved
  <1>4. /\ Len(stack') = Len(stack) - 1
        /\ \A i \in 1..Len(stack') : stack'[i] = stack[i]
    BY <1>1, PoppedFacts DEF UndoTop, Popped
  <1>5. /\ job' = job
        /\ capture \in [Slots(job) -> Int]
        /\ capture' = [capture EXCEPT ![Top.slot] = Top.val]
    BY DEF UndoTop, Inv, TypeOK
  <1>6. \A i \in (Len(stack') + 1)..Len(stack) : stack[i].val = capture'[stack[i].slot]
    <2>1. \A i \in (Len(stack') + 1)..Len(stack) : i = Len(stack)
      BY <1>1, <1>4
    <2> QED
      BY <1>3, <1>5, <2>1
  <1>7. ASSUME NEW k \in 1..Len(stack), NEW x \in Slots(job), Saved(stack, k)
        PROVE  OldValue(stack', capture', k, x) = OldValue(stack, capture, k, x)
    <2>1. /\ k \in Nat /\ k <= Len(stack') /\ k <= bp
          /\ Len(stack') \in Nat /\ Len(stack') <= Len(stack)
      BY <1>1, <1>4, <1>7, SavedBelow
    <2>2. capture[x] # capture'[x] => Undone(stack, k, x) # {}
      <3> SUFFICES ASSUME capture[x] # capture'[x] PROVE Len(stack) \in Undone(stack, k, x)
        OBVIOUS
      <3>1. x = Top.slot
        BY <1>5
      <3> QED
        BY <1>1, <1>2, <1>3, <2>1, <3>1 DEF Undone
    <2>3. Pushed(stack', capture', stack, capture, k, x)
      BY <1>1, <1>4, <1>6, <2>1, <2>2 DEF Pushed
    <2>4. OldValue(stack, capture, k, x) = OldValue(stack', capture', k, x)
      BY <2>3, OldValueKept
    <2> QED
      BY <2>4
  <1> QED
    BY <1>5, <1>7, KeepCapturesIf

\* Taking out the last saved state leaves those below it as they are.
LEMMA DropKeeps ==
  ASSUME Inv, bp # 0,
         Len(stack') = Len(stack) - 1,
         \A i \in 1..(bp - 1) : stack'[i] = stack[i],
         \A i \in bp..Len(stack') : stack'[i] = stack[i + 1],
         UNCHANGED <<job, capture>>
  PROVE  /\ KeepCaptures
         /\ \A k \in 1..(bp - 1) : CaptureAt(k)' = CaptureAt(k)
  <1>1. /\ Len(stack) \in Nat
        /\ bp \in 1..Len(stack)
        /\ Saved(stack, bp)
    BY InvFacts, LastSavedFacts
  <1>2. ASSUME NEW k \in 1..(bp - 1), NEW x \in Slots(job)
        PROVE  OldValue(stack', capture', k, x) = OldValue(stack, capture, k, x)
    <2>1. k \in Nat /\ k < bp
      BY <1>1
    <2> DEFINE b == bp
               t == stack'
    <2>2. /\ Len(stack) \in Nat /\ Len(t) = Len(stack) - 1
          /\ b \in 1..Len(stack) /\ k \in Nat /\ k < b /\ Saved(stack, b)
          /\ \A i \in 1..(b - 1) : t[i] = stack[i]
          /\ \A i \in b..Len(t) : t[i] = stack[i + 1]
      BY <1>1, <2>1
    <2> HIDE DEF b, t
    <2>3. OldValue(t, capture, k, x) = OldValue(stack, capture, k, x)
      BY ONLY <2>2, OldValueTakenOut, SMTT(30)
    <2> QED
      BY <2>3 DEF t
  <1>3. \A k \in 1..(bp - 1) : CaptureAt(k)' = CaptureAt(k)
    BY <1>2, CaptureAtIs
  <1>4. ASSUME NEW k \in 1..Len(stack), Saved(stack, k),
               k <= Len(stack'), Saved(stack', k)
        PROVE  k \in 1..(bp - 1)
    <2>1. k <= bp
      BY <1>4, SavedBelow
    <2>2. k # bp
      <3> SUFFICES ASSUME k = bp PROVE FALSE
        OBVIOUS
      <3>1. stack'[bp] = stack[bp + 1] /\ bp + 1 \in 1..Len(stack)
        BY <1>1, <1>4
      <3>2. Saved(stack, bp + 1)
        BY <1>4, <3>1 DEF Saved
      <3>3. bp + 1 <= bp
        BY <3>1, <3>2, SavedBelow
      <3> QED
        BY <1>1, <3>3
    <2> QED
      BY <1>1, <2>1, <2>2
  <1> QED
    BY <1>3, <1>4 DEF KeepCaptures

\* no_match and negative_lookahead_match take out the top of the stack.
LEMMA ResumePops ==
  ASSUME Inv, Resume \/ PopNegative
  PROVE  /\ bp # 0 /\ Len(stack) = bp
         /\ Len(stack') = Len(stack) - 1
         /\ \A i \in 1..(bp - 1) : stack'[i] = stack[i]
         /\ \A i \in bp..Len(stack') : stack'[i] = stack[i + 1]
         /\ UNCHANGED <<job, capture>>
  <1>1. /\ bp # 0
        /\ Len(stack) = bp
        /\ stack' = SubSeq(stack, 1, Len(stack) - 1)
        /\ UNCHANGED <<job, capture>>
    BY DEF Resume, PopNegative, Popped
  <1>2. stack \in Seq(Entries(job)) /\ Len(stack) \in Nat
    BY InvFacts
  <1>3. /\ Len(stack') = Len(stack) - 1
        /\ \A i \in 1..Len(stack') : stack'[i] = stack[i]
    BY <1>1, <1>2, PoppedFacts
  <1> QED
    BY <1>1, <1>2, <1>3

\* lookahead_match takes out the last saved state, or empties the stack.
LEMMA LookaheadPops ==
  ASSUME Inv, PopLookahead
  PROVE  /\ bp # 0
         /\ UNCHANGED <<job, capture>>
         /\ \/ bp = 1 /\ stack' = <<>>
            \/ /\ Len(stack') = Len(stack) - 1
               /\ \A i \in 1..(bp - 1) : stack'[i] = stack[i]
               /\ \A i \in bp..Len(stack') : stack'[i] = stack[i + 1]
  <1>1. /\ bp # 0
        /\ stack' = TakenOut(bp, stack[bp].type)
        /\ UNCHANGED <<job, capture>>
    BY DEF PopLookahead
  <1>2. stack \in Seq(Entries(job)) /\ bp \in 1..Len(stack)
    BY <1>1, InvFacts, LastSavedFacts
  <1>3. CASE bp = 1 /\ stack[bp].type = "lookahead"
    BY <1>1, <1>3 DEF TakenOut
  <1>4. CASE ~(bp = 1 /\ stack[bp].type = "lookahead")
    <2>1. stack' = Without(stack, bp)
      BY <1>1, <1>4 DEF TakenOut, Without
    <2>2. /\ stack' \in Seq(Entries(job))
          /\ Len(stack') = Len(stack) - 1
          /\ \A i \in 1..(bp - 1) : stack'[i] = stack[i]
          /\ \A i \in bp..Len(stack') : stack'[i] = stack[i + 1]
      BY <1>2, <2>1, TakenOutFacts
    <2> QED
      BY <1>1, <2>2
  <1> QED
    BY <1>1, <1>3, <1>4

LEMMA PopLookaheadKeeps ==
  ASSUME Inv, PopLookahead
  PROVE  KeepCaptures
  <1>1. CASE stack' = <<>>
    BY <1>1 DEF KeepCaptures
  <1>2. CASE stack' # <<>>
    BY <1>2, LookaheadPops, DropKeeps
  <1> QED
    BY <1>1, <1>2

LEMMA SameKeeps ==
  ASSUME UNCHANGED <<job, capture, stack>>
  PROVE  KeepCaptures
  BY CaptureAtIs DEF KeepCaptures

LEMMA StepKeeps == Inv /\ [Next]_vars => KeepCaptures
  <1> SUFFICES ASSUME Inv, [Next]_vars PROVE KeepCaptures
    OBVIOUS
  <1>1. CASE Continue \/ Mismatch
    BY <1>1, StoreNoneKeeps DEF Continue, Mismatch
  <1>2. CASE TakeBranch
    <2>1. PICK saved \in Seq(SavedStates(job)) : Len(saved) = 1 /\ Store(saved)
      BY <1>2, BranchFacts
    <2> QED
      BY <1>2, <2>1, StoreKeeps DEF TakeBranch
  <1>3. CASE EndAssertion \/ EndMatch \/ OutOfMemory \/ Exhausted
    BY <1>3, SameKeeps DEF EndAssertion, EndMatch, OutOfMemory, Exhausted
  <1>4. CASE UndoTop
    BY <1>4, UndoTopKeeps
  <1>5. CASE Resume \/ PopNegative
    BY <1>5, ResumePops, DropKeeps
  <1>6. CASE PopLookahead
    BY <1>6, PopLookaheadKeeps
  <1>7. CASE Returned \/ UNCHANGED vars
    BY <1>7, SameKeeps DEF Returned, vars
  <1> QED
    BY <1>1, <1>2, <1>3, <1>4, <1>5, <1>6, <1>7 DEF Next

\* The top of a stack stands for the array.
LEMMA TopStandsForArray ==
  ASSUME NEW s, NEW J, NEW cap, cap \in [J -> Int], Len(s) \in Nat
  PROVE  [x \in J |-> OldValue(s, cap, Len(s), x)] = cap
  <1>1. \A x \in J : Undone(s, Len(s), x) = {}
    BY DEF Undone
  <1>2. \A x \in J : OldValue(s, cap, Len(s), x) = cap[x]
    BY <1>1 DEF OldValue
  <1> QED
    BY <1>2

\* Above the last saved state everything is undone when it is resumed.
LEMMA CaptureAtTop ==
  ASSUME Inv, Len(stack) = bp
  PROVE  CaptureAt(bp) = capture
  <1>1. capture \in [Slots(job) -> Int] /\ Len(stack) \in Nat
    BY InvFacts DEF Inv, TypeOK
  <1>2. CaptureAt(bp) = [x \in Slots(job) |-> OldValue(stack, capture, Len(stack), x)]
    BY CaptureAtIs
  <1> QED
    BY <1>1, <1>2, TopStandsForArray

\* Whatever capture[] went through meanwhile, the states that stay on the stack stand
\* for the captures they stood for, and the one that no_match resumes finds them in
\* capture[].
THEOREM CapturesAreRestored == Spec => RestoresCaptures
  <1>1. Inv /\ [Next]_vars =>
          [/\ \A k \in 1..Len(stack) :
                IsSaved(k) /\ k <= Len(stack') /\ IsSaved(k)' => CaptureAt(k)' = CaptureAt(k)
           /\ Resume => capture' = CaptureAt(bp)]_vars
    <2> SUFFICES ASSUME Inv, [Next]_vars
                 PROVE  /\ \A k \in 1..Len(stack) :
                             IsSaved(k) /\ k <= Len(stack') /\ IsSaved(k)' =>
                               CaptureAt(k)' = CaptureAt(k)
                        /\ Resume => capture' = CaptureAt(bp)
      OBVIOUS
    <2>1. KeepCaptures
      BY StepKeeps
    <2>2. ASSUME Resume PROVE capture' = CaptureAt(bp)
      BY <2>2, CaptureAtTop DEF Resume
    <2> QED
      BY <2>1, <2>2 DEF KeepCaptures, IsSaved, Saved
  <1> QED
    BY <1>1, Invariance, PTL DEF Spec, RestoresCaptures

--------------------------------------------------------------------------------
(***************************************************************************)
(* The elements of a finite set of naturals in their order.                *)
(***************************************************************************)
Rank(S, k) == Cardinality({i \in S : i <= k})

LEMMA RankFacts ==
  ASSUME NEW S \in SUBSET Nat, IsFiniteSet(S), NEW k \in S
  PROVE  Rank(S, k) \in 1..Cardinality(S)
  <1> DEFINE R == {i \in S : i <= k}
  <1>1. R \in SUBSET S /\ k \in R
    OBVIOUS
  <1>2. IsFiniteSet(R) /\ Cardinality(R) <= Cardinality(S)
    BY <1>1, FS_Subset
  <1>3. Cardinality(R) \in Nat /\ Cardinality(S) \in Nat
    BY <1>2, FS_CardinalityType
  <1>4. Cardinality(R) # 0
    BY <1>1, <1>2, FS_EmptySet
  <1> HIDE DEF R
  <1> QED
    BY <1>2, <1>3, <1>4 DEF Rank, R

LEMMA RankIncreases ==
  ASSUME NEW S \in SUBSET Nat, IsFiniteSet(S), NEW j \in S, NEW k \in S, j < k
  PROVE  Rank(S, j) < Rank(S, k)
  <1> DEFINE Q == {i \in S : i <= j}
             R == {i \in S : i <= k}
  <1>1. Q \in SUBSET S /\ R \in SUBSET S /\ k \notin Q /\ Q \cup {k} \in SUBSET R
    <2>1. j \in Nat /\ k \in Nat /\ ~(k <= j) /\ k <= k
      OBVIOUS
    <2>2. \A i \in Q : i \in S /\ i <= k
      OBVIOUS
    <2> QED
      BY <2>1, <2>2
  <1>2. IsFiniteSet(Q) /\ IsFiniteSet(R)
    BY <1>1, FS_Subset
  <1>3. Cardinality(Q \cup {k}) = Cardinality(Q) + 1
    BY <1>1, <1>2, FS_AddElement
  <1>4. Cardinality(Q \cup {k}) <= Cardinality(R)
    BY <1>1, <1>2, FS_Subset
  <1>5. Cardinality(Q) \in Nat /\ Cardinality(R) \in Nat
    BY <1>2, FS_CardinalityType
  <1> HIDE DEF Q, R
  <1> QED
    BY <1>3, <1>4, <1>5 DEF Rank, Q, R

LEMMA RankUnique ==
  ASSUME NEW S \in SUBSET Nat, IsFiniteSet(S), NEW j \in S, NEW k \in S,
         Rank(S, j) = Rank(S, k)
  PROVE  j = k
  <1>1. j \in Nat /\ k \in Nat
    OBVIOUS
  <1>2. Rank(S, j) \in Nat /\ Rank(S, k) \in Nat
    BY RankFacts
  <1>3. CASE j < k
    BY <1>2, <1>3, RankIncreases
  <1>4. CASE k < j
    BY <1>2, <1>4, RankIncreases
  <1> QED
    BY <1>1, <1>3, <1>4

\* Every rank is taken: with one left out, two elements would share one.
LEMMA NthIs ==
  ASSUME NEW S \in SUBSET Nat, IsFiniteSet(S), NEW n \in 1..Cardinality(S)
  PROVE  Nth(S, n) \in S /\ Rank(S, Nth(S, n)) = n
  <1>1. \E k \in S : Rank(S, k) = n
    <2> SUFFICES ASSUME \A k \in S : Rank(S, k) # n PROVE FALSE
      OBVIOUS
    <2> DEFINE N == 1..Cardinality(S)
               f == [k \in S |-> Rank(S, k)]
    <2>1. Cardinality(S) \in Nat
      BY FS_CardinalityType
    <2>2. IsFiniteSet(N) /\ Cardinality(N) = Cardinality(S)
      <3>1. /\ IsFiniteSet(N)
            /\ Cardinality(N) = IF 1 > Cardinality(S) THEN 0 ELSE Cardinality(S) - 1 + 1
        BY <2>1, FS_Interval
      <3>2. Cardinality(S) >= 1
        BY <2>1
      <3> HIDE DEF N
      <3> QED
        BY <2>1, <3>1, <3>2
    <2>3. IsFiniteSet(N \ {n}) /\ Cardinality(N \ {n}) = Cardinality(S) - 1
      <3> HIDE DEF N
      <3>1. n \in N
        BY DEF N
      <3> QED
        BY <2>2, <3>1, FS_RemoveElement
    <2>4. f \in [S -> N \ {n}]
      BY RankFacts
    <2>5. Cardinality(N \ {n}) < Cardinality(S)
      <3> HIDE DEF N
      <3> QED
        BY <2>1, <2>3
    <2>6. PICK x \in S, y \in S : x # y /\ f[x] = f[y]
      <3> HIDE DEF N, f
      <3> QED
        BY <2>3, <2>4, <2>5, FS_PigeonHole
    <2>7. Rank(S, x) = Rank(S, y)
      BY <2>6
    <2> QED
      BY <2>6, <2>7, RankUnique
  <1>2. Nth(S, n) = CHOOSE k \in S : Rank(S, k) = n
    BY DEF Nth, Rank
  <1> QED
    BY <1>1, <1>2

\* An element above all others is the last, and the others keep their places.
LEMMA NthExtended ==
  ASSUME NEW S \in SUBSET Nat, IsFiniteSet(S), NEW m \in Nat, \A i \in S : i < m,
         NEW T, T = S \cup {m}
  PROVE  /\ Cardinality(T) = Cardinality(S) + 1
         /\ \A n \in 1..Cardinality(S) : Nth(T, n) = Nth(S, n)
         /\ Nth(T, Cardinality(S) + 1) = m
  <1>1. m \notin S /\ T \in SUBSET Nat
    OBVIOUS
  <1>2. IsFiniteSet(T) /\ Cardinality(T) = Cardinality(S) + 1 /\ Cardinality(S) \in Nat
    BY <1>1, FS_AddElement, FS_CardinalityType
  <1>3. \A k \in S : Rank(T, k) = Rank(S, k)
    <2> SUFFICES ASSUME NEW k \in S PROVE {i \in T : i <= k} = {i \in S : i <= k}
      BY DEF Rank
    <2> QED
      OBVIOUS
  <1>4. Rank(T, m) = Cardinality(S) + 1
    <2>1. \A i \in T : i <= m
      OBVIOUS
    <2>2. {i \in T : i <= m} = T
      BY <2>1
    <2> QED
      BY <1>2, <2>2 DEF Rank
  <1>5. ASSUME NEW n \in 1..Cardinality(S)
        PROVE  Nth(T, n) = Nth(S, n)
    <2>1. Nth(S, n) \in S /\ Rank(S, Nth(S, n)) = n
      BY NthIs
    <2>2. n \in 1..Cardinality(T)
      BY <1>2
    <2>3. Nth(T, n) \in T /\ Rank(T, Nth(T, n)) = n
      BY <1>1, <1>2, <2>2, NthIs
    <2>4. Nth(S, n) \in T /\ Rank(T, Nth(S, n)) = Rank(T, Nth(T, n))
      BY <1>3, <2>1, <2>3
    <2> DEFINE a == Nth(S, n)
               b == Nth(T, n)
    <2>5. a \in T /\ b \in T /\ Rank(T, a) = Rank(T, b)
      BY <2>3, <2>4
    <2> HIDE DEF a, b
    <2>6. b = a
      BY <1>1, <1>2, <2>5, RankUnique
    <2> QED
      BY <2>6 DEF a, b
  <1>6. Nth(T, Cardinality(S) + 1) = m
    <2> DEFINE c == Cardinality(S) + 1
    <2>1. c \in 1..Cardinality(T)
      BY <1>2
    <2> HIDE DEF c
    <2>2. Nth(T, c) \in T /\ Rank(T, Nth(T, c)) = c
      BY <1>1, <1>2, <2>1, NthIs
    <2>3. m \in T /\ Rank(T, m) = c
      BY <1>4 DEF c
    <2> DEFINE a == Nth(T, c)
    <2>4. a \in T /\ Rank(T, a) = Rank(T, m)
      BY <2>2, <2>3
    <2> HIDE DEF a
    <2>5. a = m
      BY <1>1, <1>2, <2>3, <2>4, RankUnique
    <2> QED
      BY <2>5 DEF a, c
  <1> QED
    BY <1>2, <1>5, <1>6

--------------------------------------------------------------------------------
(***************************************************************************)
(* What w says of the elements of S, in their order.                       *)
(***************************************************************************)
InOrder(S, w) == [n \in 1..Cardinality(S) |-> w[Nth(S, n)]]

LEMMA InOrderIsSeq ==
  ASSUME NEW S \in SUBSET Nat, IsFiniteSet(S), NEW w, NEW W, \A k \in S : w[k] \in W
  PROVE  /\ InOrder(S, w) \in Seq(W)
         /\ Len(InOrder(S, w)) = Cardinality(S)
         /\ \A n \in 1..Cardinality(S) : InOrder(S, w)[n] = w[Nth(S, n)]
  <1> DEFINE c == Cardinality(S)
  <1>1. c \in Nat
    BY FS_CardinalityType
  <1>2. \A n \in 1..c : w[Nth(S, n)] \in W
    BY NthIs
  <1> HIDE DEF c
  <1>3. InOrder(S, w) = [n \in 1..c |-> w[Nth(S, n)]]
    BY DEF InOrder, c
  <1>4. InOrder(S, w) \in [1..c -> W]
    BY <1>2, <1>3
  <1>5. InOrder(S, w) \in Seq(W) /\ Len(InOrder(S, w)) = c
    BY <1>1, <1>4, SeqDef
  <1> QED
    BY <1>3, <1>5 DEF c

LEMMA InOrderSame ==
  ASSUME NEW S \in SUBSET Nat, IsFiniteSet(S), NEW w, NEW v, \A k \in S : v[k] = w[k]
  PROVE  InOrder(S, v) = InOrder(S, w)
  <1>1. \A n \in 1..Cardinality(S) : v[Nth(S, n)] = w[Nth(S, n)]
    BY NthIs
  <1> QED
    BY <1>1 DEF InOrder

\* T is S and one element m above it, of which v says something that w does not.
Extended(S, w, T, v, m) ==
  /\ S \in SUBSET Nat /\ IsFiniteSet(S)
  /\ m \in Nat /\ \A i \in S : i < m
  /\ T = S \cup {m}
  /\ \A k \in S : v[k] = w[k]

LEMMA InOrderExtended ==
  ASSUME NEW S, NEW w, NEW T, NEW v, NEW m, Extended(S, w, T, v, m)
  PROVE  InOrder(T, v) = Append(InOrder(S, w), v[m])
  <1> USE DEF Extended
  <1> DEFINE W == {v[k] : k \in T}
             p == InOrder(S, w)
             q == InOrder(T, v)
             c == Cardinality(S)
  <1>1. T \in SUBSET Nat /\ IsFiniteSet(T) /\ c \in Nat
    BY FS_AddElement, FS_CardinalityType
  <1>2. /\ p \in Seq(W)
        /\ Len(p) = c
        /\ \A n \in 1..c : p[n] = w[Nth(S, n)]
    <2>1. \A k \in S : w[k] \in W
      OBVIOUS
    <2> HIDE DEF W
    <2> QED
      BY <2>1, InOrderIsSeq
  <1>3. /\ q \in Seq(W)
        /\ Len(q) = Cardinality(T)
        /\ \A n \in 1..Cardinality(T) : q[n] = v[Nth(T, n)]
    <2>1. \A k \in T : v[k] \in W
      OBVIOUS
    <2> HIDE DEF W
    <2> QED
      BY <1>1, <2>1, InOrderIsSeq
  <1>4. /\ Cardinality(T) = c + 1
        /\ \A n \in 1..c : Nth(T, n) = Nth(S, n)
        /\ Nth(T, c + 1) = m
    BY NthExtended
  <1>5. \A n \in 1..c : Nth(S, n) \in S
    BY NthIs
  <1>6. v[m] \in W
    OBVIOUS
  <1> HIDE DEF W, p, q, c
  <1>7. /\ Append(p, v[m]) \in Seq(W)
        /\ Len(Append(p, v[m])) = c + 1
        /\ \A n \in 1..c : Append(p, v[m])[n] = p[n]
        /\ Append(p, v[m])[c + 1] = v[m]
    BY <1>1, <1>2, <1>6
  <1>8. \A n \in 1..(c + 1) : q[n] = Append(p, v[m])[n]
    <2>1. \A n \in 1..c : q[n] = Append(p, v[m])[n]
      <3> TAKE n \in 1..c
      <3>1. n \in 1..Cardinality(T)
        BY <1>1, <1>4
      <3>2. q[n] = v[Nth(S, n)] /\ Nth(S, n) \in S
        BY <1>3, <1>4, <1>5, <3>1
      <3> QED
        BY <1>2, <1>7, <3>2
    <2>2. q[c + 1] = v[m]
      <3>1. c + 1 \in 1..Cardinality(T)
        BY <1>1, <1>4
      <3> QED
        BY <1>3, <1>4, <3>1
    <2>3. \A n \in 1..(c + 1) : n \in 1..c \/ n = c + 1
      BY <1>1
    <2> QED
      BY <1>7, <2>1, <2>2, <2>3
  <1>9. q = Append(p, v[m])
    BY <1>3, <1>4, <1>7, <1>8, SeqEqual
  <1> QED
    BY <1>9 DEF p, q

--------------------------------------------------------------------------------
(***************************************************************************)
(* The ways of the search are the saved states in their order.             *)
(***************************************************************************)
LEMMA SavedAtNat ==
  ASSUME NEW s, Len(s) \in Nat
  PROVE  SavedAt(s) \in SUBSET Nat /\ IsFiniteSet(SavedAt(s))
  BY SavedAtFinite DEF SavedAt

WayOf == [k \in SavedAt(stack) |-> WayAt(k)]

LEMMA WaysInOrder == Len(stack) \in Nat => Ways = InOrder(SavedAt(stack), WayOf)
  <1> SUFFICES ASSUME Len(stack) \in Nat
               PROVE  Ways = InOrder(SavedAt(stack), WayOf)
    OBVIOUS
  <1> DEFINE S == SavedAt(stack)
  <1>1. SavedIndices = S
    BY DEF SavedIndices, SavedAt, IsSaved, Saved
  <1>2. \A n \in 1..Cardinality(S) : WayOf[Nth(S, n)] = WayAt(Nth(S, n))
    <2>1. \A n \in 1..Cardinality(S) : Nth(S, n) \in S
      <3> HIDE DEF S
      <3>1. S \in SUBSET Nat /\ IsFiniteSet(S)
        BY SavedAtNat DEF S
      <3> QED
        BY <3>1, NthIs
    <2> QED
      BY <2>1 DEF WayOf
  <1> QED
    BY <1>1, <1>2 DEF Ways, InOrder

LEMMA WaysInOrderNext == Len(stack') \in Nat => Ways' = InOrder(SavedAt(stack'), WayOf')
  <1>1. (Len(stack) \in Nat => Ways = InOrder(SavedAt(stack), WayOf))'
    BY WaysInOrder, PTL
  <1> QED
    BY <1>1

\* No way is added or taken.
LEMMA WaysSame ==
  ASSUME Len(stack) \in Nat, Len(stack') \in Nat, SavedAt(stack') = SavedAt(stack),
         \A k \in SavedAt(stack) : WayAt(k)' = WayAt(k)
  PROVE  Ways' = Ways
  <1> DEFINE S == SavedAt(stack)
             w == WayOf
             v == WayOf'
  <1>1. S \in SUBSET Nat /\ IsFiniteSet(S) /\ \A k \in S : v[k] = w[k]
    BY SavedAtNat DEF WayOf
  <1>2. Ways = InOrder(S, w) /\ Ways' = InOrder(S, v)
    BY WaysInOrder, WaysInOrderNext
  <1> HIDE DEF S, w, v
  <1> QED
    BY <1>1, <1>2, InOrderSame

\* A way is added behind the others.
LEMMA WaysPushed ==
  ASSUME Len(stack) \in Nat, Len(stack') \in Nat,
         NEW m \in Nat, SavedAt(stack') = SavedAt(stack) \cup {m},
         \A k \in SavedAt(stack) : k < m /\ WayAt(k)' = WayAt(k)
  PROVE  Ways' = Append(Ways, WayAt(m)')
  <1> DEFINE S == SavedAt(stack)
             T == SavedAt(stack')
             w == WayOf
             v == WayOf'
  <1>1. /\ S \in SUBSET Nat /\ IsFiniteSet(S)
        /\ T = S \cup {m}
        /\ \A k \in S : v[k] = w[k]
        /\ \A i \in S : i < m
    BY SavedAtNat DEF WayOf
  <1>2. Ways = InOrder(S, w) /\ Ways' = InOrder(T, v)
    BY WaysInOrder, WaysInOrderNext
  <1>3. v[m] = WayAt(m)'
    BY DEF WayOf
  <1> HIDE DEF S, T, w, v
  <1>4. InOrder(T, v) = Append(InOrder(S, w), v[m])
    <2>1. Extended(S, w, T, v, m)
      BY <1>1 DEF Extended
    <2> QED
      BY <2>1, InOrderExtended
  <1> QED
    BY <1>2, <1>3, <1>4

LEMMA LastAppended ==
  ASSUME NEW S, NEW s \in Seq(S), NEW e \in S, NEW t, t = Append(s, e)
  PROVE  /\ t # <<>>
         /\ t[Len(t)] = e
         /\ SubSeq(t, 1, Len(t) - 1) = s
  <1>1. /\ t \in Seq(S) /\ Len(s) \in Nat /\ Len(t) = Len(s) + 1
        /\ \A i \in 1..Len(s) : t[i] = s[i]
        /\ t[Len(t)] = e
    OBVIOUS
  <1>2. t # <<>>
    BY <1>1
  <1> DEFINE p == SubSeq(t, 1, Len(t) - 1)
  <1>3. p \in Seq(S) /\ Len(p) = Len(t) - 1 /\ \A i \in 1..Len(p) : p[i] = t[i]
    <2>1. Len(t) # 0
      BY <1>1
    <2> QED
      BY <1>1, <2>1, PoppedFacts
  <1> HIDE DEF p
  <1>4. Len(p) = Len(s) /\ \A i \in 1..Len(p) : p[i] = s[i]
    BY <1>1, <1>3
  <1>5. p = s
    BY <1>3, <1>4, SeqEqual
  <1> QED
    BY <1>1, <1>2, <1>5 DEF p

\* The last way is taken.
LEMMA WaysDropped ==
  ASSUME Len(stack) \in Nat, Len(stack') \in Nat,
         NEW b \in Nat, SavedAt(stack) = SavedAt(stack') \cup {b},
         \A k \in SavedAt(stack') : k < b /\ WayAt(k)' = WayAt(k)
  PROVE  /\ Ways # <<>>
         /\ Ways[Len(Ways)] = WayAt(b)
         /\ SubSeq(Ways, 1, Len(Ways) - 1) = Ways'
  <1> DEFINE S == SavedAt(stack')
             T == SavedAt(stack)
             w == WayOf'
             v == WayOf
             W == {v[k] : k \in T}
  <1>1. /\ S \in SUBSET Nat /\ IsFiniteSet(S)
        /\ T = S \cup {b}
        /\ \A k \in S : v[k] = w[k]
        /\ \A i \in S : i < b
    BY SavedAtNat DEF WayOf
  <1>2. Ways = InOrder(T, v) /\ Ways' = InOrder(S, w)
    BY WaysInOrder, WaysInOrderNext
  <1>3. v[b] = WayAt(b)
    BY DEF WayOf
  <1> HIDE DEF S, T, w, v
  <1>4. InOrder(T, v) = Append(InOrder(S, w), v[b])
    <2>1. Extended(S, w, T, v, b)
      BY <1>1 DEF Extended
    <2> QED
      BY <2>1, InOrderExtended
  <1>5. (\A k \in S : w[k] \in W) /\ v[b] \in W
    <2>1. \A k \in T : v[k] \in W
      OBVIOUS
    <2> QED
      BY <1>1, <2>1
  <1> HIDE DEF W
  <1>6. InOrder(S, w) \in Seq(W)
    BY <1>1, <1>5, InOrderIsSeq
  <1> QED
    BY <1>2, <1>3, <1>4, <1>5, <1>6, LastAppended

\* A saved state that stays where it is stays the same way.
LEMMA WayKept ==
  ASSUME KeepCaptures, NEW k \in SavedAt(stack), k \in SavedAt(stack'), stack'[k] = stack[k]
  PROVE  WayAt(k)' = WayAt(k)
  <1>1. /\ k \in 1..Len(stack) /\ Saved(stack, k)
        /\ k \in 1..Len(stack') /\ Saved(stack', k)
    BY DEF SavedAt
  <1>2. CaptureAt(k)' = CaptureAt(k)
    <2>1. k <= Len(stack')
      BY <1>1
    <2> QED
      BY <1>1, <2>1 DEF KeepCaptures
  <1> QED
    BY <1>2 DEF WayAt

--------------------------------------------------------------------------------
(***************************************************************************)
(* What the steps do to the ways.                                          *)
(***************************************************************************)
\* All saved states are below the top of the stack, bp is the last of them.
LEMMA SavedAtFacts ==
  ASSUME Inv
  PROVE  /\ \A k \in SavedAt(stack) : k \in 1..Len(stack) /\ k <= bp
         /\ bp # 0 => bp \in SavedAt(stack)
         /\ bp = 0 => SavedAt(stack) = {}
  <1>1. \A k \in SavedAt(stack) : k \in 1..Len(stack) /\ k <= bp
    BY SavedBelow DEF SavedAt
  <1>2. bp # 0 => bp \in SavedAt(stack)
    BY LastSavedFacts DEF SavedAt
  <1>3. bp = 0 => SavedAt(stack) = {}
    <2>1. \A k \in SavedAt(stack) : k >= 1 /\ k <= bp /\ k \in Nat
      BY <1>1
    <2> QED
      BY <2>1
  <1> QED
    BY <1>1, <1>2, <1>3

LEMMA StoreNoneWays ==
  ASSUME Inv, Store(<<>>), job' = job
  PROVE  Ways' = Ways
  <1> DEFINE none == <<>>
  <1>1. none \in Seq(SavedStates(job)) /\ Len(none) = 0 /\ Len(none) \in {0, 1} /\ Store(none)
    OBVIOUS
  <1> HIDE DEF none
  <1>2. /\ Len(stack') \in Nat
        /\ Len(stack') >= Len(stack) + Len(none)
        /\ \A i \in 1..Len(stack) : stack'[i] = stack[i]
        /\ \A i \in (Len(stack) + 1)..(Len(stack') - Len(none)) : ~Saved(stack', i)
    BY <1>1, StoreOK
  <1>3. Len(stack) \in Nat
    BY InvFacts
  <1>4. SavedAt(stack') = SavedAt(stack)
    <2>1. \A k : k \in SavedAt(stack') <=> k \in SavedAt(stack)
      BY <1>1, <1>2, <1>3 DEF SavedAt, Saved
    <2> QED
      BY <2>1
  <1>5. KeepCaptures
    BY StoreNoneKeeps
  <1>6. \A k \in SavedAt(stack) : WayAt(k)' = WayAt(k)
    <2>1. \A k \in SavedAt(stack) : stack'[k] = stack[k]
      BY <1>2 DEF SavedAt
    <2> QED
      BY <1>4, <1>5, <2>1, WayKept
  <1> QED
    BY <1>2, <1>3, <1>4, <1>6, WaysSame

LEMMA TakeBranchWays ==
  ASSUME Inv, Inv', TakeBranch
  PROVE  Ways' = Append(Ways, [pc |-> Out.alt, cptr |-> Out.cptr, capture |-> capture',
                               type |-> Out.type])
  <1>1. PICK saved \in Seq(SavedStates(job)) :
          /\ saved = <<SavedState(Out.alt, Out.cptr, bp, Out.type)>>
          /\ Len(saved) = 1
          /\ Store(saved)
    BY BranchFacts
  <1>2. saved[1] = SavedState(Out.alt, Out.cptr, bp, Out.type)
    BY <1>1
  <1>3. PICK m : m = Len(stack')
    OBVIOUS
  <1>4. /\ Len(stack') \in Nat
        /\ Len(stack') >= Len(stack) + Len(saved)
        /\ \A i \in 1..Len(stack) : stack'[i] = stack[i]
        /\ \A i \in (Len(stack) + 1)..(Len(stack') - Len(saved)) : ~Saved(stack', i)
        /\ Saved(stack', Len(stack')) /\ stack'[Len(stack')] = saved[1]
    BY <1>1, StoreOK
  <1>5. Len(stack) \in Nat
    BY InvFacts
  <1>6. m \in Nat /\ SavedAt(stack') = SavedAt(stack) \cup {m}
    <2>1. m \in Nat /\ m >= Len(stack) + 1 /\ m = Len(stack')
          /\ \A i \in (Len(stack) + 1)..(m - 1) : ~Saved(stack', i)
      BY <1>1, <1>3, <1>4
    <2>2. \A k \in SavedAt(stack) : k \in SavedAt(stack')
      BY <1>4, <1>5, <2>1 DEF SavedAt, Saved
    <2>3. m \in SavedAt(stack')
      BY <1>4, <1>5, <2>1 DEF SavedAt
    <2>4. ASSUME NEW k \in SavedAt(stack'), k # m
          PROVE  k \in SavedAt(stack)
      <3>1. k \in 1..Len(stack) \/ k \in (Len(stack) + 1)..(m - 1)
        BY <1>5, <2>1, <2>4 DEF SavedAt
      <3> QED
        BY <1>4, <2>1, <2>4, <3>1 DEF SavedAt, Saved
    <2> QED
      BY <2>1, <2>2, <2>3, <2>4
  <1>7. KeepCaptures
    <2>1. Len(saved) \in {0, 1} /\ job' = job
      BY <1>1 DEF TakeBranch
    <2> QED
      BY <1>1, <2>1, StoreKeeps
  <1>8. \A k \in SavedAt(stack) : k < m /\ WayAt(k)' = WayAt(k)
    <2>1. \A k \in SavedAt(stack) : k < m /\ k \in SavedAt(stack') /\ stack'[k] = stack[k]
      BY <1>1, <1>3, <1>4, <1>5, <1>6 DEF SavedAt
    <2> QED
      BY <1>7, <2>1, WayKept
  <1>9. Ways' = Append(Ways, WayAt(m)')
    BY <1>4, <1>5, <1>6, <1>8, WaysPushed
  <1>10. CaptureAt(m)' = capture'
    <2>1. capture' \in [Slots(job') -> Int]
      BY DEF Inv, TypeOK
    <2>2. CaptureAt(m)' = [x \in Slots(job') |-> OldValue(stack', capture', m, x)]
      BY CaptureAtIs
    <2> QED
      BY <1>3, <1>4, <2>1, <2>2, TopStandsForArray
  <1>11. WayAt(m)' = [pc |-> Out.alt, cptr |-> Out.cptr, capture |-> capture',
                      type |-> Out.type]
    <2>1. stack'[m] = SavedState(Out.alt, Out.cptr, bp, Out.type)
      BY <1>2, <1>3, <1>4
    <2>2. stack'[m].pc = Out.alt /\ stack'[m].cptr = Out.cptr /\ stack'[m].type = Out.type
      BY <2>1 DEF SavedState
    <2>3. WayAt(m)' = [pc |-> stack'[m].pc, cptr |-> stack'[m].cptr,
                       capture |-> CaptureAt(m)', type |-> stack'[m].type]
      BY DEF WayAt
    <2> QED
      BY <1>10, <2>2, <2>3
  <1> QED
    BY <1>9, <1>11

LEMMA UndoTopWays ==
  ASSUME Inv, UndoTop
  PROVE  Ways' = Ways
  <1>1. /\ Len(stack) \in Nat \ {0}
        /\ bp < Len(stack)
        /\ bp \in Nat
        /\ stack \in Seq(Entries(job))
    BY InvFacts DEF UndoTop
  <1>2. /\ Len(stack') = Len(stack) - 1
        /\ \A i \in 1..Len(stack') : stack'[i] = stack[i]
    BY <1>1, PoppedFacts DEF UndoTop, Popped
  <1>3. Len(stack') \in Nat
    BY <1>1, <1>2
  <1>4. SavedAt(stack') = SavedAt(stack)
    <2>1. \A k \in SavedAt(stack) : k \in 1..Len(stack')
      BY <1>1, <1>2, SavedAtFacts
    <2>2. \A k : k \in SavedAt(stack') <=> k \in SavedAt(stack)
      BY <1>1, <1>2, <2>1 DEF SavedAt, Saved
    <2> QED
      BY <2>2
  <1>5. KeepCaptures
    BY UndoTopKeeps
  <1>6. \A k \in SavedAt(stack) : WayAt(k)' = WayAt(k)
    <2>1. \A k \in SavedAt(stack) : k \in SavedAt(stack') /\ stack'[k] = stack[k]
      BY <1>2, <1>4 DEF SavedAt
    <2> QED
      BY <1>5, <2>1, WayKept
  <1> QED
    BY <1>1, <1>3, <1>4, <1>6, WaysSame

\* The last saved state is taken out: the last way is taken.
LEMMA DropWays ==
  ASSUME Inv, KeepCaptures, NEW b, b = bp, bp # 0, Len(stack') \in Nat,
         SavedAt(stack') = SavedAt(stack) \ {bp},
         \A k \in SavedAt(stack') : stack'[k] = stack[k]
  PROVE  /\ Ways # <<>>
         /\ Ways[Len(Ways)] = WayAt(b)
         /\ SubSeq(Ways, 1, Len(Ways) - 1) = Ways'
  <1>1. Len(stack) \in Nat /\ b \in Nat
    BY InvFacts
  <1>2. SavedAt(stack) = SavedAt(stack') \cup {b}
    BY SavedAtFacts
  <1>3. \A k \in SavedAt(stack') : k < b /\ WayAt(k)' = WayAt(k)
    <2>1. \A k \in SavedAt(stack') : k \in SavedAt(stack) /\ k # b /\ k \in Nat /\ k <= b
      BY SavedAtFacts
    <2>2. \A k \in SavedAt(stack') : k < b
      BY <1>1, <2>1
    <2> QED
      BY <2>1, <2>2, WayKept
  <1> QED
    BY <1>1, <1>2, <1>3, WaysDropped

\* The saved states that stay when the entry at bp is taken out.
LEMMA TakenOutSaved ==
  ASSUME Inv, bp # 0,
         Len(stack') = Len(stack) - 1,
         \A i \in 1..(bp - 1) : stack'[i] = stack[i],
         \A i \in bp..Len(stack') : stack'[i] = stack[i + 1]
  PROVE  /\ Len(stack') \in Nat
         /\ SavedAt(stack') = SavedAt(stack) \ {bp}
         /\ \A k \in SavedAt(stack') : stack'[k] = stack[k]
  <1>1. Len(stack) \in Nat /\ bp \in 1..Len(stack)
    BY InvFacts, LastSavedFacts
  <1>2. \A i \in bp..Len(stack') : ~Saved(stack', i)
    <2> SUFFICES ASSUME NEW i \in bp..Len(stack'), Saved(stack', i) PROVE FALSE
      OBVIOUS
    <2>1. i + 1 \in 1..Len(stack) /\ i >= bp /\ i \in Nat
      BY <1>1
    <2>2. Saved(stack, i + 1)
      BY DEF Saved
    <2>3. i + 1 <= bp
      BY <2>1, <2>2, SavedBelow
    <2> QED
      BY <1>1, <2>1, <2>3
  <1>3. \A k \in SavedAt(stack') : k \in 1..(bp - 1)
    BY <1>1, <1>2 DEF SavedAt
  <1>4. \A k \in SavedAt(stack) : k # bp => k \in 1..(bp - 1)
    BY <1>1, SavedAtFacts
  <1>5. \A k \in 1..(bp - 1) : k \in SavedAt(stack') <=> k \in SavedAt(stack)
    BY <1>1 DEF SavedAt, Saved
  <1>6. \A k : k \in SavedAt(stack') <=> k \in SavedAt(stack) \ {bp}
    BY <1>1, <1>3, <1>4, <1>5
  <1> QED
    BY <1>1, <1>3, <1>6

LEMMA ResumeWays ==
  ASSUME Inv, Resume \/ PopNegative, NEW b, b = bp
  PROVE  /\ Ways # <<>>
         /\ Ways[Len(Ways)] = WayAt(b)
         /\ SubSeq(Ways, 1, Len(Ways) - 1) = Ways'
  BY ResumePops, DropKeeps, TakenOutSaved, DropWays

LEMMA LookaheadWays ==
  ASSUME Inv, PopLookahead, NEW b, b = bp
  PROVE  /\ Ways # <<>>
         /\ Ways[Len(Ways)] = WayAt(b)
         /\ SubSeq(Ways, 1, Len(Ways) - 1) = Ways'
  <1>1. KeepCaptures /\ bp # 0
    BY PopLookaheadKeeps, LookaheadPops
  <1>2. CASE bp = 1 /\ stack' = <<>>
    <2>1. Len(stack') = 0 /\ SavedAt(stack') = {}
      BY <1>2 DEF SavedAt
    <2>2. SavedAt(stack) = {bp}
      <3>1. bp \in SavedAt(stack) /\ \A k \in SavedAt(stack) : k \in Nat /\ k >= 1 /\ k <= 1
        BY <1>1, <1>2, SavedAtFacts
      <3>2. \A k \in SavedAt(stack) : k = bp
        BY <1>2, <3>1
      <3> QED
        BY <3>1, <3>2
    <2> QED
      BY <1>1, <2>1, <2>2, DropWays
  <1>3. CASE ~(bp = 1 /\ stack' = <<>>)
    BY <1>1, <1>3, LookaheadPops, TakenOutSaved, DropWays
  <1> QED
    BY <1>2, <1>3

--------------------------------------------------------------------------------
(***************************************************************************)
(* The interpreter implements the search: every step is a step of the      *)
(* search, and what undoes a modification is none.                         *)
(***************************************************************************)
\* The search reads its instructions in its own copy of ReOpcodes.
LEMMA SameEffect ==
  ASSUME NEW j, NEW p, NEW c, NEW cap
  PROVE  Search!Effect(j, p, c, cap) = Effect(j, p, c, cap)
  BY SMTT(30) DEF Effect, Outcome, GoOn, ReadChar, AtLineStart, AtLineEnd,
         AtWordBoundary, SplitHere, StartAssertion, Save, ResetGroups,
         SetRegister, CountDown, CountDownAndSplit, HasAdvanced, MatchAgain,
         StepBack, CharAt, After, NoMatch, GoOnIf, Accepts, CharBefore,
         IsLineTerminator, IsWordChar, Branch, Storing, Write, NULL, StartSlot,
         EndSlot, Register, Positions, MatchForward, MatchBackward, GroupIsSet,
         Before, FromSurrogate, PairAt, IsSpace, Canonicalize, PairBefore,
         IsWordByte, SameChar, IsHi, IsLo, Search!Effect, Search!Outcome,
         Search!GoOn, Search!ReadChar, Search!AtLineStart, Search!AtLineEnd,
         Search!AtWordBoundary, Search!SplitHere, Search!StartAssertion,
         Search!Save, Search!ResetGroups, Search!SetRegister, Search!CountDown,
         Search!CountDownAndSplit, Search!HasAdvanced, Search!MatchAgain,
         Search!StepBack, Search!CharAt, Search!After, Search!NoMatch,
         Search!GoOnIf, Search!Accepts, Search!CharBefore,
         Search!IsLineTerminator, Search!IsWordChar, Search!Branch,
         Search!Storing, Search!Write, Search!NULL, Search!StartSlot,
         Search!EndSlot, Search!Register, Search!Positions, Search!MatchForward,
         Search!MatchBackward, Search!GroupIsSet, Search!Before,
         Search!FromSurrogate, Search!PairAt, Search!IsSpace,
         Search!Canonicalize, Search!PairBefore, Search!IsWordByte,
         Search!SameChar, Search!IsHi, Search!IsLo

LEMMA SameNowhere ==
  ASSUME NEW j
  PROVE  Search!NowhereOf(j) = NowhereOf(j) /\ Search!NoCaptures(j) = NoCaptures(j)
  BY DEF NowhereOf, NoCaptures, NULL, Junk, GroupSlots, Slots, Search!NowhereOf,
         Search!NoCaptures, Search!NULL, Search!Junk, Search!GroupSlots,
         Search!Slots

LEMMA SameStart ==
  ASSUME NEW j
  PROVE  Search!StartPosition(j) = StartPosition(j)
  BY DEF StartPosition, PairAt, IsHi, IsLo, Search!StartPosition, Search!PairAt,
         Search!IsHi, Search!IsLo

\* While the interpreter runs, the search is where the interpreter is.
LEMMA HereRunning ==
  ASSUME mode = "run"
  PROVE  /\ Here = [pc |-> pc, cptr |-> cptr, capture |-> capture]
         /\ Here.pc = pc /\ Here.cptr = cptr /\ Here.capture = capture
         /\ Search!Out = Out
         /\ Search!CaptureAfter = Stored(capture, Out.writes)
  <1>1. /\ Here = [pc |-> pc, cptr |-> cptr, capture |-> capture]
        /\ Here.pc = pc /\ Here.cptr = cptr /\ Here.capture = capture
    BY DEF Here
  <1>2. Search!Out = Out
    BY <1>1, SameEffect DEF Search!Out, Out
  <1> QED
    BY <1>1, <1>2 DEF Search!CaptureAfter, Stored

LEMMA SearchInit == Init => Search!Init
  <1> SUFFICES ASSUME Init PROVE Search!Init
    OBVIOUS
  <1>1. Here = [pc |-> 1, cptr |-> StartPosition(job), capture |-> NoCaptures(job)]
    BY DEF Init, Here
  <1>2. Ways = <<>>
    <2>1. SavedIndices = {}
      BY DEF Init, SavedIndices
    <2>2. Cardinality(SavedIndices) = 0
      BY <2>1, FS_EmptySet
    <2>3. Ways = [n \in 1..0 |-> WayAt(Nth(SavedIndices, n))]
      BY <2>2 DEF Ways
    <2> QED
      BY <2>3
  <1> QED
    BY <1>1, <1>2, SameNowhere, SameStart DEF Init, Search!Init

LEMMA ContinueSearches == Inv /\ Continue => Search!Follow
  <1> SUFFICES ASSUME Inv, Continue PROVE Search!Follow
    OBVIOUS
  <1>1. /\ mode = "run" /\ mode' = "run" /\ job' = job
        /\ Out.to = "run"
        /\ Store(<<>>)
        /\ pc' = Out.pc /\ cptr' = Out.cptr
    BY DEF Continue
  <1>2. capture' = Stored(capture, Out.writes)
    BY <1>1 DEF Store
  <1>3. Here' = [pc |-> pc', cptr |-> cptr', capture |-> capture']
    BY <1>1 DEF Here
  <1>4. Ways' = Ways
    BY <1>1, StoreNoneWays
  <1>5. Search!Out = Out /\ Search!CaptureAfter = capture'
    BY <1>1, <1>2, HereRunning
  <1> QED
    BY <1>1, <1>3, <1>4, <1>5 DEF Search!Follow, Search!At

LEMMA TakeBranchSearches == Inv /\ Inv' /\ TakeBranch => Search!Follow
  <1> SUFFICES ASSUME Inv, Inv', TakeBranch PROVE Search!Follow
    OBVIOUS
  <1>1. /\ mode = "run" /\ mode' = "run" /\ job' = job
        /\ Out.to = "branch"
        /\ pc' = Out.pc /\ cptr' = Out.cptr
        /\ capture' = Stored(capture, Out.writes)
    BY DEF TakeBranch, Store
  <1>2. Here' = [pc |-> pc', cptr |-> cptr', capture |-> capture']
    BY <1>1 DEF Here
  <1>3. Ways' = Append(Ways, [pc |-> Out.alt, cptr |-> Out.cptr, capture |-> capture',
                              type |-> Out.type])
    BY TakeBranchWays
  <1>4. Search!Out = Out /\ Search!CaptureAfter = capture'
    BY <1>1, HereRunning
  <1> QED
    BY <1>1, <1>2, <1>3, <1>4 DEF Search!Follow, Search!At, Search!Way

LEMMA MismatchSearches == Inv /\ Mismatch => Search!GiveUp
  <1> SUFFICES ASSUME Inv, Mismatch PROVE Search!GiveUp
    OBVIOUS
  <1>1. /\ mode = "run" /\ mode' = "no_match" /\ job' = job
        /\ Out.to = "no_match"
        /\ Store(<<>>)
    BY DEF Mismatch
  <1>2. Here' = NowhereOf(job)
    BY <1>1 DEF Here
  <1>3. Ways' = Ways
    BY <1>1, StoreNoneWays
  <1>4. Search!Out = Out
    BY <1>1, HereRunning
  <1> QED
    BY <1>1, <1>2, <1>3, <1>4, SameNowhere DEF Search!GiveUp

\* Nothing but what the interpreter is doing changes.
LEMMA WaysUnchanged ==
  ASSUME UNCHANGED <<job, capture, stack>>
  PROVE  Ways' = Ways
  BY DEF Ways, SavedIndices, IsSaved, WayAt, CaptureAt, UndoneAbove

LEMMA StopSearches ==
  Inv /\ (EndAssertion \/ EndMatch \/ OutOfMemory \/ Exhausted) => Search!Next
  <1> SUFFICES ASSUME Inv, EndAssertion \/ EndMatch \/ OutOfMemory \/ Exhausted
               PROVE  Search!Next
    OBVIOUS
  <1>1. UNCHANGED <<job, pc, cptr, capture, stack>> /\ Ways' = Ways
    BY WaysUnchanged DEF EndAssertion, EndMatch, OutOfMemory, Exhausted
  <1>2. CASE EndAssertion
    <2>1. Search!Out = Out
      BY <1>2, HereRunning DEF EndAssertion
    <2>2. CASE Out.to = "lookahead"
      <3>1. Search!EndLookahead
        BY <1>1, <1>2, <2>1, <2>2 DEF EndAssertion, Search!EndLookahead, Here
      <3> QED
        BY <3>1 DEF Search!Next
    <2>3. CASE Out.to = "negative"
      <3>1. Search!EndNegative
        BY <1>1, <1>2, <2>1, <2>3, SameNowhere DEF EndAssertion, Search!EndNegative, Here
      <3> QED
        BY <3>1 DEF Search!Next
    <2> QED
      BY <1>2, <2>2, <2>3 DEF EndAssertion
  <1>3. CASE EndMatch
    <2>1. Search!Out = Out
      BY <1>3, HereRunning DEF EndMatch
    <2>2. Search!Finish
      BY <1>1, <1>3, <2>1 DEF EndMatch, Search!Finish, Here
    <2> QED
      BY <2>2 DEF Search!Next
  <1>4. CASE OutOfMemory
    <2>1. Search!RunOut
      BY <1>1, <1>4 DEF OutOfMemory, Search!RunOut, Here
    <2> QED
      BY <2>1 DEF Search!Next
  <1>5. CASE Exhausted
    <2>1. Ways = <<>>
      <3>1. SavedIndices = {}
        BY <1>5, SavedAtFacts DEF Exhausted, SavedIndices, SavedAt, IsSaved, Saved
      <3>2. Cardinality(SavedIndices) = 0
        BY <3>1, FS_EmptySet
      <3>3. Ways = [n \in 1..0 |-> WayAt(Nth(SavedIndices, n))]
        BY <3>2 DEF Ways
      <3> QED
        BY <3>3
    <2>2. Search!NoWayLeft
      BY <1>1, <1>5, <2>1 DEF Exhausted, Search!NoWayLeft, Here
    <2> QED
      BY <2>2 DEF Search!Next
  <1> QED
    BY <1>2, <1>3, <1>4, <1>5

LEMMA UndoTopSearches == Inv /\ UndoTop => UNCHANGED Search!vars
  <1> SUFFICES ASSUME Inv, UndoTop PROVE UNCHANGED Search!vars
    OBVIOUS
  <1>1. Ways' = Ways
    BY UndoTopWays
  <1>2. Here' = Here /\ job' = job /\ mode' = mode
    BY DEF UndoTop, Here
  <1> QED
    BY <1>1, <1>2 DEF Search!vars

LEMMA ResumeSearches == Inv /\ Resume => Search!TakeNextWay
  <1> SUFFICES ASSUME Inv, Resume PROVE Search!TakeNextWay
    OBVIOUS
  <1>1. PICK b : b = bp
    OBVIOUS
  <1>2. /\ Ways # <<>>
        /\ Search!Last = WayAt(b)
        /\ Ways' = Search!Earlier
    BY <1>1, ResumeWays DEF Search!Last, Search!Earlier
  <1>3. /\ mode = "no_match" /\ job' = job /\ capture' = capture
        /\ pc' = Top.pc /\ cptr' = Top.cptr
        /\ mode' = IF Top.type = "lookahead" THEN "no_match" ELSE "run"
        /\ Top = stack[b]
    BY <1>1 DEF Resume, Restore, Top
  <1>4. CaptureAt(b) = capture
    BY <1>1, CaptureAtTop DEF Resume
  <1>5. /\ Search!Last.pc = Top.pc
        /\ Search!Last.cptr = Top.cptr
        /\ Search!Last.capture = capture
        /\ Search!Last.type = Top.type
    BY <1>2, <1>3, <1>4 DEF WayAt
  <1>6. CASE Top.type = "lookahead"
    <2>1. Here' = Here /\ mode' = mode
      BY <1>3, <1>6 DEF Here
    <2> QED
      BY <1>2, <1>3, <1>5, <1>6, <2>1 DEF Search!TakeNextWay
  <1>7. CASE Top.type # "lookahead"
    <2>1. Here' = [pc |-> Top.pc, cptr |-> Top.cptr, capture |-> capture] /\ mode' = "run"
      BY <1>3, <1>7 DEF Here
    <2> QED
      BY <1>2, <1>3, <1>5, <1>7, <2>1 DEF Search!TakeNextWay, Search!At
  <1> QED
    BY <1>6, <1>7

LEMMA PopNegativeSearches == Inv /\ PopNegative => Search!LeaveNegative
  <1> SUFFICES ASSUME Inv, PopNegative PROVE Search!LeaveNegative
    OBVIOUS
  <1>1. PICK b : b = bp
    OBVIOUS
  <1>2. /\ Ways # <<>>
        /\ Search!Last = WayAt(b)
        /\ Ways' = Search!Earlier
    BY <1>1, ResumeWays DEF Search!Last, Search!Earlier
  <1>3. /\ mode = "negative" /\ job' = job
        /\ mode' = IF Top.type = "negative" THEN "no_match" ELSE "negative"
        /\ Top = stack[b]
    BY <1>1 DEF PopNegative, Top
  <1>4. Search!Last.type = Top.type
    BY <1>2, <1>3 DEF WayAt
  <1>5. Here' = Here
    BY <1>3 DEF Here
  <1> QED
    BY <1>2, <1>3, <1>4, <1>5 DEF Search!LeaveNegative

LEMMA PopLookaheadSearches == Inv /\ PopLookahead => Search!LeaveLookahead
  <1> SUFFICES ASSUME Inv, PopLookahead PROVE Search!LeaveLookahead
    OBVIOUS
  <1>1. PICK b : b = bp
    OBVIOUS
  <1>2. /\ Ways # <<>>
        /\ Search!Last = WayAt(b)
        /\ Ways' = Search!Earlier
    BY <1>1, LookaheadWays DEF Search!Last, Search!Earlier
  <1>3. /\ mode = "lookahead" /\ job' = job /\ capture' = capture
        /\ pc' = stack[b].pc /\ cptr' = stack[b].cptr
        /\ mode' = IF stack[b].type = "lookahead" THEN "run" ELSE "lookahead"
    BY <1>1 DEF PopLookahead, Restore
  <1>4. /\ Search!Last.pc = stack[b].pc
        /\ Search!Last.cptr = stack[b].cptr
        /\ Search!Last.type = stack[b].type
    BY <1>2 DEF WayAt
  <1>5. /\ Here.capture = capture
        /\ Here' = [pc |-> stack[b].pc, cptr |-> stack[b].cptr, capture |-> capture]
    BY <1>3 DEF Here
  <1> QED
    BY <1>2, <1>3, <1>4, <1>5 DEF Search!LeaveLookahead, Search!At

LEMMA StepSearches == Inv /\ Inv' /\ [Next]_vars => [Search!Next]_(Search!vars)
  <1> SUFFICES ASSUME Inv, Inv', [Next]_vars PROVE [Search!Next]_(Search!vars)
    OBVIOUS
  <1>1. CASE Continue
    BY <1>1, ContinueSearches DEF Search!Next
  <1>2. CASE TakeBranch
    BY <1>2, TakeBranchSearches DEF Search!Next
  <1>3. CASE Mismatch
    BY <1>3, MismatchSearches DEF Search!Next
  <1>4. CASE EndAssertion \/ EndMatch \/ OutOfMemory \/ Exhausted
    BY <1>4, StopSearches
  <1>5. CASE UndoTop
    BY <1>5, UndoTopSearches
  <1>6. CASE Resume
    BY <1>6, ResumeSearches DEF Search!Next
  <1>7. CASE PopNegative
    BY <1>7, PopNegativeSearches DEF Search!Next
  <1>8. CASE PopLookahead
    BY <1>8, PopLookaheadSearches DEF Search!Next
  <1>9. CASE Returned \/ UNCHANGED vars
    <2>1. UNCHANGED <<job, pc, cptr, capture, stack, mode>>
      BY <1>9 DEF Returned, vars
    <2>2. Ways' = Ways /\ Here' = Here
      BY <2>1, WaysUnchanged DEF Here
    <2> QED
      BY <2>1, <2>2 DEF Search!vars
  <1> QED
    BY <1>1, <1>2, <1>3, <1>4, <1>5, <1>6, <1>7, <1>8, <1>9 DEF Next

\* lre_exec_backtrack, with one capture[] and a stack of modifications to undo, finds
\* what the search finds that copies the captures of every way, way by way, for every
\* program and every subject.
THEOREM InterpreterSearches == Spec => CopiesCaptures
  <1>1. Init => Search!Init
    BY SearchInit
  <1>2. Inv /\ Inv' /\ [Next]_vars => [Search!Next]_(Search!vars)
    BY StepSearches
  <1> QED
    BY <1>1, <1>2, Invariance, PTL DEF Spec, CopiesCaptures, Search!Spec

--------------------------------------------------------------------------------
(***************************************************************************)
(* Where the instructions of a program lead: only the start and the end of *)
(* a lookahead change which lookaheads are open.                           *)
(***************************************************************************)
\* An outcome that stays inside S and opens and ends nothing.
StaysIn(out, S) ==
  /\ out.to \in {"run", "branch", "no_match"}
  /\ out.to \in {"run", "branch"} => out.pc \in S
  /\ out.to = "branch" => out.alt \in S /\ out.type = "split"

LEMMA OutcomesStay ==
  ASSUME NEW S, NEW p \in S, NEW c
  PROVE  /\ StaysIn(GoOn(p, c), S)
         /\ \A cond : StaysIn(GoOnIf(cond, p, c), S)
         /\ \A q \in S : StaysIn(Branch(p, q, "split", c), S)
  BY DEF StaysIn, GoOn, GoOnIf, NoMatch, Branch, Outcome

LEMMA NoMatchStays ==
  ASSUME NEW S, NEW p, NEW c
  PROVE  StaysIn(NoMatch(p, c), S)
  BY DEF StaysIn, NoMatch, Outcome

LEMMA StoringStays ==
  ASSUME NEW S, NEW out, StaysIn(out, S), NEW check, NEW writes,
         out = [to |-> out.to, pc |-> out.pc, cptr |-> out.cptr, writes |-> out.writes,
                check |-> out.check, alt |-> out.alt, type |-> out.type]
  PROVE  StaysIn(Storing(out, check, writes), S)
  <1> DEFINE s == Storing(out, check, writes)
  <1>1. s.to = out.to /\ s.pc = out.pc /\ s.alt = out.alt /\ s.type = out.type
    BY DEF Storing
  <1> HIDE DEF s
  <1> QED
    BY <1>1 DEF StaysIn, s

LEMMA NestingFacts ==
  ASSUME NEW j, JobOK(j), NEW p \in DOMAIN j.prog
  PROVE  NestingOK(j, p) /\ InstructionOK(j, p) /\ p \in Int
  BY DEF JobOK

\* The instructions from which the same lookaheads are open.
Level(j, p) == {i \in Int : OpenAt(j, i) = OpenAt(j, p)}

LEMMA Successors ==
  ASSUME NEW j, JobOK(j), NEW p \in DOMAIN j.prog
  PROVE  /\ j.prog[p].op \in FallsThrough \ {"lookahead"} => p + 1 \in Level(j, p)
         /\ j.prog[p].op \in Jumps => p + 1 + j.prog[p].off \in Level(j, p)
  <1>1. NestingOK(j, p) /\ InstructionOK(j, p) /\ p \in Int
    BY NestingFacts
  <1>2. j.prog[p].op \in Jumps => j.prog[p].off \in Int
    BY <1>1 DEF InstructionOK
  <1> QED
    BY <1>1, <1>2 DEF NestingOK, Level

LEMMA CountsStay ==
  ASSUME NEW j, JobOK(j), NEW p \in DOMAIN j.prog, NEW c, NEW cap,
         j.prog[p].op \in {"loop", "loop_split"}
  PROVE  /\ StaysIn(CountDown(j, j.prog[p], p, c, cap), Level(j, p))
         /\ StaysIn(CountDownAndSplit(j, j.prog[p], p, c, cap), Level(j, p))
  <1> DEFINE ins == j.prog[p]
             r == Register(j, ins.reg)
             left == cap[r] - 1
             S == Level(j, p)
  <1>1. p + 1 \in S /\ p + 1 + ins.off \in S
    BY Successors DEF FallsThrough, Jumps
  <1> HIDE DEF S, left, r
  <1>2. \A q \in S : StaysIn(GoOn(q, c), S)
    BY OutcomesStay
  <1>3. StaysIn(SplitHere(ins, p, c), S)
    BY <1>1, OutcomesStay DEF SplitHere
  <1>4. StaysIn(NoMatch(p + 1, c), S)
    BY NoMatchStays
  <1>5. StaysIn(CountDown(j, ins, p, c, cap), S)
    <2> DEFINE next == GoOn(IF left # 0 THEN p + 1 + ins.off ELSE p + 1, c)
    <2>1. StaysIn(next, S)
      BY <1>1, <1>2
    <2>2. next = [to |-> next.to, pc |-> next.pc, cptr |-> next.cptr,
                  writes |-> next.writes, check |-> next.check, alt |-> next.alt,
                  type |-> next.type]
      BY DEF GoOn, Outcome
    <2>3. CountDown(j, ins, p, c, cap) = Storing(next, TRUE, <<Write(r, left)>>)
      BY DEF CountDown, r, left
    <2> HIDE DEF next
    <2> QED
      BY <2>1, <2>2, <2>3, StoringStays
  <1>6. StaysIn(CountDownAndSplit(j, ins, p, c, cap), S)
    <2> DEFINE next == IF left > ins.limit THEN GoOn(p + 1 + ins.off, c)
                       ELSE IF ins.adv /\ cap[r + 1] = c /\ left # ins.limit
                            THEN NoMatch(p + 1, c)
                       ELSE IF left # 0 THEN SplitHere(ins, p, c)
                       ELSE GoOn(p + 1, c)
    <2>1. StaysIn(next, S)
      BY <1>1, <1>2, <1>3, <1>4
    <2>2. next = [to |-> next.to, pc |-> next.pc, cptr |-> next.cptr,
                  writes |-> next.writes, check |-> next.check, alt |-> next.alt,
                  type |-> next.type]
      BY DEF GoOn, NoMatch, SplitHere, Branch, Outcome
    <2>3. CountDownAndSplit(j, ins, p, c, cap) = Storing(next, TRUE, <<Write(r, left)>>)
      BY DEF CountDownAndSplit, r, left
    <2> HIDE DEF next
    <2> QED
      BY <2>1, <2>2, <2>3, StoringStays
  <1> QED
    BY <1>5, <1>6 DEF S

LEMMA StoresStay ==
  ASSUME NEW j, JobOK(j), NEW p \in DOMAIN j.prog, NEW c,
         j.prog[p].op \in {"save", "save_reset", "set_i32", "set_char_pos"}
  PROVE  /\ StaysIn(Save(j.prog[p], p, c), Level(j, p))
         /\ StaysIn(ResetGroups(j.prog[p], p, c), Level(j, p))
         /\ StaysIn(SetRegister(j, j.prog[p], p, c), Level(j, p))
  <1> DEFINE next == GoOn(p + 1, c)
  <1>1. StaysIn(next, Level(j, p))
    BY Successors, OutcomesStay DEF FallsThrough
  <1>2. next = [to |-> next.to, pc |-> next.pc, cptr |-> next.cptr,
                writes |-> next.writes, check |-> next.check, alt |-> next.alt,
                type |-> next.type]
    BY DEF GoOn, Outcome
  <1> HIDE DEF next
  <1>3. \A check, writes : StaysIn(Storing(next, check, writes), Level(j, p))
    BY <1>1, <1>2, StoringStays
  <1> QED
    BY <1>3 DEF Save, ResetGroups, SetRegister, next

\* What an instruction does to the lookaheads that are open.
Nests(j, p, out) ==
  LET ins == j.prog[p] IN
  /\ ins.op \notin {"lookahead", "assertion_end", "match"} => StaysIn(out, Level(j, p))
  /\ ins.op = "lookahead" => /\ out.to = "branch" /\ out.type = ins.type
                             /\ out.pc = p + 1 /\ out.alt = p + 1 + ins.off
  /\ ins.op = "assertion_end" => out.to = ins.type
  /\ ins.op = "match" => out.to = "match"

LEMMA EffectNests ==
  ASSUME NEW j, JobOK(j), NEW p \in DOMAIN j.prog, NEW c, NEW cap
  PROVE  Nests(j, p, Effect(j, p, c, cap))
  <1> DEFINE ins == j.prog[p]
             out == Effect(j, p, c, cap)
             S == Level(j, p)
  <1> SUFFICES Nests(j, p, out)
    OBVIOUS
  <1>1. InstructionOK(j, p)
    BY NestingFacts
  <1>2. ins.op \in FallsThrough \cup {"goto", "assertion_end", "match"}
    BY <1>1 DEF InstructionOK
  <1>3. ins.op \in FallsThrough \ {"lookahead"} => p + 1 \in S
    BY Successors
  <1> HIDE DEF S
  <1>4. CASE ins.op \in {"char", "dot", "any", "space", "line_start", "line_end",
                         "word_boundary", "check_advance", "back_reference", "prev"}
    <2>1. /\ \A e : StaysIn(GoOn(p + 1, e), S)
          /\ \A cond, e : StaysIn(GoOnIf(cond, p + 1, e), S)
      BY <1>3, <1>4, OutcomesStay DEF FallsThrough
    <2>2. StaysIn(NoMatch(p + 1, c), S)
      BY NoMatchStays
    <2>3. /\ ins.op \in {"char", "dot", "any", "space"} => out = ReadChar(j, ins, p, c)
          /\ ins.op = "line_start" => out = AtLineStart(j, ins, p, c)
          /\ ins.op = "line_end" => out = AtLineEnd(j, ins, p, c)
          /\ ins.op = "word_boundary" => out = AtWordBoundary(j, ins, p, c)
          /\ ins.op = "check_advance" => out = HasAdvanced(j, ins, p, c, cap)
          /\ ins.op = "back_reference" => out = MatchAgain(j, ins, p, c, cap)
          /\ ins.op = "prev" => out = StepBack(j, p, c)
      BY DEF Effect
    <2>4. StaysIn(ReadChar(j, ins, p, c), S)
      BY <2>1, <2>2 DEF ReadChar
    <2>5. /\ StaysIn(AtLineStart(j, ins, p, c), S)
          /\ StaysIn(AtLineEnd(j, ins, p, c), S)
          /\ StaysIn(AtWordBoundary(j, ins, p, c), S)
          /\ StaysIn(HasAdvanced(j, ins, p, c, cap), S)
      BY <2>1 DEF AtLineStart, AtLineEnd, AtWordBoundary, HasAdvanced
    <2>6. StaysIn(MatchAgain(j, ins, p, c, cap), S)
      BY <2>1, <2>2 DEF MatchAgain
    <2>7. StaysIn(StepBack(j, p, c), S)
      BY <2>1, <2>2 DEF StepBack
    <2>8. StaysIn(out, S)
      <3> HIDE DEF out
      <3> QED
        BY <1>4, <2>3, <2>4, <2>5, <2>6, <2>7
    <2> HIDE DEF out
    <2> QED
      BY <1>4, <2>8 DEF Nests, S
  <1>5. CASE ins.op \in {"loop", "loop_split", "save", "save_reset", "set_i32", "set_char_pos"}
    <2>1. StaysIn(out, S)
      BY <1>5, CountsStay, StoresStay DEF Effect, S
    <2> HIDE DEF out
    <2> QED
      BY <1>5, <2>1 DEF Nests, S
  <1>6. CASE ins.op \in {"goto", "split"}
    <2>1. p + 1 + ins.off \in S
      BY <1>6, Successors DEF Jumps, S
    <2>2. ins.op = "goto" => out = GoOn(p + 1 + ins.off, c)
      BY DEF Effect
    <2>3. ins.op = "split" => out = SplitHere(ins, p, c)
      BY DEF Effect
    <2>4. ins.op = "split" => p + 1 \in S
      BY <1>3 DEF FallsThrough
    <2> HIDE DEF out
    <2>5. ins.op = "goto" => StaysIn(out, S)
      BY <2>1, <2>2, OutcomesStay
    <2>6. ins.op = "split" => StaysIn(out, S)
      BY <2>1, <2>3, <2>4, OutcomesStay DEF SplitHere
    <2> QED
      BY <1>6, <2>5, <2>6 DEF Nests, S
  <1>7. CASE ins.op = "lookahead"
    BY <1>7 DEF Effect, Nests, StartAssertion, Branch, Outcome
  <1>8. CASE ins.op \in {"assertion_end", "match"}
    BY <1>8 DEF Effect, Nests, Outcome
  <1> QED
    BY <1>2, <1>4, <1>5, <1>6, <1>7, <1>8 DEF FallsThrough

--------------------------------------------------------------------------------
(***************************************************************************)
(* The lookaheads that the interpreter is inside of, at an instruction,    *)
(* are the ones with a saved state that is not a split's, the innermost    *)
(* one last.  w is the list of ways; position n stands behind n - 1 ways.  *)
(***************************************************************************)
\* b is the last way before n that is not a split's, 0 when there is none.
LastOpen(w, n, b) ==
  /\ b = 0 \/ (b \in 1..(n - 1) /\ w[b].type # "split")
  /\ \A i \in 1..(n - 1) : b < i => w[i].type = "split"

\* q is the innermost lookahead that is open at p.
Innermost(j, p, q) == q \in OpenAt(j, p) /\ \A h \in OpenAt(j, p) : h <= q

\* The way b was saved where the lookahead q begins.
SavedBy(j, way, q) ==
  way.pc = q + 1 + j.prog[q].off /\ way.type = j.prog[q].type

\* The last way before n that is not a split's leads behind the innermost
\* lookahead that is open at p.
Encloses(j, w, n, p) ==
  \E b \in Nat : /\ LastOpen(w, n, b)
                 /\ b = 0 => OpenAt(j, p) = {}
                 /\ b # 0 => \E q \in OpenAt(j, p) : Innermost(j, p, q) /\ SavedBy(j, w[b], q)

AllEnclosed(j, w) == \A k \in 1..Len(w) : Encloses(j, w, k, w[k].pc)

Ending(w, m) == \E b \in 1..Len(w) : LastOpen(w, Len(w) + 1, b) /\ w[b].type = m

NestedAt(j, w, p, m) ==
  /\ AllEnclosed(j, w)
  /\ m = "run" => Encloses(j, w, Len(w) + 1, p)
  /\ m \in AssertionTypes => Ending(w, m)
  /\ m = "match" => \A k \in 1..Len(w) : w[k].type = "split"

SameBefore(v, w, n) == n \in Nat /\ \A i \in 1..(n - 1) : v[i] = w[i]

LEMMA LastOpenSame ==
  ASSUME NEW w, NEW v, NEW n, SameBefore(v, w, n), NEW b, LastOpen(w, n, b)
  PROVE  LastOpen(v, n, b)
  BY DEF LastOpen, SameBefore

LEMMA EnclosesSame ==
  ASSUME NEW j, NEW w, NEW v, NEW n, SameBefore(v, w, n), NEW p, NEW q, OpenAt(j, q) = OpenAt(j, p), Encloses(j, w, n, p)
  PROVE  Encloses(j, v, n, q)
  <1>1. PICK b \in Nat : /\ LastOpen(w, n, b)
                         /\ b = 0 => OpenAt(j, p) = {}
                         /\ b # 0 => \E h \in OpenAt(j, p) :
                                       Innermost(j, p, h) /\ SavedBy(j, w[b], h)
    BY DEF Encloses
  <1>2. LastOpen(v, n, b)
    BY <1>1, LastOpenSame
  <1>3. b # 0 => v[b] = w[b]
    BY <1>1 DEF LastOpen, SameBefore
  <1>4. b # 0 => \E h \in OpenAt(j, q) : Innermost(j, q, h) /\ SavedBy(j, v[b], h)
    BY <1>1, <1>3 DEF Innermost
  <1> QED
    BY <1>1, <1>2, <1>4 DEF Encloses

\* Behind a split's way nothing changes.
LEMMA EnclosesBehindSplit ==
  ASSUME NEW j, NEW w, NEW n \in Nat \ {0}, w[n].type = "split",
         NEW p, Encloses(j, w, n, p)
  PROVE  Encloses(j, w, n + 1, p)
  <1>1. \A b \in Nat : LastOpen(w, n, b) => LastOpen(w, n + 1, b)
    BY DEF LastOpen
  <1> QED
    BY <1>1 DEF Encloses

\* Behind the way that the start of a lookahead saved, the lookahead is open too.
LEMMA EnclosesInside ==
  ASSUME NEW j, JobOK(j), NEW p \in DOMAIN j.prog, j.prog[p].op = "lookahead",
         NEW w, NEW n \in Nat \ {0}, SavedBy(j, w[n], p)
  PROVE  Encloses(j, w, n + 1, p + 1)
  <1>1. /\ OpenAt(j, p + 1) = OpenAt(j, p) \cup {p}
        /\ j.prog[p].type \in AssertionTypes
        /\ p \in Int
    BY NestingFacts DEF NestingOK, InstructionOK
  <1>2. LastOpen(w, n + 1, n)
    BY <1>1 DEF LastOpen, SavedBy, AssertionTypes
  <1>3. \A h \in OpenAt(j, p) : h \in Int /\ h <= p
    BY <1>1, NestingFacts DEF OpenAt
  <1>4. Innermost(j, p + 1, p) /\ p \in OpenAt(j, p + 1)
    BY <1>1, <1>3 DEF Innermost
  <1> QED
    BY <1>2, <1>4 DEF Encloses

\* The end of an assertion finds the way its start saved.
LEMMA EndsInnermost ==
  ASSUME NEW j, JobOK(j), NEW p \in DOMAIN j.prog, j.prog[p].op = "assertion_end",
         NEW w, Len(w) \in Nat, Encloses(j, w, Len(w) + 1, p)
  PROVE  Ending(w, j.prog[p].type)
  <1>1. PICK q \in OpenAt(j, p) : /\ j.prog[q].type = j.prog[p].type
                                  /\ \A h \in OpenAt(j, p) : h <= q
    BY NestingFacts DEF NestingOK
  <1>2. PICK b \in Nat : /\ LastOpen(w, Len(w) + 1, b)
                         /\ b = 0 => OpenAt(j, p) = {}
                         /\ b # 0 => \E h \in OpenAt(j, p) :
                                       Innermost(j, p, h) /\ SavedBy(j, w[b], h)
    BY DEF Encloses
  <1>3. b # 0 /\ b \in 1..Len(w)
    BY <1>1, <1>2 DEF LastOpen
  <1>4. PICK h \in OpenAt(j, p) : Innermost(j, p, h) /\ SavedBy(j, w[b], h)
    BY <1>2, <1>3
  <1>5. h = q
    <2>1. h \in Int /\ q \in Int
      BY NestingFacts DEF OpenAt
    <2>2. h <= q /\ q <= h
      BY <1>1, <1>4 DEF Innermost
    <2> QED
      BY <2>1, <2>2
  <1> QED
    BY <1>1, <1>2, <1>3, <1>4, <1>5 DEF SavedBy, Ending

\* At the end of a match no lookahead is open.
LEMMA MatchOutside ==
  ASSUME NEW j, JobOK(j), NEW p \in DOMAIN j.prog, j.prog[p].op = "match",
         NEW w, Len(w) \in Nat, Encloses(j, w, Len(w) + 1, p)
  PROVE  \A k \in 1..Len(w) : w[k].type = "split"
  <1>1. OpenAt(j, p) = {}
    BY NestingFacts DEF NestingOK
  <1> QED
    BY <1>1 DEF Encloses, LastOpen

\* The last way is taken: it is enclosed by what is left.
LEMMA DropNested ==
  ASSUME NEW j, NEW W, NEW w \in Seq(W), w # <<>>, AllEnclosed(j, w),
         NEW v, v = SubSeq(w, 1, Len(w) - 1)
  PROVE  /\ AllEnclosed(j, v)
         /\ Encloses(j, v, Len(v) + 1, w[Len(w)].pc)
         /\ \A m \in AssertionTypes : Ending(w, m) /\ w[Len(w)].type # m => Ending(v, m)
  <1>1. Len(w) \in Nat \ {0}
    OBVIOUS
  <1>2. Len(v) \in Nat /\ Len(v) + 1 = Len(w) /\ \A i \in 1..Len(v) : v[i] = w[i]
    <2>1. Len(v) = Len(w) - 1 /\ \A i \in 1..Len(v) : v[i] = w[i]
      BY <1>1, PoppedFacts
    <2> QED
      BY <1>1, <2>1
  <1>3. AllEnclosed(j, v)
    <2> SUFFICES ASSUME NEW k \in 1..Len(v) PROVE Encloses(j, v, k, v[k].pc)
      BY DEF AllEnclosed
    <2>1. k \in 1..Len(w) /\ v[k] = w[k] /\ SameBefore(v, w, k)
      BY <1>2 DEF SameBefore
    <2>2. Encloses(j, w, k, w[k].pc)
      BY <2>1 DEF AllEnclosed
    <2> QED
      BY <2>1, <2>2, EnclosesSame
  <1>4. Encloses(j, v, Len(v) + 1, w[Len(w)].pc)
    <2>1. Encloses(j, w, Len(w), w[Len(w)].pc)
      BY <1>1 DEF AllEnclosed
    <2>2. SameBefore(v, w, Len(w))
      BY <1>1, <1>2 DEF SameBefore
    <2>3. Encloses(j, v, Len(w), w[Len(w)].pc)
      BY <1>1, <2>1, <2>2, EnclosesSame
    <2> QED
      BY <1>2, <2>3
  <1>5. ASSUME NEW m \in AssertionTypes, Ending(w, m), w[Len(w)].type # m
        PROVE  Ending(v, m)
    <2>1. PICK b \in 1..Len(w) : LastOpen(w, Len(w) + 1, b) /\ w[b].type = m
      BY <1>5 DEF Ending
    <2>2. b # Len(w)
      BY <1>5, <2>1
    <2>3. b \in 1..Len(v) /\ v[b].type = m
      BY <1>1, <1>2, <2>1, <2>2
    <2>4. LastOpen(w, Len(w), b)
      BY <1>1, <1>2, <2>1, <2>3 DEF LastOpen
    <2>5. LastOpen(v, Len(w), b)
      <3>1. SameBefore(v, w, Len(w))
        BY <1>1, <1>2 DEF SameBefore
      <3> QED
        BY <2>4, <3>1, LastOpenSame
    <2> QED
      BY <1>2, <2>3, <2>5 DEF Ending
  <1> QED
    BY <1>3, <1>4, <1>5

\* A way is added that is enclosed by the others.
Added(v, w, e) == v = Append(w, e)

LEMMA AppendNested ==
  ASSUME NEW j, NEW W, NEW w \in Seq(W), AllEnclosed(j, w), NEW e,
         Encloses(j, w, Len(w) + 1, e.pc), NEW v, Added(v, w, e)
  PROVE  /\ Len(v) = Len(w) + 1 /\ v[Len(v)] = e
         /\ \A i \in 1..Len(w) : v[i] = w[i]
         /\ AllEnclosed(j, v)
         /\ Encloses(j, v, Len(v), e.pc)
  <1>1. /\ Len(w) \in Nat
        /\ Len(v) = Len(w) + 1 /\ v[Len(v)] = e
        /\ \A i \in 1..Len(w) : v[i] = w[i]
    BY DEF Added
  <1>2. Encloses(j, v, Len(v), e.pc)
    <2>1. SameBefore(v, w, Len(w) + 1)
      BY <1>1 DEF SameBefore
    <2>2. Encloses(j, v, Len(w) + 1, e.pc)
      BY <1>1, <2>1, EnclosesSame
    <2> QED
      BY <1>1, <2>2
  <1>3. AllEnclosed(j, v)
    <2> SUFFICES ASSUME NEW k \in 1..Len(w) PROVE Encloses(j, v, k, v[k].pc)
      BY <1>1, <1>2 DEF AllEnclosed
    <2>1. v[k] = w[k] /\ SameBefore(v, w, k)
      BY <1>1 DEF SameBefore
    <2>2. Encloses(j, w, k, w[k].pc)
      BY DEF AllEnclosed
    <2> QED
      BY <2>1, <2>2, EnclosesSame
  <1> QED
    BY <1>1, <1>2, <1>3

--------------------------------------------------------------------------------
(***************************************************************************)
(* The nesting of the ways is an invariant of the search.                  *)
(***************************************************************************)
Nested == NestedAt(job, Ways, Here.pc, mode)

LEMMA WaysAreSeq ==
  ASSUME Len(stack) \in Nat
  PROVE  \E W : Ways \in Seq(W)
  <1> DEFINE S == SavedAt(stack)
             w == WayOf
             W == {w[k] : k \in S}
  <1>1. S \in SUBSET Nat /\ IsFiniteSet(S) /\ \A k \in S : w[k] \in W
    BY SavedAtNat
  <1>2. Ways = InOrder(S, w)
    BY WaysInOrder
  <1> HIDE DEF S, w, W
  <1>3. Ways \in Seq(W)
    BY <1>1, <1>2, InOrderIsSeq
  <1> QED
    BY <1>3

\* Where the search is, and what it does there.
LEMMA NestedHere ==
  ASSUME Inv, mode = "run"
  PROVE  /\ JobOK(job) /\ pc \in DOMAIN job.prog /\ Here.pc = pc
         /\ Search!Out = Out
         /\ Nests(job, pc, Out)
  <1>1. JobOK(job) /\ pc \in DOMAIN job.prog
    BY InvFacts DEF Inv, TypeOK
  <1>2. Nests(job, pc, Out)
    BY <1>1, EffectNests DEF Out
  <1> QED
    BY <1>1, <1>2, HereRunning

LEMMA NestedInit == Init => Nested
  <1> SUFFICES ASSUME Init PROVE Nested
    OBVIOUS
  <1>1. Ways = <<>> /\ Here.pc = 1 /\ mode = "run" /\ job \in Jobs
    BY SearchInit DEF Init, Search!Init
  <1>2. OpenAt(job, 1) = {}
    BY <1>1, JobsAssumption DEF JobOK
  <1>3. Len(Ways) = 0
    BY <1>1
  <1>4. LastOpen(Ways, Len(Ways) + 1, 0)
    BY <1>3 DEF LastOpen
  <1>5. Encloses(job, Ways, Len(Ways) + 1, Here.pc)
    BY <1>1, <1>2, <1>4 DEF Encloses
  <1> QED
    BY <1>1, <1>3, <1>5 DEF Nested, NestedAt, AllEnclosed, AssertionTypes

LEMMA FollowNested ==
  ASSUME Inv, Nested, Search!Follow
  PROVE  Nested'
  <1>1. /\ mode = "run" /\ mode' = "run" /\ job' = job
        /\ Search!Out.to \in {"run", "branch"}
        /\ Here'.pc = Search!Out.pc
    BY DEF Search!Follow, Search!At
  <1>2. /\ JobOK(job) /\ pc \in DOMAIN job.prog /\ Here.pc = pc
        /\ Search!Out = Out
        /\ Nests(job, pc, Out)
    BY <1>1, NestedHere
  <1>3. AllEnclosed(job, Ways) /\ Encloses(job, Ways, Len(Ways) + 1, pc)
    BY <1>1, <1>2 DEF Nested, NestedAt
  <1>4. PICK W : Ways \in Seq(W)
    BY InvFacts, WaysAreSeq
  <1>5. SUFFICES AllEnclosed(job, Ways') /\ Encloses(job, Ways', Len(Ways') + 1, Out.pc)
    BY <1>1, <1>2 DEF Nested, NestedAt, AssertionTypes
  <1>6. CASE Out.to = "run"
    <2>1. Ways' = Ways
      BY <1>2, <1>6 DEF Search!Follow
    <2>2. StaysIn(Out, Level(job, pc))
      <3>1. InstructionOK(job, pc)
        BY <1>2, NestingFacts
      <3> QED
        BY <1>2, <1>6, <3>1 DEF Nests, InstructionOK, AssertionTypes
    <2>3. OpenAt(job, Out.pc) = OpenAt(job, pc)
      BY <1>6, <2>2 DEF StaysIn, Level
    <2>4. SameBefore(Ways, Ways, Len(Ways) + 1)
      BY <1>4 DEF SameBefore
    <2> QED
      BY <1>3, <2>1, <2>3, <2>4, EnclosesSame
  <1>7. CASE Out.to = "branch"
    <2> DEFINE e == Search!Way(Out.alt, Out.cptr, Search!CaptureAfter, Out.type)
    <2>1. Ways' = Append(Ways, e) /\ e.pc = Out.alt /\ e.type = Out.type
      BY <1>2, <1>7 DEF Search!Follow, Search!Way
    <2> HIDE DEF e
    <2>2. /\ OpenAt(job, Out.alt) = OpenAt(job, pc)
          /\ \/ Out.type = "split" /\ OpenAt(job, Out.pc) = OpenAt(job, pc)
             \/ /\ job.prog[pc].op = "lookahead"
                /\ Out.pc = pc + 1
                /\ Out.alt = pc + 1 + job.prog[pc].off
                /\ Out.type = job.prog[pc].type
      <3>1. CASE job.prog[pc].op = "lookahead"
        <4>1. pc + 1 + job.prog[pc].off \in Level(job, pc)
          BY <1>2, <3>1, Successors DEF Jumps
        <4> QED
          BY <1>2, <3>1, <4>1 DEF Nests, Level
      <3>2. CASE job.prog[pc].op # "lookahead"
        <4>1. InstructionOK(job, pc)
          BY <1>2, NestingFacts
        <4>2. StaysIn(Out, Level(job, pc))
          BY <1>2, <1>7, <3>2, <4>1 DEF Nests, InstructionOK, AssertionTypes
        <4> QED
          BY <1>7, <4>2 DEF StaysIn, Level
      <3> QED
        BY <3>1, <3>2
    <2>3. Encloses(job, Ways, Len(Ways) + 1, e.pc)
      <3>1. SameBefore(Ways, Ways, Len(Ways) + 1)
        BY <1>4 DEF SameBefore
      <3> QED
        BY <1>3, <2>1, <2>2, <3>1, EnclosesSame
    <2>4. /\ Len(Ways') = Len(Ways) + 1 /\ Ways'[Len(Ways')] = e
          /\ AllEnclosed(job, Ways')
          /\ Encloses(job, Ways', Len(Ways'), e.pc)
      <3>1. Added(Ways', Ways, e)
        BY <2>1 DEF Added
      <3> QED
        BY <1>3, <1>4, <2>3, <3>1, AppendNested
    <2>5. Len(Ways') \in Nat \ {0}
      BY <1>4, <2>4
    <2>6. CASE Out.type = "split" /\ OpenAt(job, Out.pc) = OpenAt(job, pc)
      <3>1. Encloses(job, Ways', Len(Ways') + 1, e.pc)
        BY <2>1, <2>4, <2>5, <2>6, EnclosesBehindSplit
      <3>2. SameBefore(Ways', Ways', Len(Ways') + 1)
        BY <2>5 DEF SameBefore
      <3>3. OpenAt(job, Out.pc) = OpenAt(job, e.pc)
        BY <2>1, <2>2, <2>6
      <3>4. Encloses(job, Ways', Len(Ways') + 1, Out.pc)
        BY <3>1, <3>2, <3>3, EnclosesSame
      <3> QED
        BY <2>4, <3>4
    <2>7. CASE /\ job.prog[pc].op = "lookahead"
               /\ Out.pc = pc + 1
               /\ Out.alt = pc + 1 + job.prog[pc].off
               /\ Out.type = job.prog[pc].type
      <3>1. SavedBy(job, Ways'[Len(Ways')], pc)
        BY <2>1, <2>4, <2>7 DEF SavedBy
      <3>2. Encloses(job, Ways', Len(Ways') + 1, pc + 1)
        BY <1>2, <2>5, <2>7, <3>1, EnclosesInside
      <3> QED
        BY <2>4, <2>7, <3>2
    <2> QED
      BY <2>2, <2>6, <2>7
  <1> QED
    BY <1>1, <1>2, <1>6, <1>7

\* The last way is taken, or dropped with the assertion it belongs to.
LEMMA LeaveNested ==
  ASSUME Inv, Nested, Search!TakeNextWay \/ Search!LeaveLookahead \/ Search!LeaveNegative
  PROVE  Nested'
  <1> DEFINE last == Ways[Len(Ways)]
  <1>1. /\ Ways # <<>> /\ job' = job
        /\ Ways' = SubSeq(Ways, 1, Len(Ways) - 1)
    BY DEF Search!TakeNextWay, Search!LeaveLookahead, Search!LeaveNegative, Search!Earlier
  <1>2. PICK W : Ways \in Seq(W)
    BY InvFacts, WaysAreSeq
  <1>3. /\ AllEnclosed(job, Ways')
        /\ Encloses(job, Ways', Len(Ways') + 1, last.pc)
        /\ \A m \in AssertionTypes : Ending(Ways, m) /\ last.type # m => Ending(Ways', m)
    BY <1>1, <1>2, DropNested DEF Nested, NestedAt
  <1>4. \/ mode' = "no_match"
        \/ mode' = "run" /\ Here'.pc = last.pc
        \/ mode' = mode /\ mode \in AssertionTypes /\ last.type # mode
    BY DEF Search!TakeNextWay, Search!LeaveLookahead, Search!LeaveNegative, Search!Last,
           Search!At, AssertionTypes
  <1>5. mode \in AssertionTypes => Ending(Ways, mode)
    BY DEF Nested, NestedAt
  <1> HIDE DEF last
  <1> QED
    BY <1>1, <1>3, <1>4, <1>5 DEF Nested, NestedAt, AssertionTypes

\* A way ends: with an assertion, with the pattern or with nothing.
LEMMA EndNested ==
  ASSUME Inv, Nested,
         \/ Search!GiveUp \/ Search!NoWayLeft \/ Search!EndLookahead
         \/ Search!EndNegative \/ Search!Finish \/ Search!RunOut
  PROVE  Nested'
  <1>1. Ways' = Ways /\ job' = job /\ AllEnclosed(job, Ways)
    BY DEF Nested, NestedAt, Search!GiveUp, Search!NoWayLeft, Search!EndLookahead,
           Search!EndNegative, Search!Finish, Search!RunOut
  <1>2. CASE mode' \in {"no_match", "fail", "memory_error"}
    BY <1>1, <1>2 DEF Nested, NestedAt, AssertionTypes
  <1>3. CASE /\ mode = "run" /\ Search!Out.to = mode'
             /\ mode' \in {"lookahead", "negative", "match"}
    <2>1. /\ JobOK(job) /\ pc \in DOMAIN job.prog /\ Here.pc = pc
          /\ Out.to = mode'
          /\ Nests(job, pc, Out)
      BY <1>3, NestedHere
    <2>2. Encloses(job, Ways, Len(Ways) + 1, pc) /\ Len(Ways) \in Nat
      <3>1. PICK W : Ways \in Seq(W)
        BY InvFacts, WaysAreSeq
      <3> QED
        BY <1>3, <2>1, <3>1 DEF Nested, NestedAt
    <2>3. \/ job.prog[pc].op = "assertion_end" /\ mode' = job.prog[pc].type
          \/ job.prog[pc].op = "match" /\ mode' = "match"
      BY <1>3, <2>1 DEF Nests, StaysIn
    <2>4. CASE job.prog[pc].op = "assertion_end" /\ mode' = job.prog[pc].type
      <3>1. Ending(Ways, mode') /\ mode' \in AssertionTypes
        BY <2>1, <2>2, <2>4, EndsInnermost, NestingFacts DEF InstructionOK
      <3> QED
        BY <1>1, <3>1 DEF Nested, NestedAt, AssertionTypes
    <2>5. CASE job.prog[pc].op = "match" /\ mode' = "match"
      <3>1. \A k \in 1..Len(Ways) : Ways[k].type = "split"
        BY <2>1, <2>2, <2>5, MatchOutside
      <3> QED
        BY <1>1, <2>5, <3>1 DEF Nested, NestedAt, AssertionTypes
    <2> QED
      BY <2>3, <2>4, <2>5
  <1> QED
    BY <1>2, <1>3 DEF Search!GiveUp, Search!NoWayLeft, Search!EndLookahead,
                      Search!EndNegative, Search!Finish, Search!RunOut

LEMMA NestedStep == Inv /\ Nested /\ [Search!Next]_(Search!vars) => Nested'
  <1>1. Inv /\ Nested /\ UNCHANGED Search!vars => Nested'
    BY DEF Search!vars, Nested
  <1> QED
    BY <1>1, FollowNested, LeaveNested, EndNested DEF Search!Next

\* When every way is a split's, so is every saved state.
LEMMA MatchClosed == Inv /\ Nested => AssertionsClosed
  <1> SUFFICES ASSUME Inv, Nested, mode = "match", NEW k \in 1..Len(stack), IsSaved(k)
               PROVE  stack[k].type = "split"
    BY DEF AssertionsClosed
  <1> DEFINE S == SavedAt(stack)
             n == Rank(S, k)
  <1>1. S \in SUBSET Nat /\ IsFiniteSet(S) /\ k \in S
    BY InvFacts, SavedAtNat DEF SavedAt, IsSaved, Saved
  <1>2. S = SavedIndices
    BY DEF SavedIndices, SavedAt, IsSaved, Saved
  <1>3. n \in 1..Cardinality(S)
    <2> HIDE DEF S
    <2> QED
      BY <1>1, RankFacts
  <1>4. Nth(S, n) = k
    <2> HIDE DEF S
    <2>1. Nth(S, n) \in S /\ Rank(S, Nth(S, n)) = n
      BY <1>1, <1>3, NthIs
    <2>2. Rank(S, k) = n
      OBVIOUS
    <2> HIDE DEF n
    <2> QED
      BY <1>1, <2>1, <2>2, RankUnique
  <1>5. Len(Ways) = Cardinality(S) /\ Ways[n] = WayAt(k)
    <2>1. Ways = [i \in 1..Cardinality(S) |-> WayAt(Nth(S, i))]
      BY <1>2 DEF Ways
    <2>2. Ways = InOrder(S, WayOf)
      BY InvFacts, WaysInOrder
    <2> HIDE DEF S, n
    <2>3. Len(Ways) = Cardinality(S)
      <3>1. \A i \in S : WayOf[i] \in {WayOf[h] : h \in S}
        OBVIOUS
      <3> QED
        BY <1>1, <2>2, <3>1, InOrderIsSeq
    <2> QED
      BY <1>3, <1>4, <2>1, <2>3
  <1> HIDE DEF S, n
  <1>6. Ways[n].type = "split"
    BY <1>3, <1>5 DEF Nested, NestedAt
  <1> QED
    BY <1>5, <1>6 DEF WayAt

\* When lre_exec_backtrack has a match, no saved state of a lookahead is on the stack:
\* the program ends every assertion it starts, and ending one takes its state and all
\* that was saved inside of it.
THEOREM AssertionsAreClosed == Spec => []AssertionsClosed
  <1>1. Inv /\ Inv' /\ Nested /\ [Next]_vars => Nested'
    BY StepSearches, NestedStep
  <1> QED
    BY <1>1, NestedInit, MatchClosed, Invariance, PTL DEF Spec
================================================================================
