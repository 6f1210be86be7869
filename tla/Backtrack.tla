------------------------------- MODULE Backtrack -------------------------------
(***************************************************************************)
(* lre_exec_backtrack: the interpreter of the bytecode.  It keeps one      *)
(* capture[] array and one stack.  Before a slot of capture[] changes, its *)
(* old value is pushed (an undo entry, two words); where the program can   *)
(* go two ways, the other way is pushed (a saved state, three words, that  *)
(* links to the saved state below it).  When a way fails the undo entries  *)
(* above the last saved state are popped into capture[] and that state is  *)
(* resumed.                                                                *)
(*                                                                         *)
(* A step is one instruction, or one turn of the loops behind the labels   *)
(* no_match, lookahead_match and negative_lookahead_match.  The stack is a *)
(* sequence of entries; sp counts its words and size the words allocated.  *)
(* bp is the index of the last saved state, 0 when there is none.          *)
(* The time limit is left out: lre_check_timeout never fires here.         *)
(***************************************************************************)
EXTENDS ReOpcodes, FiniteSets

CONSTANTS Jobs,          \* the programs and subjects that may be run
          StaticWords    \* the words of static_stack_buf

ASSUME JobsAssumption ==
  /\ \A j \in Jobs : JobOK(j)
  /\ StaticWords \in Nat
  /\ StaticWords >= 4

VARIABLES job,       \* what is run
          pc,        \* the next instruction
          cptr,      \* the position in the subject
          capture,   \* the slots of the groups, then the registers
          stack,     \* undo entries and saved states
          sp,        \* the words on the stack
          bp,        \* the index of the last saved state
          size,      \* the words allocated for the stack
          mode       \* what the interpreter is doing

vars == <<job, pc, cptr, capture, stack, sp, bp, size, mode>>

Stopped == {"match", "fail", "memory_error"}
Modes == {"run", "no_match", "lookahead", "negative"} \cup Stopped
Types == {"split", "lookahead", "negative"}

Undo(slot, val) == [kind |-> "undo", slot |-> slot, val |-> val]
SavedState(p, c, b, type) == [kind |-> "saved", pc |-> p, cptr |-> c, bp |-> b, type |-> type]

UndoWords == 2
SavedWords == 3

Init ==
  /\ job \in Jobs
  /\ pc = 1
  /\ cptr = StartPosition(job)
  /\ capture = NoCaptures(job)
  /\ stack = <<>>
  /\ sp = 0
  /\ bp = 0
  /\ size = StaticWords
  /\ mode = "run"

--------------------------------------------------------------------------------
(***************************************************************************)
(* One instruction.                                                        *)
(***************************************************************************)
Out == Effect(job, pc, cptr, capture)

\* capture[] once the writes of an instruction are done
Stored(cap, writes) ==
  [x \in DOMAIN cap |->
     IF \E i \in DOMAIN writes : writes[i].slot = x
     THEN writes[CHOOSE i \in DOMAIN writes : writes[i].slot = x].val
     ELSE cap[x]]

IsSaved(k) == stack[k].kind = "saved"

SavedSinceBranch_Anywhere(slot) ==
  \E k \in 1..Len(stack) : ~IsSaved(k) /\ stack[k].slot = slot

SavedSinceBranch(slot) ==
  \E k \in (bp + 1)..Len(stack) : stack[k].slot = slot

\* SAVE_CAPTURE, and SAVE_CAPTURE_CHECK that skips what is saved already
UndoInfo(writes, check) ==
  IF check /\ SavedSinceBranch(writes[1].slot) THEN <<>>
  ELSE [i \in DOMAIN writes |-> Undo(writes[i].slot, capture[writes[i].slot])]

\* CHECK_STACK_SPACE and stack_realloc
Grown(words, need) ==
  IF need <= words THEN words
  ELSE IF (3 * words) \div 2 < need THEN need ELSE (3 * words) \div 2

\* the words allocated once undo is pushed, one SAVE_CAPTURE after the other:
\* save_reset makes room for half of its entries first, and after that growing by
\* half twice makes room for all of them
SizeWith(undo) ==
  LET top == sp + UndoWords * Len(undo)
      half == Grown(size, sp + Len(undo))
  IN Grown(IF top <= half THEN half ELSE (3 * half) \div 2, top)

SizeAfter_OneCheck(undo, saved) == SizeWith(undo)

SizeAfter(undo, saved) ==
  IF saved = <<>> THEN SizeWith(undo)
  ELSE Grown(SizeWith(undo), sp + UndoWords * Len(undo) + SavedWords * Len(saved))

\* write what the instruction writes, then push saved on the stack
Store(saved) ==
  LET undo == UndoInfo(Out.writes, Out.check) IN
  /\ capture' = Stored(capture, Out.writes)
  /\ stack' = (stack \o undo) \o saved
  /\ sp' = sp + UndoWords * Len(undo) + SavedWords * Len(saved)
  /\ size' = SizeAfter(undo, saved)

Continue ==
  /\ mode = "run"
  /\ Out.to = "run"
  /\ Store(<<>>)
  /\ pc' = Out.pc
  /\ cptr' = Out.cptr
  /\ UNCHANGED <<job, bp, mode>>

TakeBranch_LinkTop ==
  /\ mode = "run"
  /\ Out.to = "branch"
  /\ Store(<<SavedState(Out.alt, Out.cptr, Len(stack), Out.type)>>)
  /\ pc' = Out.pc
  /\ cptr' = Out.cptr
  /\ bp' = Len(stack')
  /\ UNCHANGED <<job, mode>>

\* a split or the start of an assertion: keep the other way for later
TakeBranch ==
  /\ mode = "run"
  /\ Out.to = "branch"
  /\ Store(<<SavedState(Out.alt, Out.cptr, bp, Out.type)>>)
  /\ pc' = Out.pc
  /\ cptr' = Out.cptr
  /\ bp' = Len(stack')
  /\ UNCHANGED <<job, mode>>

Mismatch ==
  /\ mode = "run"
  /\ Out.to = "no_match"
  /\ Store(<<>>)
  /\ mode' = "no_match"
  /\ UNCHANGED <<job, pc, cptr, bp>>

EndAssertion ==
  /\ mode = "run"
  /\ Out.to \in {"lookahead", "negative"}
  /\ mode' = Out.to
  /\ UNCHANGED <<job, pc, cptr, capture, stack, sp, bp, size>>

EndMatch ==
  /\ mode = "run"
  /\ Out.to = "match"
  /\ mode' = "match"
  /\ UNCHANGED <<job, pc, cptr, capture, stack, sp, bp, size>>

\* the stack has to grow and cannot
OutOfMemory ==
  /\ mode = "run"
  /\ LET undo == UndoInfo(Out.writes, Out.check)
         words == UndoWords * Len(undo) + (IF Out.to = "branch" THEN SavedWords ELSE 0)
     IN sp + words > size
  /\ mode' = "memory_error"
  /\ UNCHANGED <<job, pc, cptr, capture, stack, sp, bp, size>>

--------------------------------------------------------------------------------
(***************************************************************************)
(* Backtracking.                                                           *)
(***************************************************************************)
Top == stack[Len(stack)]
Popped == SubSeq(stack, 1, Len(stack) - 1)

\* undo one modification of capture[]
UndoTop ==
  /\ mode \in {"no_match", "negative"}
  /\ bp # 0
  /\ Len(stack) > bp
  /\ capture' = [capture EXCEPT ![Top.slot] = Top.val]
  /\ stack' = Popped
  /\ sp' = sp - UndoWords
  /\ UNCHANGED <<job, pc, cptr, bp, size, mode>>

Exhausted ==
  /\ mode = "no_match"
  /\ bp = 0
  /\ mode' = "fail"
  /\ UNCHANGED <<job, pc, cptr, capture, stack, sp, bp, size>>

\* the position and the link of a saved state
Restore(saved) ==
  /\ pc' = saved.pc
  /\ cptr' = saved.cptr
  /\ bp' = saved.bp

Resume_Unpopped ==
  /\ mode = "no_match"
  /\ bp # 0
  /\ Len(stack) = bp
  /\ pc' = Top.pc
  /\ cptr' = Top.cptr
  /\ mode' = IF Top.type = "lookahead" THEN "no_match" ELSE "run"
  /\ UNCHANGED <<job, capture, stack, sp, bp, size>>

\* resume the last saved state; a lookahead that found nothing fails as well
Resume ==
  /\ mode = "no_match"
  /\ bp # 0
  /\ Len(stack) = bp
  /\ Restore(Top)
  /\ stack' = Popped
  /\ sp' = sp - SavedWords
  /\ mode' = IF Top.type = "lookahead" THEN "no_match" ELSE "run"
  /\ UNCHANGED <<job, capture, size>>

\* the inside of a negative lookahead matched: drop its saved states, undo what
\* it captured and fail
PopNegative ==
  /\ mode = "negative"
  /\ bp # 0
  /\ Len(stack) = bp
  /\ Restore(Top)
  /\ stack' = Popped
  /\ sp' = sp - SavedWords
  /\ mode' = IF Top.type = "negative" THEN "no_match" ELSE "negative"
  /\ UNCHANGED <<job, capture, size>>

TakenOut_DropUndo(b, type) == SubSeq(stack, 1, b - 1)

\* the entries that stay when the saved state at b is taken out: the undo
\* entries above it are kept, unless nothing is left to go back to
TakenOut(b, type) ==
  IF b = 1 /\ type = "lookahead" THEN <<>>
  ELSE SubSeq(stack, 1, b - 1) \o SubSeq(stack, b + 1, Len(stack))

PopLookahead_KeepStates ==
  /\ mode = "lookahead"
  /\ \E b \in 1..bp :
       /\ IsSaved(b) /\ stack[b].type = "lookahead"
       /\ \A k \in (b + 1)..bp : IsSaved(k) => stack[k].type # "lookahead"
       /\ pc' = stack[b].pc
       /\ cptr' = stack[b].cptr
  /\ mode' = "run"
  /\ UNCHANGED <<job, capture, stack, sp, bp, size>>

\* the inside of a lookahead matched: drop its saved states, keep its captures
\* and their undo entries, and go on behind the lookahead
PopLookahead ==
  /\ mode = "lookahead"
  /\ bp # 0
  /\ Restore(stack[bp])
  /\ stack' = TakenOut(bp, stack[bp].type)
  /\ sp' = IF stack' = <<>> THEN 0 ELSE sp - SavedWords
  /\ mode' = IF stack[bp].type = "lookahead" THEN "run" ELSE "lookahead"
  /\ UNCHANGED <<job, capture, size>>

Returned ==
  /\ mode \in Stopped
  /\ UNCHANGED vars

Next ==
  \/ Continue \/ TakeBranch \/ Mismatch \/ EndAssertion \/ EndMatch \/ OutOfMemory
  \/ UndoTop \/ Exhausted \/ Resume \/ PopNegative \/ PopLookahead
  \/ Returned

Spec == Init /\ [][Next]_vars /\ WF_vars(Next)

--------------------------------------------------------------------------------
(***************************************************************************)
(* Properties.                                                             *)
(***************************************************************************)
UndoEntries(j) == [kind : {"undo"}, slot : Slots(j), val : Int]
SavedStates(j) ==
  [kind : {"saved"}, pc : DOMAIN j.prog, cptr : Positions(j), bp : Nat, type : Types]

\* The types of the interpreter's state: pc and every saved pc is an instruction
\* of the program, cptr and every saved position is inside the subject, and every
\* undo entry names a slot of capture[].
TypeOK ==
  /\ pc \in DOMAIN job.prog
  /\ cptr \in Positions(job)
  /\ capture \in [Slots(job) -> Int]
  /\ stack \in Seq(UndoEntries(job) \cup SavedStates(job))
  /\ bp \in 0..Len(stack)
  /\ sp \in Nat
  /\ size \in Nat
  /\ mode \in Modes

\* b is the last saved state below the entry k, 0 when there is none
LastSavedBelow(k, b) ==
  /\ b = 0 \/ (b \in 1..(k - 1) /\ IsSaved(b))
  /\ \A i \in 1..(k - 1) : b < i => ~IsSaved(i)

\* bp and the links of the saved states (bp.val) are the chain of all the saved
\* states on the stack, the last one first: nothing but undo entries lies between
\* two of them, which no_match pops as pairs without looking at what they are.
FramesLinked ==
  /\ LastSavedBelow(Len(stack) + 1, bp)
  /\ \A k \in 1..Len(stack) : IsSaved(k) => LastSavedBelow(k, stack[k].bp)

\* CHECK_STACK_SPACE: sp counts what lies on the stack and never passes what
\* stack_realloc allocated.
StackFits ==
  /\ sp = UndoWords * Cardinality({k \in 1..Len(stack) : ~IsSaved(k)})
          + SavedWords * Cardinality({k \in 1..Len(stack) : IsSaved(k)})
  /\ sp <= size

\* A loop counter and a saved position are read (REOP_loop*, REOP_check_advance)
\* only after they were stored on the same way: capture[] beyond the groups is
\* never initialised, and lookaheads and backtracking must not lose the value.
RegistersStored ==
  mode = "run" =>
    LET ins == job.prog[pc] IN
    /\ ins.op \in {"loop", "loop_split", "check_advance"} =>
         capture[Register(job, ins.reg)] # Junk
    /\ ins.op = "loop_split" /\ ins.adv =>
         capture[Register(job, ins.reg) + 1] # Junk

\* When the match ends every assertion is closed: what is left on the stack are
\* ways not taken of the pattern itself, never a way into a lookahead.
AssertionsClosed ==
  mode = "match" => \A k \in 1..Len(stack) : IsSaved(k) => stack[k].type = "split"

(***************************************************************************)
(* The state each saved state stands for: the oldest undo entry of a slot  *)
(* above it holds what the slot was when it was saved.  With this mapping  *)
(* the interpreter does what one that copies capture[] does.               *)
(***************************************************************************)
UndoneAbove(k, x) == {i \in (k + 1)..Len(stack) : ~IsSaved(i) /\ stack[i].slot = x}

CaptureAt(k) ==
  [x \in Slots(job) |->
     IF UndoneAbove(k, x) = {} THEN capture[x]
     ELSE stack[CHOOSE i \in UndoneAbove(k, x) : \A h \in UndoneAbove(k, x) : i <= h].val]

WayAt(k) ==
  [pc |-> stack[k].pc, cptr |-> stack[k].cptr, capture |-> CaptureAt(k), type |-> stack[k].type]

SavedIndices == {k \in 1..Len(stack) : IsSaved(k)}

\* The saved states from the bottom of the stack to the top: the n-th is the one
\* that is the highest of n.
Nth(S, n) == CHOOSE k \in S : Cardinality({i \in S : i <= k}) = n
Ways == [n \in 1..Cardinality(SavedIndices) |-> WayAt(Nth(SavedIndices, n))]

Here ==
  IF mode \in {"no_match", "negative", "fail"} THEN NowhereOf(job)
  ELSE [pc |-> pc, cptr |-> cptr, capture |-> capture]

Search == INSTANCE BacktrackSearch WITH here <- Here, ways <- Ways, doing <- mode

\* lre_exec_backtrack finds what the search with copied captures finds, way by way.
CopiesCaptures == Search!Spec

\* A saved state is resumed with the captures it was saved with: whatever was
\* written in between, with SAVE_CAPTURE, SAVE_CAPTURE_CHECK or inside a lookahead
\* that kept its captures, the states that stay on the stack keep standing for the
\* same captures, and the one that is resumed finds them in capture[].
RestoresCaptures ==
  [][/\ \A k \in 1..Len(stack) :
          IsSaved(k) /\ k <= Len(stack') /\ IsSaved(k)' => CaptureAt(k)' = CaptureAt(k)
     /\ Resume => capture' = CaptureAt(bp)]_vars

\* Every search ends, also when the pattern repeats something empty
\* (check_advance, loop_check_adv).
Ends == <>(mode \in Stopped)
================================================================================
