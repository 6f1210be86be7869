------------------------------- MODULE CharRange -------------------------------
(***************************************************************************)
(* A CharRange and the calls that change it: cr_op1 merges it with a second *)
(* set, cr_invert complements it, cr_add_interval appends to it and cr_copy *)
(* overwrites it (libunicode.c:393-541, libunicode.h:56-92).  Merge and     *)
(* compression are loops over indices into arrays, the compression in       *)
(* place; every realloc may fail.                                           *)
(***************************************************************************)
EXTENDS CodePoints

CONSTANTS Operands,   \* the sets a call may be given
          MaxLen      \* a set of this many points is not added to (a bound)

ASSUME OperandsAssumption == Operands \subseteq Ranges

VARIABLES
  cr,            \* cr->points[0..cr->len)
  size,          \* cr->size, the points there is room for
  a, b,          \* the operands of the call: the old points and the argument
  a_idx, b_idx,  \* how many points of each are merged
  i, j, k,       \* the indices of cr_compress
  merged,        \* the points cr_compress was called with
  op,            \* the last call
  pc             \* where the program is in it

crVars == <<cr, size, a, b, a_idx, b_idx, i, j, k, merged, op, pc>>

SetOps == {"union", "inter", "xor", "sub"}

CR_Init ==
  /\ cr = <<>> /\ size = 0
  /\ a = <<>> /\ b = <<>>
  /\ a_idx = 0 /\ b_idx = 0
  /\ i = 0 /\ j = 0 /\ k = 0
  /\ merged = <<>>
  /\ op = "none" /\ pc = "idle"

\* cr_realloc: the room after asking for n points.
Larger(x, y) == IF x > y THEN x ELSE y
Room(n) == IF n > size THEN Larger(n, (size * 3) \div 2) ELSE size

\* A call that needs room for n points may get none, and gives up as it is.
OutOfMemory(n) ==
  /\ n > size
  /\ pc' = "failed"
  /\ UNCHANGED <<cr, size, a, b, a_idx, b_idx, i, j, k, merged, op>>

--------------------------------------------------------------------------------
(***************************************************************************)
(* The calls.                                                              *)
(***************************************************************************)
Call(name, arg) ==
  /\ op' = name
  /\ a' = cr
  /\ b' = arg

\* The operand of cr_union_interval, a union with the characters c1 to c2.
Interval(c1, c2) == <<c1, c2 + 1>>

\* cr_op1(cr, b, op): the old points become a, and cr starts empty.
CallOp ==
  /\ pc = "idle"
  /\ \E o \in SetOps, s \in Operands : Call(o, s)
  /\ cr' = <<>> /\ size' = 0
  /\ a_idx' = 0 /\ b_idx' = 0
  /\ pc' = "merge"
  /\ UNCHANGED <<i, j, k, merged>>

\* Appends an interval that starts where the set ends or later.
AddInterval ==
  /\ pc = "idle"
  /\ \E s \in Operands :
       /\ Len(s) = 2
       /\ cr # <<>> => cr[Len(cr)] <= s[1]
       /\ Call("add", s)
       /\ cr' = cr \o s
  /\ Len(cr) + 2 <= MaxLen
  /\ size' = Room(Len(cr) + 2)
  /\ pc' = "done"
  /\ UNCHANGED <<a_idx, b_idx, i, j, k, merged>>

Copy ==
  /\ pc = "idle"
  /\ \E s \in Operands : Call("copy", s) /\ cr' = s /\ size' = Room(Len(s))
  /\ pc' = "done"
  /\ UNCHANGED <<a_idx, b_idx, i, j, k, merged>>

Compress(points) == /\ merged' = points
                    /\ i' = 0 /\ j' = 0 /\ k' = 0
                    /\ pc' = "compress"

Inverted_NoFirst(s) == s \o <<UINT32_MAX, UINT32_MAX>>
Inverted(s) == <<0>> \o s \o <<UINT32_MAX>>

Invert ==
  /\ pc = "idle"
  /\ Call("invert", <<>>)
  /\ cr' = Inverted(cr)
  /\ size' = Room(Len(cr) + 2)
  /\ Compress(Inverted(cr))
  /\ UNCHANGED <<a_idx, b_idx>>

CallFails ==
  /\ pc = "idle"
  /\ \E s \in Operands : OutOfMemory(Len(s))
     \/ OutOfMemory(Len(cr) + 2)

--------------------------------------------------------------------------------
(***************************************************************************)
(* cr_op: one more point of a or b, in increasing order; it is kept if it  *)
(* changes whether the characters from it on are in the result.            *)
(***************************************************************************)
Holds(o, p, q) ==
  \/ o = "union" /\ (p \/ q)
  \/ o = "inter" /\ p /\ q
  \/ o = "xor" /\ ~(p <=> q)
  \/ o = "sub" /\ p /\ ~q

\* cr_add_point, when the point is an end or a start of the result
AddPoint_Always(v, na, nb) == cr' = Append(cr, v) /\ size' = Room(Len(cr) + 1)

AddPoint(v, na, nb) ==
  IF Holds(op, Odd(na), Odd(nb)) <=> Odd(Len(cr))
    THEN UNCHANGED <<cr, size>>
    ELSE cr' = Append(cr, v) /\ size' = Room(Len(cr) + 1)

Merging == UNCHANGED <<a, b, i, j, k, merged, op, pc>>

TakeA ==
  /\ pc = "merge" /\ a_idx < Len(a)
  /\ b_idx < Len(b) => a[a_idx + 1] < b[b_idx + 1]
  /\ AddPoint(a[a_idx + 1], a_idx + 1, b_idx)
  /\ a_idx' = a_idx + 1
  /\ UNCHANGED b_idx
  /\ Merging

TakeB ==
  /\ pc = "merge" /\ b_idx < Len(b)
  /\ a_idx < Len(a) => b[b_idx + 1] < a[a_idx + 1]
  /\ AddPoint(b[b_idx + 1], a_idx, b_idx + 1)
  /\ b_idx' = b_idx + 1
  /\ UNCHANGED a_idx
  /\ Merging

TakeBoth ==
  /\ pc = "merge" /\ a_idx < Len(a) /\ b_idx < Len(b)
  /\ a[a_idx + 1] = b[b_idx + 1]
  /\ AddPoint(a[a_idx + 1], a_idx + 1, b_idx + 1)
  /\ a_idx' = a_idx + 1 /\ b_idx' = b_idx + 1
  /\ Merging

\* cr_add_point gets no memory: cr_op returns -1 with what it has so far.
MergeFails == pc = "merge" /\ (a_idx < Len(a) \/ b_idx < Len(b)) /\ OutOfMemory(Len(cr) + 1)

MergeEnds ==
  /\ pc = "merge" /\ a_idx = Len(a) /\ b_idx = Len(b)
  /\ Compress(cr)
  /\ UNCHANGED <<cr, size, a, b, a_idx, b_idx, op>>

--------------------------------------------------------------------------------
(***************************************************************************)
(* cr_compress: copies the intervals down, without the empty ones and with *)
(* those that touch made one.  The points below k are the result, those    *)
(* from i on are still to be read.                                         *)
(***************************************************************************)
Compressing == UNCHANGED <<size, a, b, a_idx, b_idx, merged, op>>

SkipEmpty ==
  /\ pc = "compress" /\ i + 1 < Len(cr)
  /\ cr[i + 1] = cr[i + 2]
  /\ i' = i + 2
  /\ UNCHANGED <<cr, j, k, pc>> /\ Compressing

StartInterval ==
  /\ pc = "compress" /\ i + 1 < Len(cr)
  /\ cr[i + 1] # cr[i + 2]
  /\ j' = i
  /\ pc' = "join"
  /\ UNCHANGED <<cr, i, k>> /\ Compressing

Touches_Never == FALSE
Touches == j + 3 < Len(cr) /\ cr[j + 2] = cr[j + 3]

JoinNext ==
  /\ pc = "join" /\ Touches
  /\ j' = j + 2
  /\ UNCHANGED <<cr, i, k, pc>> /\ Compressing

CopyInterval ==
  /\ pc = "join" /\ ~Touches
  /\ cr' = [cr EXCEPT ![k + 1] = cr[i + 1], ![k + 2] = cr[j + 2]]
  /\ k' = k + 2
  /\ i' = j + 2
  /\ pc' = "compress"
  /\ UNCHANGED j /\ Compressing

CompressEnds ==
  /\ pc = "compress" /\ i + 1 >= Len(cr)
  /\ cr' = SubSeq(cr, 1, k)
  /\ pc' = "done"
  /\ UNCHANGED <<i, j, k>> /\ Compressing

\* The call returns: its operands and its locals are gone.
Return ==
  /\ pc = "done"
  /\ pc' = "idle"
  /\ a' = <<>> /\ b' = <<>>
  /\ a_idx' = 0 /\ b_idx' = 0
  /\ i' = 0 /\ j' = 0 /\ k' = 0
  /\ merged' = <<>>
  /\ op' = "none"
  /\ UNCHANGED <<cr, size>>

CR_Next ==
  \/ Return
  \/ CallOp \/ AddInterval \/ Copy \/ Invert \/ CallFails
  \/ TakeA \/ TakeB \/ TakeBoth \/ MergeFails \/ MergeEnds
  \/ SkipEmpty \/ StartInterval \/ JoinNext \/ CopyInterval \/ CompressEnds

CR_Spec == CR_Init /\ [][CR_Next]_crVars

--------------------------------------------------------------------------------
(***************************************************************************)
(* Properties.                                                             *)
(***************************************************************************)
CR_TypeOK ==
  /\ cr \in Seq(0..UINT32_MAX) /\ size \in Nat
  /\ a \in Ranges /\ b \in Ranges
  /\ a_idx \in 0..Len(a) /\ b_idx \in 0..Len(b)
  /\ i \in Nat /\ j \in Nat /\ k \in Nat
  /\ merged \in Seq(0..UINT32_MAX)
  /\ op \in SetOps \cup {"none", "add", "copy", "invert"}
  /\ pc \in {"idle", "merge", "compress", "join", "done", "failed"}

\* What the last call is to make of its operands.
Denotes(x) ==
  CASE op \in SetOps -> Holds(op, Contains(a, x), Contains(b, x))
    [] op = "invert" -> ~Contains(a, x)
    [] op = "add"    -> Contains(a, x) \/ Contains(b, x)
    [] op = "copy"   -> Contains(b, x)
    [] OTHER         -> FALSE

\* A call that succeeds leaves in cr exactly the characters that the operation
\* makes of its operands, whatever the order of their points, and wherever their
\* intervals touch.  (cr_op, cr_invert, cr_compress)
RangeOpExact ==
  pc = "done" => \A x \in Characters : Contains(cr, x) <=> Denotes(x)

\* After an operation the intervals are not empty, do not touch and are in order,
\* as the lookups by halving and re_emit_range need them; and they are inside the
\* memory cr_realloc got.  (cr_compress, cr_realloc)
ReadyForLookup ==
  /\ Len(cr) <= size
  /\ pc \in {"idle", "done"} => cr \in Ranges
  /\ pc = "done" /\ op \in SetOps \cup {"invert"} => Increasing(cr)
================================================================================
