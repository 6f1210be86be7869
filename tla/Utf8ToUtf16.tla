---------------------------- MODULE Utf8ToUtf16 ----------------------------
(***************************************************************************)
(* utf8_to_utf16 (jsregexp.c): the loop that decodes a non-ASCII Lua       *)
(* string into UTF-16 and fills the two index tables by which regexp_exec  *)
(* translates between byte positions (last_index, index, indices) and the  *)
(* code units lre_exec works on.  jsstring_new runs it.                    *)
(*                                                                         *)
(* An input is its length n in bytes and, for each byte position, the      *)
(* number of bytes unicode_from_utf8 consumes there: 0 where it returns    *)
(* -1.  Strings with an embedded NUL are left out: the loop would stop     *)
(* there while n counts on.                                                *)
(***************************************************************************)
EXTENDS Naturals

CONSTANT Inputs

\* unicode_from_utf8 never consumes the terminating NUL.
ASSUME InputsAssumption ==
  \A i \in Inputs :
    /\ i.n \in Nat
    /\ i.width \in [0..(i.n - 1) -> 0..4]
    /\ \A p \in 0..(i.n - 1) : p + i.width[p] <= i.n

VARIABLES
  input,    \* the string being converted
  pos,      \* pos - input, the byte position
  q,        \* q - str, the number of code units written
  indices,  \* unit -> byte, calloc'ed
  rev,      \* byte -> unit, calloc'ed
  status    \* "loop", then "wide", "narrow" or "malformed"

vars == <<input, pos, q, indices, rev, status>>

Zeroed == [x \in 0..input.n |-> 0]

Init ==
  /\ input \in Inputs
  /\ pos = 0 /\ q = 0
  /\ indices = Zeroed /\ rev = Zeroed
  /\ status = "start"

-----------------------------------------------------------------------------
\* utf8_contains_non_ascii
ContainsNonAscii == \E p \in 0..(input.n - 1) : input.width[p] # 1

\* An ASCII string is kept as it is.
StayNarrow ==
  /\ status = "start" /\ ~ContainsNonAscii
  /\ status' = "narrow"
  /\ UNCHANGED <<input, pos, q, indices, rev>>

BeginLoop ==
  /\ status = "start" /\ ContainsNonAscii
  /\ status' = "loop"
  /\ UNCHANGED <<input, pos, q, indices, rev>>

RecordStart_NoRev ==
  /\ indices' = [indices EXCEPT ![q] = pos]
  /\ UNCHANGED rev

\* The two stores at the head of every iteration.
RecordStart ==
  /\ indices' = [indices EXCEPT ![q] = pos]
  /\ rev' = [rev EXCEPT ![pos] = q]

\* A character of the Basic Multilingual Plane is one unit.
DecodeBmp ==
  /\ status = "loop" /\ pos < input.n
  /\ input.width[pos] \in 1..3
  /\ RecordStart
  /\ pos' = pos + input.width[pos]
  /\ q' = q + 1
  /\ UNCHANGED <<input, status>>

DecodePair_OneUnit ==
  /\ status = "loop" /\ pos < input.n
  /\ input.width[pos] = 4
  /\ RecordStart
  /\ pos' = pos + 4
  /\ q' = q + 1
  /\ UNCHANGED <<input, status>>

\* Any other character is a surrogate pair: only the first of its units gets
\* an entry in indices.
DecodePair ==
  /\ status = "loop" /\ pos < input.n
  /\ input.width[pos] = 4
  /\ RecordStart
  /\ pos' = pos + 4
  /\ q' = q + 2
  /\ UNCHANGED <<input, status>>

Malformed_Retried ==
  /\ status = "loop" /\ pos < input.n
  /\ input.width[pos] = 0
  /\ RecordStart
  /\ UNCHANGED <<input, pos, q, status>>

\* NULL is returned and everything freed; jsstring_new raises an error.
Malformed ==
  /\ status = "loop" /\ pos < input.n
  /\ input.width[pos] = 0
  /\ RecordStart
  /\ status' = "malformed"
  /\ UNCHANGED <<input, pos, q>>

Finish_Swapped ==
  /\ status = "loop" /\ pos = input.n
  /\ indices' = [indices EXCEPT ![q] = q]
  /\ rev' = [rev EXCEPT ![input.n] = input.n]
  /\ status' = "wide"
  /\ UNCHANGED <<input, pos, q>>

\* The entries for the end of the string.
Finish ==
  /\ status = "loop" /\ pos = input.n
  /\ indices' = [indices EXCEPT ![q] = input.n]
  /\ rev' = [rev EXCEPT ![input.n] = q]
  /\ status' = "wide"
  /\ UNCHANGED <<input, pos, q>>

Next == StayNarrow \/ BeginLoop \/ DecodeBmp \/ DecodePair \/ Malformed \/ Finish

Spec == Init /\ [][Next]_vars /\ WF_vars(Next)

-----------------------------------------------------------------------------
TypeOK ==
  /\ pos \in 0..input.n
  /\ q \in 0..input.n
  /\ indices \in [0..input.n -> 0..input.n]
  /\ rev \in [0..input.n -> 0..input.n]
  /\ status \in {"start", "loop", "narrow", "wide", "malformed"}

\* The tables are inverse to each other: following indices from a unit that has
\* an entry and rev back gives that unit, and the other way round for a byte at
\* which a character starts.  So a capture translated to bytes and used as the
\* next last_index resumes at the unit where it ended.  The last entries are
\* the ends of both strings.
TablesInverse ==
  status = "wide" =>
    /\ \A u \in 0..q : u = 0 \/ indices[u] # 0 => rev[indices[u]] = u
    /\ \A p \in 0..input.n : p = 0 \/ rev[p] # 0 => indices[rev[p]] = p
    /\ indices[q] = input.n /\ rev[input.n] = q

\* Later units of a match never translate to earlier bytes, as long as the
\* later one is not the middle of a surrogate pair.
IndicesIncrease ==
  status = "wide" =>
    \A u, v \in 0..q : u < v /\ indices[v] # 0 => indices[u] < indices[v]

\* The conversion of every string comes to an end.
Converts == <>(status \in {"narrow", "wide", "malformed"})
=============================================================================
