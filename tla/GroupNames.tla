------------------------------- MODULE GroupNames -------------------------------
(***************************************************************************)
(* The names of groups while a pattern is compiled.  The parser appends a  *)
(* record to the buffer group_names for every group it opens: the name,    *)
(* which is empty for an unnamed group, a terminating zero, and the scope, *)
(* which counts the alternatives begun so far.  A name may be used again   *)
(* in another scope.  A reference \k<name> is resolved to the numbers of   *)
(* the groups of that name.                                                *)
(*                                                                         *)
(* Of a pattern only what touches the names is kept: a sequence of opening *)
(* parentheses, alternative bars and references, in the order of the text. *)
(***************************************************************************)
EXTENDS Integers, Sequences, FiniteSets

CONSTANTS
  Names,               \* the names a group may have, as sequences of bytes
  Patterns,            \* the patterns that may be compiled
  CAPTURE_COUNT_MAX    \* the number of groups that is too many (255)

Open(name) == [t |-> "open", name |-> name]
Bar == [t |-> "bar"]
Ref(name) == [t |-> "ref", name |-> name]
Unnamed == <<>>

Letters == 33..255     \* the bytes of a name; a scope is any byte

ASSUME NamesAssumption ==
  /\ CAPTURE_COUNT_MAX \in Nat
  /\ CAPTURE_COUNT_MAX > 1
  /\ \A name \in Names : name \in Seq(Letters) /\ name # Unnamed

ASSUME PatternsAssumption ==
  \A pat \in Patterns :
    /\ pat.tokens \in Seq({Open(name) : name \in Names \cup {Unnamed}} \cup {Bar}
                            \cup {Ref(name) : name \in Names})
    /\ pat.unicode \in BOOLEAN
    /\ pat.n \in BOOLEAN

VARIABLES
  pattern,         \* [tokens, unicode, n], of which n is the flag of that letter
  at,              \* the tokens read
  scope,           \* group_name_scope, a uint8_t
  capture_count,   \* the groups opened, and the whole match
  group_names,     \* the bytes of the records
  refs,            \* for each token that is a reference what it was resolved to
  status           \* "parse", "error", "compiled", and what exec makes of it

parseVars == <<pattern, at, scope, capture_count, group_names, refs, status>>

InitParse ==
  /\ pattern \in Patterns
  /\ at = 0
  /\ scope = 0
  /\ capture_count = 1
  /\ group_names = <<>>
  /\ refs = <<>>
  /\ status = "parse"

--------------------------------------------------------------------------------
(***************************************************************************)
(* Strings and records in a buffer of bytes.                               *)
(***************************************************************************)
\* where the string that begins at p ends: its terminating zero
StrEnd(buf, p) == CHOOSE e \in p..Len(buf) : buf[e] = 0 /\ \A x \in p..(e - 1) : buf[x] # 0
CString(buf, p) == SubSeq(buf, p, StrEnd(buf, p) - 1)

LRE_GROUP_NAME_TRAILER_LEN == 2

\* the steps of a loop over the records, as far as they are inside the buffer
PastRecord(buf, p) == p + Len(CString(buf, p)) + LRE_GROUP_NAME_TRAILER_LEN

RecordStart(buf) ==
  LET start[k \in 0..Len(buf)] ==
        IF k = 0 THEN 1
        ELSE IF start[k - 1] > Len(buf) THEN start[k - 1] ELSE PastRecord(buf, start[k - 1])
  IN start

find_group_name_FromZero(buf, name) ==
  LET start == RecordStart(buf)
  IN {k \in 0..(Len(buf) - 1) : start[k] <= Len(buf) /\ CString(buf, start[k]) = name}

\* the numbers of the groups of a name
find_group_name(buf, name) ==
  LET start == RecordStart(buf)
  IN {k \in 1..Len(buf) : start[k - 1] <= Len(buf) /\ CString(buf, start[k - 1]) = name}

is_duplicate_group_name_ZeroByte(buf, name, s) ==
  \E k \in find_group_name(buf, name) : buf[StrEnd(buf, RecordStart(buf)[k - 1])] = s

is_duplicate_group_name(buf, name, s) ==
  \E k \in find_group_name(buf, name) : buf[StrEnd(buf, RecordStart(buf)[k - 1]) + 1] = s

Record_NoUnnamed(name, s) == IF name = Unnamed THEN <<>> ELSE name \o <<0, s>>
Record(name, s) == name \o <<0, IF name = Unnamed THEN 0 ELSE s>>

--------------------------------------------------------------------------------
(***************************************************************************)
(* The whole text, as re_parse_captures scans it.                          *)
(***************************************************************************)
IsOpen(token) == token.t = "open"

\* the number of the last group that is opened by token j or before
Number(tokens, j) == Cardinality({h \in 1..j : IsOpen(tokens[h])})

\* the tokens of the groups it gets to see: it stops when there are too many
Scanned(tokens) ==
  {j \in DOMAIN tokens : IsOpen(tokens[j]) /\ Number(tokens, j) < CAPTURE_COUNT_MAX}

re_parse_captures_NamedOnly(tokens, name) ==
  {Cardinality({h \in Scanned(tokens) : h <= j /\ tokens[h].name # Unnamed}) :
     j \in {h \in Scanned(tokens) : tokens[h].name = name}}

re_parse_captures(tokens, name) ==
  {Number(tokens, j) : j \in {h \in Scanned(tokens) : tokens[h].name = name}}

re_has_named_captures(tokens) == \E j \in Scanned(tokens) : tokens[j].name # Unnamed

--------------------------------------------------------------------------------
(***************************************************************************)
(* The tokens.                                                             *)
(***************************************************************************)
Token == pattern.tokens[at + 1]
Reading(t) == status = "parse" /\ at < Len(pattern.tokens) /\ Token.t = t

TooMany_OneMore == capture_count > CAPTURE_COUNT_MAX
TooMany == capture_count >= CAPTURE_COUNT_MAX

Refused ==
  /\ status' = "error"
  /\ UNCHANGED <<pattern, at, scope, capture_count, group_names, refs>>

DuplicateName ==
  /\ Reading("open")
  /\ Token.name # Unnamed
  /\ is_duplicate_group_name(group_names, Token.name, scope)
  /\ Refused

OpenGroup ==
  /\ Reading("open")
  /\ Token.name # Unnamed => ~is_duplicate_group_name(group_names, Token.name, scope)
  /\ group_names' = group_names \o Record(Token.name, scope)
  /\ \/ /\ TooMany
        /\ status' = "error"
        /\ UNCHANGED <<at, capture_count>>
     \/ /\ ~TooMany
        /\ capture_count' = capture_count + 1
        /\ at' = at + 1
        /\ UNCHANGED status
  /\ UNCHANGED <<pattern, scope, refs>>

NextAlternative ==
  /\ Reading("bar")
  /\ scope' = (scope + 1) % 256
  /\ at' = at + 1
  /\ UNCHANGED <<pattern, capture_count, group_names, refs, status>>

\* \k<name>: the groups of that name seen so far, or else those of the whole
\* text.  Without any it is an error or, in old patterns without names, text.
Resolved ==
  LET before == find_group_name(group_names, Token.name)
  IN IF before # {} THEN before ELSE re_parse_captures(pattern.tokens, Token.name)

Reference ==
  /\ Reading("ref")
  /\ Resolved # {}
  /\ refs' = Append(refs, [at |-> at + 1, name |-> Token.name, groups |-> Resolved])
  /\ at' = at + 1
  /\ UNCHANGED <<pattern, scope, capture_count, group_names, status>>

UndefinedName ==
  /\ Reading("ref")
  /\ Resolved = {}
  /\ \/ /\ pattern.unicode \/ re_has_named_captures(pattern.tokens)
        /\ Refused
     \/ /\ ~(pattern.unicode \/ re_has_named_captures(pattern.tokens))
        /\ at' = at + 1
        /\ UNCHANGED <<pattern, scope, capture_count, group_names, refs, status>>

\* lre_compile keeps the buffer when it holds more than the trailers.
NamesWritten == Len(group_names) > (capture_count - 1) * LRE_GROUP_NAME_TRAILER_LEN

Compiled ==
  /\ status = "parse"
  /\ at = Len(pattern.tokens)
  /\ status' = "compiled"
  /\ group_names' = IF NamesWritten THEN group_names ELSE <<>>
  /\ UNCHANGED <<pattern, at, scope, capture_count, refs>>

Parse ==
  DuplicateName \/ OpenGroup \/ NextAlternative \/ Reference \/ UndefinedName \/ Compiled

--------------------------------------------------------------------------------
(***************************************************************************)
(* Properties.  Groups are the ones the pattern declares.                  *)
(***************************************************************************)
GroupTokens == {j \in 1..at : IsOpen(pattern.tokens[j])}
NumbersOf(name) ==
  {Number(pattern.tokens, j) : j \in {h \in GroupTokens : pattern.tokens[h].name = name}}
SetOf(s) == {s[k] : k \in DOMAIN s}

\* The records are found again: a name is looked up as exactly the groups that
\* were opened with it, whatever names, bars and unnamed groups lie between.
\* (find_group_name)
LookupExact ==
  status = "parse" =>
    \A name \in Names : find_group_name(group_names, name) = NumbersOf(name)

\* Two groups of one name are in different alternatives: a bar was read between
\* them.  (is_duplicate_group_name)
OneNamePerScope ==
  \A j, k \in 1..at :
    LET t == pattern.tokens
    IN j < k /\ IsOpen(t[j]) /\ IsOpen(t[k]) /\ t[j].name = t[k].name /\ t[j].name # Unnamed =>
         \E b \in (j + 1)..(k - 1) : t[b] = Bar

\* A reference \k<name> of a compiled pattern names groups that exist and have that
\* name, also when they were found by the scan of the whole text.  (re_parse_term)
ReferencesNamed ==
  status = "compiled" =>
    \A r \in SetOf(refs) : r.groups # {} /\ r.groups \subseteq NumbersOf(r.name)
================================================================================
