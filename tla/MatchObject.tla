------------------------------ MODULE MatchObject ------------------------------
(***************************************************************************)
(* The table regexp_exec builds of a match: the groups by number, and the  *)
(* named ones in "groups" and "indices.groups", for which it walks over    *)
(* the names the compiler has left behind the bytecode.                    *)
(*                                                                         *)
(* The tables lie on the stack of Lua, and are filled by their places      *)
(* counted from its top.  Which tables there are depends on the flag d and *)
(* on the names, and so do the places; the stack is modelled as it is, but *)
(* for what a call pushes and pops again by itself.                        *)
(*                                                                         *)
(* What the text and the positions of a group are is left out: a value is  *)
(* the number of the group it was taken from, and whether that group took  *)
(* part in the match.  The positions of one that did not are computed from *)
(* a null pointer.  In a subject of single bytes that gives an empty       *)
(* string; in a wide one it is an index far outside of the table indices,  *)
(* and whatever is read there ("undefined" when nothing can be read).      *)
(***************************************************************************)
EXTENDS GroupNames

VARIABLES
  part,          \* the groups that took part in the match
  wide,          \* is_wide_char of the subject
  has_indices,   \* the flag d
  i,             \* the next group to be pushed
  name_at,       \* the pointer group_names as an index, 0 for NULL
  stack,         \* the tables on the stack of Lua, the top last
  fields,        \* the tables that are fields of others
  entries,       \* the values under numbers, of each table
  named          \* the values under names of groups, of each table

execVars == <<part, wide, has_indices, i, name_at, stack, fields, entries, named>>
vars == <<pattern, at, scope, capture_count, group_names, refs, status,
          part, wide, has_indices, i, name_at, stack, fields, entries, named>>

NULL == 0
Empty == [x \in {} |-> 0]

Tables == {"match", "indices", "groups", "indices.groups"}

Init ==
  /\ InitParse
  /\ part = {} /\ wide = FALSE /\ has_indices = FALSE
  /\ i = 0 /\ name_at = NULL
  /\ stack = <<>> /\ fields = Empty
  /\ entries = [t \in Tables |-> Empty] /\ named = [t \in Tables |-> Empty]

With(table, key, value) ==
  [x \in DOMAIN table \cup {key} |-> IF x = key THEN value ELSE table[x]]

--------------------------------------------------------------------------------
(***************************************************************************)
(* What Lua does to the stack and the fields of the tables on it, lua for  *)
(* short.  Places are negative: -1 is the top.                             *)
(***************************************************************************)
FromTop(s, k) == s[Len(s) + 1 + k]

createtable(lua, table) == [lua EXCEPT !.stack = Append(@, table)]

pushvalue(lua, k) == [lua EXCEPT !.stack = Append(@, FromTop(@, k))]

setfield(lua, k, field) ==
  LET s == lua.stack
  IN  [stack |-> SubSeq(s, 1, Len(s) - 1),
       fields |-> With(lua.fields, <<FromTop(s, k), field>>, FromTop(s, -1))]

\* The top is moved to the place k.
insert(lua, k) ==
  LET s == lua.stack
      place == Len(s) + 1 + k
  IN  [lua EXCEPT !.stack =
         [x \in 1..Len(s) |->
            IF x < place THEN s[x] ELSE IF x = place THEN s[Len(s)] ELSE s[x - 1]]]

--------------------------------------------------------------------------------
(***************************************************************************)
(* The tables below the match, before the groups are pushed.               *)
(***************************************************************************)
\* lre_get_groupnames: behind the bytecode, if the flag says that names are there.
\* The flag n alone sets it too.
HasNames == group_names # <<>> \/ pattern.n

IndicesGroups(lua) ==
  setfield(insert(pushvalue(createtable(lua, "indices.groups"), -1), -4), -2, "groups")

WithIndices(lua) ==
  LET indices == createtable(lua, "indices")
      filled == IF HasNames THEN IndicesGroups(indices) ELSE indices
  IN  insert(setfield(pushvalue(filled, -1), -3, "indices"), -2)

WithGroups(lua) ==
  insert(setfield(pushvalue(createtable(lua, "groups"), -1), -3, "groups"), -2)

Prepared(indexed) ==
  LET match == [stack |-> <<"match">>, fields |-> Empty]
      below == IF indexed THEN WithIndices(match) ELSE match
  IN  IF HasNames THEN WithGroups(below) ELSE below

StartExec ==
  /\ status = "compiled"
  /\ part' \in {{0} \cup S : S \in SUBSET (1..(capture_count - 1))}
  /\ wide' \in BOOLEAN
  /\ has_indices' \in BOOLEAN
  /\ name_at' = IF HasNames THEN 1 ELSE NULL
  /\ stack' = Prepared(has_indices').stack
  /\ fields' = Prepared(has_indices').fields
  /\ status' = "exec"
  /\ UNCHANGED <<pattern, at, scope, capture_count, group_names, refs, i, entries, named>>

--------------------------------------------------------------------------------
(***************************************************************************)
(* The groups.                                                             *)
(***************************************************************************)
NamesHere == i > 0 /\ name_at # NULL

Name(p) == CString(group_names, p)
PastName(p) == p + Len(Name(p)) + 1

\* The text or the positions of the group n.
Of(what, n) == [what |-> what, group |-> n, set |-> n \in part]

\* The table at place k when so many values lie on top of the tables.
TableAt(k, values) == stack[Len(stack) + values + 1 + k]

Put(tables, table, key, value) == [tables EXCEPT ![table] = With(@, key, value)]

\* Where indices lies below the match: groups is between them if there are names.
IndicesPlace_NoGroups == -4
IndicesPlace == IF name_at # NULL THEN -5 ELSE -4

\* The names are read behind the bytecode though none were written there.
NoNames == NamesHere /\ group_names = <<>>

Undefined ==
  /\ status = "exec"
  /\ i < capture_count
  /\ \/ wide /\ i \notin part
     \/ NoNames
  /\ status' = "undefined"
  /\ UNCHANGED <<pattern, at, scope, capture_count, group_names, refs, execVars>>

PushGroup ==
  LET isNamed == NamesHere /\ Name(name_at) # <<>>
      indexed == IF has_indices THEN Put(entries, TableAt(IndicesPlace, 2), i, Of("positions", i))
                                ELSE entries
      indexedNamed == IF has_indices /\ isNamed
                        THEN Put(named, TableAt(-7, 3), Name(name_at), Of("positions", i))
                        ELSE named
  IN  /\ status = "exec"
      /\ i < capture_count
      /\ ~NoNames
      /\ entries' = Put(indexed, TableAt(-2, 1), i, Of("text", i))
      /\ named' = IF isNamed THEN Put(indexedNamed, TableAt(-4, 2), Name(name_at), Of("text", i))
                             ELSE indexedNamed
      /\ name_at' = IF NamesHere THEN PastName(name_at) ELSE name_at
      /\ i' = i + 1
      /\ UNCHANGED <<pattern, at, scope, capture_count, group_names, refs, status,
                     part, wide, has_indices, stack, fields>>

Return ==
  /\ status = "exec"
  /\ i = capture_count
  /\ status' = "done"
  /\ UNCHANGED <<pattern, at, scope, capture_count, group_names, refs, execVars>>

Exec == StartExec \/ Undefined \/ PushGroup \/ Return

Next == (Parse /\ UNCHANGED execVars) \/ Exec

Spec == Init /\ [][Next]_vars

--------------------------------------------------------------------------------
Byte == 0..255
Numbers == 0..(CAPTURE_COUNT_MAX - 1)
Values == [what : {"text", "positions"}, group : Numbers, set : BOOLEAN]

\* The types; in particular a group number is less than CAPTURE_COUNT_MAX, so
\* that it fits capture[] (jsregexp.c:285) and the byte in the header.
TypeOK ==
  /\ at \in 0..Len(pattern.tokens)
  /\ scope \in Byte
  /\ capture_count \in 1..CAPTURE_COUNT_MAX
  /\ group_names \in Seq(Byte)
  /\ status \in {"parse", "error", "compiled", "exec", "undefined", "done"}
  /\ part \subseteq Numbers
  /\ i \in 0..capture_count
  /\ name_at \in Nat
  /\ stack \in Seq(Tables)
  /\ DOMAIN entries = Tables /\ DOMAIN named = Tables
  /\ \A t \in Tables :
       /\ \A n \in DOMAIN entries[t] : entries[t][n] \in Values
       /\ \A name \in DOMAIN named[t] : named[t][name] \in Values

\* The walk reads terminated strings inside the buffer only: when the name of a
\* group is to be read, there is one.  It holds although the walk does not follow
\* the records, since it takes one string for each, and each has a zero.
\* (jsregexp.c:436-447)
InsideNames ==
  status = "exec" /\ NamesHere /\ ~NoNames /\ i < capture_count =>
    \E e \in name_at..Len(group_names) : group_names[e] = 0

Has(table, field) == <<table, field>> \in DOMAIN fields

Returned == FromTop(stack, -1)

Numbered(what) == [n \in 0..(capture_count - 1) |-> Of(what, n)]

\* Whichever tables were on the stack: what is returned has the texts of all groups by
\* number and nothing else, its indices the positions of the same groups, and groups
\* and indices.groups have the same names for the same groups.
\* (jsregexp.c:362-395, 412-450)
IndicesAgree ==
  status = "done" =>
    /\ entries[Returned] = Numbered("text")
    /\ Has(Returned, "indices") <=> has_indices
    /\ Has(Returned, "groups") <=> name_at # NULL
    /\ has_indices =>
         LET indices == fields[<<Returned, "indices">>]
         IN  /\ entries[indices] = Numbered("positions")
             /\ Has(indices, "groups") <=> name_at # NULL
             /\ name_at # NULL =>
                  LET groups == named[fields[<<Returned, "groups">>]]
                      positions == named[fields[<<indices, "groups">>]]
                  IN  /\ DOMAIN positions = DOMAIN groups
                      /\ \A name \in DOMAIN groups :
                           \E n \in Numbers :
                             groups[name] = Of("text", n) /\ positions[name] = Of("positions", n)

DeclaredNames == {pattern.tokens[j].name : j \in GroupTokens} \ {Unnamed}

\* What match.groups should be: every name, with the group of that name that
\* took part if there is one.
NamedRight ==
  LET groups == IF Has(Returned, "groups") THEN named[fields[<<Returned, "groups">>]] ELSE Empty
  IN  /\ DOMAIN groups = DeclaredNames
      /\ \A name \in DeclaredNames :
           /\ groups[name].group \in NumbersOf(name)
           /\ NumbersOf(name) \cap part # {} => groups[name].set

\* "m.groups -- table of the named groups and their content" (README.md)
GroupsNamed == status = "done" => NamedRight
================================================================================
