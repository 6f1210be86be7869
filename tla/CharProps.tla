------------------------------- MODULE CharProps -------------------------------
(***************************************************************************)
(* Is a character cased, ignorable for case, the start of an identifier or *)
(* a part of one (libunicode.c:263-377, 744-759)?  The properties are run  *)
(* lengths; an index says from where to add them up.  Which characters a   *)
(* case conversion changes is asked here too (unicode_case1).              *)
(***************************************************************************)
EXTENDS Integers, Sequences, FiniteSets, CaseConv, PropTables

CONSTANTS Queries   \* questions, characters and, of is_changed, the conversions

Questions == {"is_cased", "is_case_ignorable", "is_id_start", "is_id_continue", "is_changed"}

ASSUME QueriesAssumption == Queries \subseteq Questions \X Nat \X SUBSET Conversions

VARIABLES
  query,              \* the question, the character c and the conversions
  tables,             \* the tables that are still to be asked
  idx_min, idx_max,   \* what is left of the index
  pos, code, bit,     \* the next byte, where its run starts, and its answer
  answer,
  qpc                 \* where the lookup is

propVars == <<query, tables, idx_min, idx_max, pos, code, bit, answer, qpc>>

PropTable ==
  [Cased1 |-> Cased1_table, Case_Ignorable |-> Case_Ignorable_table,
   ID_Start |-> ID_Start_table, ID_Continue1 |-> ID_Continue1_table]
PropIndex ==
  [Cased1 |-> Cased1_index, Case_Ignorable |-> Case_Ignorable_index,
   ID_Start |-> ID_Start_index, ID_Continue1 |-> ID_Continue1_index]

TablesOf(question) ==
  CASE question = "is_cased" -> <<"Cased1">>
    [] question = "is_case_ignorable" -> <<"Case_Ignorable">>
    [] question = "is_id_start" -> <<"ID_Start">>
    [] question = "is_id_continue" -> <<"ID_Start", "ID_Continue1">>
    [] OTHER -> <<>>

BLOCK_LEN == 32
char == query[2]
Table == PropTable[tables[1]]
Index == PropIndex[tables[1]]
Byte(p) == Table[p + 1]
Block(k) == Index[k + 1]

QuestionsIdle ==
  /\ query = <<"none", 0, {}>> /\ tables = <<>>
  /\ idx_min = 0 /\ idx_max = 0
  /\ pos = 0 /\ code = 0 /\ bit = FALSE
  /\ answer = FALSE /\ qpc = "idle"

QuestionInit ==
  /\ query \in Queries
  /\ tables = TablesOf(query[1])
  /\ idx_min = 0 /\ idx_max = 0
  /\ pos = 0 /\ code = 0 /\ bit = FALSE
  /\ answer = FALSE /\ qpc = "ask"

Answer(b) == answer' = b /\ qpc' = "answered"

\* lre_is_cased looks at the conversion table first.
CasedByTable ==
  /\ qpc = "ask" /\ query[1] = "is_cased" /\ EntryOf(char) # {}
  /\ Answer(TRUE)
  /\ UNCHANGED <<query, tables, idx_min, idx_max, pos, code, bit>>

CaseSet == [convs \in SUBSET Conversions |-> unicode_case1(convs)]

IsIn(s, x) == \E n \in DOMAIN s : n % 2 = 1 /\ s[n] <= x /\ x < s[n + 1]

\* A question about the conversions of a set of them.
AskCase ==
  /\ qpc = "ask" /\ query[1] = "is_changed"
  /\ Answer(IsIn(CaseSet[query[3]], char))
  /\ UNCHANGED <<query, tables, idx_min, idx_max, pos, code, bit>>

--------------------------------------------------------------------------------
(***************************************************************************)
(* get_index_pos: the last block that starts at the character or before.   *)
(***************************************************************************)
\* A no of one table: lre_is_id_continue then asks the next.
No == IF Len(tables) > 1
        THEN tables' = Tail(tables) /\ qpc' = "ask" /\ UNCHANGED answer
        ELSE Answer(FALSE) /\ UNCHANGED tables

Ask ==
  /\ qpc = "ask" /\ tables # <<>>
  /\ query[1] = "is_cased" => EntryOf(char) = {}
  /\ \/ /\ char < Block(0)[1]
        /\ pos' = 0 /\ code' = 0 /\ bit' = FALSE
        /\ qpc' = "runs"
        /\ UNCHANGED <<tables, idx_min, idx_max, answer>>
     \/ /\ char >= Block(0)[1]
        /\ char >= Block(Len(Index) - 1)[1]
        /\ No
        /\ UNCHANGED <<idx_min, idx_max, pos, code, bit>>
     \/ /\ char >= Block(0)[1]
        /\ char < Block(Len(Index) - 1)[1]
        /\ idx_min' = 0 /\ idx_max' = Len(Index) - 1
        /\ qpc' = "index"
        /\ UNCHANGED <<tables, pos, code, bit, answer>>
  /\ UNCHANGED query

Halve ==
  LET idx == (idx_min + idx_max) \div 2
  IN  /\ qpc = "index" /\ idx_max - idx_min > 1
      /\ IF char < Block(idx)[1]
           THEN idx_max' = idx /\ UNCHANGED idx_min
           ELSE idx_min' = idx /\ UNCHANGED idx_max
      /\ UNCHANGED <<query, tables, pos, code, bit, answer, qpc>>

BlockStart_NoOffset(k) == (k + 1) * BLOCK_LEN
BlockStart(k) == (k + 1) * BLOCK_LEN + Block(k)[2]

Found ==
  /\ qpc = "index" /\ idx_max - idx_min <= 1
  /\ code' = Block(idx_min)[1]
  /\ pos' = BlockStart(idx_min)
  /\ bit' = FALSE
  /\ qpc' = "runs"
  /\ UNCHANGED <<query, tables, idx_min, idx_max, answer>>

--------------------------------------------------------------------------------
(***************************************************************************)
(* lre_is_in_table: a byte is two lengths, one, or the first part of one.  *)
(***************************************************************************)
IsPacked(b) == b < 64

\* The length of the run that starts with the byte at p of a table, unless it is
\* packed; and how many bytes are for a run, or for two that are packed.
RunLength(table, p) ==
  LET b(n) == table[p + n + 1]
  IN  IF b(0) >= 128 THEN b(0) - 128 + 1
      ELSE IF b(0) < 96 THEN (b(0) - 64) * 256 + b(1) + 1
      ELSE (b(0) - 96) * 65536 + b(1) * 256 + b(2) + 1

RunBytes(b) == IF IsPacked(b) \/ b >= 128 THEN 1 ELSE IF b < 96 THEN 2 ELSE 3

\* The run up to code is passed: it holds the character, or the next one answers
\* the opposite.
Passed(end, next) ==
  /\ code' = end /\ pos' = next
  /\ IF char < end
       THEN /\ IF bit THEN Answer(TRUE) /\ UNCHANGED tables ELSE No
            /\ UNCHANGED bit
       ELSE bit' = ~bit /\ UNCHANGED <<tables, answer, qpc>>

LongRun ==
  /\ qpc = "runs" /\ ~IsPacked(Byte(pos))
  /\ Passed(code + RunLength(Table, pos), pos + RunBytes(Byte(pos)))
  /\ UNCHANGED <<query, idx_min, idx_max>>

First(b) == (b \div 8) + 1
Second(b) == (b % 8) + 1

PackedRuns ==
  LET b == Byte(pos)
      middle == code + First(b)
  IN  /\ qpc = "runs" /\ IsPacked(b)
      /\ IF char < middle
           THEN Passed(middle, pos + 1)
           ELSE /\ code' = middle + Second(b) /\ pos' = pos + 1
                /\ IF char < middle + Second(b)
                     THEN /\ IF ~bit THEN Answer(TRUE) /\ UNCHANGED tables ELSE No
                          /\ bit' = ~bit
                     ELSE UNCHANGED <<tables, bit, answer, qpc>>
      /\ UNCHANGED <<query, idx_min, idx_max>>

QuestionStep ==
  \/ CasedByTable \/ AskCase
  \/ Ask \/ Halve \/ Found
  \/ LongRun \/ PackedRuns

QuestionSpec == QuestionInit /\ [][QuestionStep]_propVars

--------------------------------------------------------------------------------
(***************************************************************************)
(* Properties.                                                             *)
(***************************************************************************)
\* What is known of a table when the bytes before p are read: where runs start, as
\* bytes and as characters, and where they end, which is end for the last of them.
NoRuns == [p |-> 0, end |-> 0, starts |-> {<<0, 0>>}, ends |-> {}]

NextRun(table, s) ==
  LET b == table[s.p + 1]
      middle == s.end + First(b)
      end == IF IsPacked(b) THEN middle + Second(b) ELSE s.end + RunLength(table, s.p)
  IN  [p |-> s.p + RunBytes(b),
       end |-> end,
       starts |-> s.starts \cup {<<s.p + RunBytes(b), end>>},
       ends |-> s.ends \cup {end} \cup (IF IsPacked(b) THEN {middle} ELSE {})]

\* One more byte or run, if all of it is in the table.
MoreRuns(table, s) ==
  IF s.p < Len(table) /\ s.p + RunBytes(table[s.p + 1]) <= Len(table) THEN NextRun(table, s) ELSE s

\* The runs of a table from its first byte on, read in rounds.
Round(table, s) ==
  LET read[n \in 0..BLOCK_LEN] == IF n = 0 THEN s ELSE MoreRuns(table, read[n - 1])
  IN  IF s.p = Len(table) THEN s ELSE read[BLOCK_LEN]

AllRuns(table) ==
  LET rounds == Len(table) \div BLOCK_LEN + 1
      read[n \in 0..rounds] == IF n = 0 THEN NoRuns ELSE Round(table, read[n - 1])
  IN  read[rounds]

Runs == [t \in DOMAIN PropTable |-> AllRuns(PropTable[t])]

EndsUpTo(t, x) == Cardinality({e \in Runs[t].ends : e <= x})

\* The generated tables are read to their last byte, and each index fits its table:
\* a block starts at a run that is not in the property, and the last one behind all.
ASSUME IndexAssumption ==
  \A t \in DOMAIN PropTable :
    LET table == PropTable[t]
        index == PropIndex[t]
        last == Len(index)
    IN  /\ table \in Seq(0..255) /\ index \in Seq(Nat \X Nat) /\ last > 1
        /\ Runs[t].p = Len(table)
        /\ \A k \in 1..(last - 1) : <<k * BLOCK_LEN + index[k][2], index[k][1]>> \in Runs[t].starts
        /\ index[last][1] = Runs[t].end
        /\ \A k \in 1..last : EndsUpTo(t, index[k][1]) % 2 = 0

InProp(t, x) == EndsUpTo(t, x) % 2 = 1

\* The index leads to the answer that all the runs of the table from the first give,
\* for the characters before, in and behind its blocks.  (get_index_pos,
\* lre_is_in_table, lre_is_cased, lre_is_id_continue)
IndexAgrees ==
  qpc = "answered" /\ query[1] # "is_changed" =>
    answer <=>
      \/ query[1] = "is_cased" /\ \E k \in DOMAIN case_conv_table : InEntry(char, k)
      \/ \E n \in DOMAIN TablesOf(query[1]) : InProp(TablesOf(query[1])[n], char)

\* The generated entries: the ASCII letters come first; a run of alternating capital
\* and small letters ends with a small one, one of triples is one triple; and a run
\* that is mapped as a whole is not mapped to itself.
ASSUME ChangesAssumption ==
  /\ Len(case_conv_table) > 2 /\ Entry(3).code >= 128
  /\ Entry(1) = [code |-> 65, len |-> 26, type |-> "LF", data |-> 1]
  /\ Entry(2) = [code |-> 97, len |-> 26, type |-> "U", data |-> 0]
  /\ \A k \in DOMAIN case_conv_table :
       LET e == Entry(k)
           run == e.code..(e.code + e.len - 1)
       IN  /\ e.type \in tab_run_mask["upper"] \cup tab_run_mask["lower"]
           /\ e.type = "UL" => e.len % 2 = 0
           /\ e.type = "LSU" => e.len = 3
           /\ e.type \in {"U", "L", "UF", "LF"} =>
                e.data + 1 \in DOMAIN case_conv_table /\ Entry(e.data + 1).code # e.code
           /\ e.type = "U2L_399_EXT2" => Ext(Low(e.data)) \in Nat \ {e.code}
           /\ e.type = "UF_D20" => e.data \notin run /\ e.data + 32 \notin run
           /\ e.type = "UF_D1_EXT" => Ext(e.data) \notin run /\ Ext(e.data) + 1 \notin run
           /\ e.type \in {"U_EXT", "LF_EXT"} => Ext(e.data) \notin run

\* The characters that unicode_case1 gives by the types of the runs are exactly
\* those that one of the conversions changes: "set char if modified by uppercasing",
\* "by lowercasing", "by case folding".  (libunicode.c:547-613)
CaseSetExact ==
  qpc = "answered" /\ query[1] = "is_changed" =>
    (answer <=> \E conv \in query[3] : lre_case_conv(char, conv) # <<char>>)
================================================================================
