------------------------------- MODULE MCUnicode -------------------------------
(***************************************************************************)
(* Three independent parts of libunicode: the canonical form of a set, the *)
(* sort it uses, on every short array, and the lookups of properties.      *)
(***************************************************************************)
EXTENDS CanonClass, CharProps

MCInit ==
  \/ CanonInit /\ QuestionsIdle
  \/ SortInit /\ CanonIdle /\ QuestionsIdle
  \/ QuestionInit /\ CanonIdle /\ SortIdle

MCNext ==
  \/ SortStep /\ UNCHANGED <<canonVars, propVars>>
  \/ CanonStep /\ UNCHANGED propVars
  \/ QuestionStep /\ UNCHANGED <<canonVars, sortVars>>

MCSpec == MCInit /\ [][MCNext]_<<canonVars, sortVars, propVars>>

\* Enough for every character; TLC's integers end before UINT32_MAX.
MCMax == 1114112

\* Arrays of intervals with few starts; the ends tell them apart.
MCArrays ==
  UNION {{[m \in 1..n |-> <<s[m], m>>] : s \in [1..n -> 1..(IF n < 7 THEN 4 ELSE 3)]} : n \in {2, 3, 5, 7}}

MCSets ==
  {<<>>, <<65, 91, 8490, 8491>>, <<0, 128>>, <<97, 98, 107, 108, 115, 116, 383, 384, 8490, 8491>>,
   <<181, 182, 192, 330>>, <<452, 461>>, <<837, 838, 880, 1024>>, <<4256, 4302>>,
   <<7830, 7839>>, <<8064, 8080>>, <<8144, 8180>>, <<64261, 64263>>, <<66560, 66570, 66600, 66610>>}
MCInputs == [set : MCSets, is_unicode : BOOLEAN]

\* Digits, marks and others that are a part of an identifier but not its start.
Samples == {48, 57, 95, 183, 768, 847, 1632, 8205, 12331, 43014, 65343, 66045, 120831, 917760}

Around(S) == UNION {{x - 1, x} : x \in S \ {0}}
MCQueries ==
  LET questions == {"is_cased", "is_case_ignorable", "is_id_start", "is_id_continue"}
      starts(q) == UNION {{PropIndex[TablesOf(q)[n]][k][1] : k \in DOMAIN PropIndex[TablesOf(q)[n]]} :
                            n \in DOMAIN TablesOf(q)}
      edges == UNION {{Entry(k).code, Entry(k).code + 1, Entry(k).code + Entry(k).len} :
                        k \in DOMAIN case_conv_table}
  IN  UNION {{q} \X (Around(starts(q)) \cup Samples) \X {{}} : q \in questions}
        \cup {"is_changed"} \X Around(edges) \X SUBSET Conversions
        \cup {"is_cased"} \X Around(edges) \X {{}}
================================================================================
