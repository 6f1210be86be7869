------------------------------ MODULE JsRegExp ------------------------------
(***************************************************************************)
(* The methods of a RegExp object (jsregexp.lua) running over regexp_exec. *)
(*                                                                         *)
(* Lua runs one coroutine at a time.  Control leaves a method only where   *)
(* it calls or returns to code of the user: between two calls of the       *)
(* closure of match_all, and inside the replacement function of replace    *)
(* and replace_all, which may use the same RegExp object or yield to a     *)
(* coroutine that does.  A thread is one activation of a method;           *)
(* "running" is the one that holds the interpreter.  Everything between    *)
(* two such points is uninterrupted, but one iteration of a method's loop  *)
(* is one step here, so that a loop that never ends is seen.               *)
(*                                                                         *)
(* The shared state is the last_index of the object the methods are called *)
(* on.  match_all and split work on a copy compiled from its source.       *)
(***************************************************************************)
EXTENDS RegExpExec, FiniteSets

CONSTANTS
  Threads,      \* activations of methods
  NoThread,     \* nobody is inside a method
  Inputs,       \* pairs of a subject js and a pattern re
  Methods,      \* the methods the threads may call
  UserIndices,  \* what user code may assign to last_index (0-based)
  Limits        \* the limits split may be called with

ASSUME NoThreadAssumption == NoThread \notin Threads

ASSUME InputsAssumption == \A i \in Inputs : JsStringOK(i.js) /\ RegExpOK(i.re, i.js)

ASSUME IndicesAssumption == UserIndices \subseteq Nat /\ Limits \subseteq Nat

VARIABLES
  js, re,     \* the subject and the RegExp object, but for its last_index
  li,         \* re.last_index - 1
  th,         \* what each activation has in its local variables
  running     \* the thread in control

vars == <<js, re, li, th, running>>

(***************************************************************************)
(* The locals of an activation: the last_index of its private copy, the    *)
(* spans of the matches it has collected, the pieces of the subject it has *)
(* put out, and the indices its loop keeps.  turn is the parity of the     *)
(* iterations: one that changes nothing else is a step all the same.       *)
(* alone is history: its replacement function always left last_index as it *)
(* found it.                                                               *)
(***************************************************************************)
Fresh(method) ==
  [op |-> method, phase |-> "loop", li2 |-> 0, found |-> <<>>, out |-> {},
   prev |-> 0, cur |-> 0, callback |-> FALSE, limit |-> 0, turn |-> 0,
   alone |-> TRUE]

Busy(t) == th[t].phase \in {"loop", "callback"}

Init ==
  /\ \E i \in Inputs : js = i.js /\ re = i.re
  /\ li = 0
  /\ th = [t \in Threads |-> [Fresh("none") EXCEPT !.phase = "idle"]]
  /\ running = NoThread

Fixed == UNCHANGED <<js, re>>

\* t calls a method: user code is in control and t is not inside another one.
Calls(t, method) ==
  /\ method \in Methods
  /\ running = NoThread
  /\ ~Busy(t)

\* The method of t comes to its end and gives control back.
Ends(t, local) ==
  /\ th' = [th EXCEPT ![t] = [local EXCEPT !.turn = 0]]
  /\ running' = NoThread

Continues(t, local) ==
  /\ th' = [th EXCEPT ![t] = [local EXCEPT !.turn = 1 - @]]
  /\ UNCHANGED running

Span(r) == <<r.from, r.to>>

\* The last_index after a match was collected: one further if it was empty.
PastEmpty(r) == IF r.found /\ r.ok /\ r.from = r.to THEN r.last + 1 ELSE r.last

Kept(from, to) == IF from < to THEN {<<"kept", from, to>>} ELSE {}
Replaced(r) == {<<"replaced", r.from, r.to>>}

-----------------------------------------------------------------------------
(***************************************************************************)
(* User code, which may be a replacement function.                         *)
(***************************************************************************)
SetLastIndex_Unchecked ==
  /\ running = NoThread
  /\ li' \in UserIndices \cup {-1}
  /\ Fixed /\ UNCHANGED <<th, running>>

\* re.last_index = n + 1, refused unless it is positive.
SetLastIndex ==
  /\ running = NoThread
  /\ li' \in UserIndices
  /\ Fixed /\ UNCHANGED <<th, running>>

\* re:exec(str), re:test(str), and re:match(str) of a RegExp that is not global
ExecCall ==
  /\ "exec" \in Methods
  /\ running = NoThread
  /\ li' = Exec(re, js, li).last
  /\ Fixed /\ UNCHANGED <<th, running>>

-----------------------------------------------------------------------------
(***************************************************************************)
(* re:match(str) of a global RegExp.                                       *)
(***************************************************************************)
StartMatch_NoReset(t) ==
  /\ Calls(t, "match") /\ re.global
  /\ th' = [th EXCEPT ![t] = Fresh("match")]
  /\ running' = t
  /\ Fixed /\ UNCHANGED li

StartMatch(t) ==
  /\ Calls(t, "match") /\ re.global
  /\ li' = 0
  /\ th' = [th EXCEPT ![t] = Fresh("match")]
  /\ running' = t
  /\ Fixed

MatchStep_NoBreak(t) ==
  LET r == Exec(re, js, li)
  IN  /\ running = t /\ th[t].op = "match"
      /\ li' = PastEmpty(r)
      /\ \/ r.ok /\ Continues(t, [th[t] EXCEPT !.found = IF r.found THEN <<Span(r)>> ELSE @])
         \/ ~r.ok /\ Ends(t, [th[t] EXCEPT !.phase = "raised"])
      /\ Fixed

MatchStep(t) ==
  LET r == Exec(re, js, li)
  IN  /\ running = t /\ th[t].op = "match"
      /\ li' = PastEmpty(r)
      /\ \/ /\ ~r.found
            /\ Ends(t, [th[t] EXCEPT !.phase = "done"])
         \/ /\ r.found /\ r.ok
            /\ Continues(t, [th[t] EXCEPT !.found = Append(@, Span(r))])
         \/ /\ ~r.ok
            /\ Ends(t, [th[t] EXCEPT !.phase = "raised"])
      /\ Fixed

-----------------------------------------------------------------------------
(***************************************************************************)
(* re:match_all(str) and re:match_all_list(str).  The closure keeps its    *)
(* own RegExp and may be called again after it has returned nil.           *)
(***************************************************************************)
StartMatchAll(t) ==
  /\ re.global
  /\ \/ /\ Calls(t, "match_all")
        /\ Ends(t, [Fresh("match_all") EXCEPT !.li2 = li])
     \/ /\ Calls(t, "match_all_list")
        /\ th' = [th EXCEPT ![t] = [Fresh("match_all_list") EXCEPT !.li2 = li]]
        /\ running' = t
  /\ Fixed /\ UNCHANGED li

AfterClosure_Shared(local) ==
  LET r == Exec(re, js, li)
      pass == IF local.phase = "done" THEN <<>> ELSE local.found
  IN  [local EXCEPT
         !.li2 = PastEmpty(r),
         !.found = IF r.found /\ r.ok THEN Append(pass, Span(r)) ELSE pass,
         !.phase = IF ~r.found THEN "done" ELSE IF r.ok THEN "loop" ELSE "raised"]

\* The locals of the closure after a call of it.
AfterClosure(local) ==
  LET r == Exec(re, js, local.li2)
      pass == IF local.phase = "done" THEN <<>> ELSE local.found
  IN  [local EXCEPT
         !.li2 = PastEmpty(r),
         !.found = IF r.found /\ r.ok THEN Append(pass, Span(r)) ELSE pass,
         !.phase = IF ~r.found THEN "done" ELSE IF r.ok THEN "loop" ELSE "raised"]

CallClosure(t) ==
  /\ running = NoThread /\ th[t].op = "match_all" /\ th[t].phase \in {"loop", "done"}
  /\ th' = [th EXCEPT ![t] = AfterClosure(th[t])]
  /\ Fixed /\ UNCHANGED <<li, running>>

ListStep(t) ==
  LET local == AfterClosure(th[t])
  IN  /\ running = t /\ th[t].op = "match_all_list"
      /\ IF local.phase = "loop" THEN Continues(t, local) ELSE Ends(t, local)
      /\ Fixed /\ UNCHANGED li

-----------------------------------------------------------------------------
(***************************************************************************)
(* re:search(str).  Nothing runs between the two assignments of            *)
(* last_index, but an error of exec skips the second one.                  *)
(***************************************************************************)
SearchExec_FromLast == Exec(re, js, li)
SearchExec == Exec(re, js, 0)

Search(t) ==
  LET r == SearchExec
      result == [Fresh("search") EXCEPT !.found = IF r.found THEN <<Span(r)>> ELSE <<>>]
  IN  /\ Calls(t, "search")
      /\ IF r.ok
           THEN /\ Ends(t, [result EXCEPT !.phase = "done"])
                /\ UNCHANGED li
           ELSE /\ Ends(t, [result EXCEPT !.phase = "raised", !.found = <<>>])
                /\ li' = r.last
      /\ Fixed

\* exec raises before it gets to lre_exec's result: the subject is malformed or
\* memory runs out.
SearchRaises(t) ==
  /\ Calls(t, "search")
  /\ Ends(t, [Fresh("search") EXCEPT !.phase = "raised"])
  /\ li' = 0
  /\ Fixed

-----------------------------------------------------------------------------
(***************************************************************************)
(* re:split(str, limit).  The copy is sticky.  count stays 0 all along, so *)
(* that a limit other than 0 is no limit.  Capture groups, which are put   *)
(* between the pieces, are left out.                                       *)
(***************************************************************************)
StartSplit(t) ==
  /\ Calls(t, "split")
  /\ \E limit \in Limits :
       LET local == [Fresh("split") EXCEPT !.limit = limit]
       IN  IF limit = 0
             THEN Ends(t, [local EXCEPT !.phase = "done"])
             ELSE th' = [th EXCEPT ![t] = local] /\ running' = t
  /\ Fixed /\ UNCHANGED li

\* The locals of split after a match, and after none at li2.
PieceEnded_All(s, r) ==
  [s EXCEPT !.found = Append(@, <<s.prev, r.to>>), !.prev = r.last, !.li2 = r.last]

PieceEnded(s, r) ==
  [s EXCEPT
     !.found = IF s.prev < r.from \/ r.from < r.to THEN Append(@, <<s.prev, r.from>>) ELSE @,
     !.prev = r.last,
     !.li2 = r.last]

NoPiece_Stuck(s) == s
NoPiece(s) == [s EXCEPT !.li2 = s.li2 + 1]

SplitStep(t) ==
  LET s == th[t]
      r == Exec([re EXCEPT !.sticky = TRUE], js, s.li2)
      next == IF r.found THEN PieceEnded(s, r) ELSE NoPiece(s)
  IN  /\ running = t /\ s.op = "split"
      /\ \/ /\ ~r.ok
            /\ Ends(t, [s EXCEPT !.phase = "raised"])
         \/ /\ r.ok /\ r.found /\ js.blen = 0
            /\ Ends(t, [s EXCEPT !.phase = "done"])
         \/ /\ r.ok /\ ~(r.found /\ js.blen = 0)
            /\ IF next.li2 >= js.blen
                 THEN Ends(t, [next EXCEPT !.found = Append(@, <<next.prev, js.blen>>),
                                           !.phase = "done"])
                 ELSE Continues(t, next)
      /\ Fixed /\ UNCHANGED li

-----------------------------------------------------------------------------
(***************************************************************************)
(* re:replace_all(str, replacement), and re:replace(str, replacement),     *)
(* which is the same for a global RegExp.  The replacement is a string or  *)
(* a function; user code is in control while the function runs.            *)
(***************************************************************************)
StartReplaceAll(t) ==
  /\ Calls(t, "replace_all") /\ re.global
  /\ \E callback \in BOOLEAN :
       th' = [th EXCEPT ![t] = [Fresh("replace_all") EXCEPT !.callback = callback]]
  /\ li' = 0
  /\ running' = t
  /\ Fixed

\* The locals after a match that was sought from last_index.
Substituted_FromCur(s, r) ==
  [s EXCEPT !.cur = r.last, !.out = @ \cup Kept(s.cur, r.from) \cup Replaced(r)]

Substituted_NoGap(s, r) ==
  [s EXCEPT !.cur = r.last, !.out = @ \cup Replaced(r)]

Substituted(s, r) ==
  [s EXCEPT !.cur = r.last, !.out = @ \cup Kept(li, r.from) \cup Replaced(r)]

ReplaceAllStep(t) ==
  LET s == th[t]
      r == Exec(re, js, li)
  IN  /\ running = t /\ s.op = "replace_all"
      /\ li' = r.last
      /\ \/ /\ ~r.found
            /\ Ends(t, [s EXCEPT !.out = @ \cup Kept(s.cur, js.blen), !.phase = "done"])
         \/ /\ ~r.ok
            /\ Ends(t, [s EXCEPT !.phase = "raised"])
         \/ /\ r.found /\ r.ok
            /\ LET next == Substituted(s, r)
               IN  IF s.callback THEN Ends(t, [next EXCEPT !.phase = "callback"])
                                 ELSE Continues(t, next)
      /\ Fixed

StartReplace(t) ==
  LET r == Exec(re, js, 0)
  IN  /\ Calls(t, "replace") /\ ~re.global
      /\ li' = r.last
      /\ \E callback \in BOOLEAN :
           LET s == [Fresh("replace") EXCEPT !.callback = callback, !.cur = r.to]
               head == Kept(0, r.from) \cup Replaced(r)
           IN  \/ /\ ~r.found
                  /\ Ends(t, [s EXCEPT !.out = Kept(0, js.blen), !.phase = "done"])
               \/ /\ ~r.ok
                  /\ Ends(t, [s EXCEPT !.phase = "raised"])
               \/ /\ r.found /\ r.ok
                  /\ IF callback
                       THEN Ends(t, [s EXCEPT !.out = head, !.phase = "callback"])
                       ELSE Ends(t, [s EXCEPT !.out = head \cup Kept(r.to, js.blen),
                                              !.phase = "done"])
      /\ Fixed

\* The replacement function returns.
CallbackReturns(t) ==
  LET s == th[t]
  IN  /\ running = NoThread /\ s.phase = "callback"
      /\ IF s.op = "replace_all"
           THEN /\ th' = [th EXCEPT ![t] = [s EXCEPT !.phase = "loop", !.alone = @ /\ li = s.cur]]
                /\ running' = t
           ELSE Ends(t, [s EXCEPT !.out = @ \cup Kept(s.cur, js.blen), !.phase = "done"])
      /\ Fixed /\ UNCHANGED li

-----------------------------------------------------------------------------
\* An error leaves the method: lre_exec runs out of memory, or the replacement
\* function raises one.  last_index stays as it is.
Raises(t) ==
  /\ \/ running = t
     \/ running = NoThread /\ Busy(t)
  /\ Ends(t, [th[t] EXCEPT !.phase = "raised"])
  /\ Fixed /\ UNCHANGED li

Step(t) == MatchStep(t) \/ ListStep(t) \/ SplitStep(t) \/ ReplaceAllStep(t)

Next ==
  \/ SetLastIndex
  \/ ExecCall
  \/ \E t \in Threads :
       \/ StartMatch(t) \/ StartMatchAll(t) \/ Search(t) \/ SearchRaises(t)
       \/ StartSplit(t) \/ StartReplaceAll(t) \/ StartReplace(t)
       \/ Step(t) \/ CallClosure(t) \/ CallbackReturns(t) \/ Raises(t)

Spec == Init /\ [][Next]_vars

\* The interpreter keeps running the method in control, and a replacement
\* function returns or raises an error sooner or later.
FairSpec ==
  /\ Spec
  /\ \A t \in Threads : WF_vars(Step(t)) /\ WF_vars(CallbackReturns(t))

-----------------------------------------------------------------------------
Reference == INSTANCE JsReference

\* Matches start and end at boundaries of characters.  It can be otherwise only
\* for a pattern without the u flag that sees the two units of a pair as two.
Aligned == AlignedOn(re, js)

SpansOfSubject == (0..js.blen) \X (0..js.blen)

TypeOK ==
  /\ li \in Nat
  /\ running \in Threads \cup {NoThread}
  /\ \A t \in Threads :
       /\ th[t].op \in Methods \cup {"none"}
       /\ th[t].phase \in {"idle", "loop", "callback", "done", "raised"}
       /\ th[t].li2 \in Nat /\ th[t].prev \in Nat /\ th[t].cur \in Nat
       /\ th[t].found \in Seq(SpansOfSubject)
       /\ th[t].out \subseteq {"kept", "replaced"} \X Nat \X (0..js.blen)
       /\ th[t].callback \in BOOLEAN /\ th[t].alone \in BOOLEAN
       /\ th[t].limit \in Nat /\ th[t].turn \in {0, 1}

Finished(t, method) == th[t].op = method /\ th[t].phase = "done"

ToBytes(spans) == [k \in 1..Len(spans) |-> <<ByteOf(js, spans[k][1]), ByteOf(js, spans[k][2])>>]

\* The matches of the whole subject, in the order of the reference.
AllMatches == ToBytes(Reference!ScanFrom(js, re, 0))

\* Whatever last_index was and whoever changed it before, match starts over and
\* its list is the one of the reference.  (jsregexp.lua:9-32)
MatchListsAll ==
  Aligned => \A t \in Threads : Finished(t, "match") => th[t].found = AllMatches

\* search reports the first match of the whole subject, wherever last_index was.
\* (jsregexp.lua:64-74)
SearchFindsFirst ==
  \A t \in Threads :
    Aligned /\ Finished(t, "search") =>
      th[t].found = SubSeq(AllMatches, 1, IF AllMatches = <<>> THEN 0 ELSE 1)

\* The pieces of replace_all and replace cover the subject without overlap, and
\* what is replaced is what the reference matches, if the replacement function
\* leaves last_index as it finds it.  (jsregexp.lua:197-253)
PiecesOf(out, kind) == {<<p[2], p[3]>> : p \in {x \in out : x[1] = kind}}

Gaps(spans) ==
  LET from(k) == IF k = 0 THEN 0 ELSE spans[k][2]
      to(k) == IF k = Len(spans) THEN js.blen ELSE spans[k + 1][1]
  IN  {<<from(k), to(k)>> : k \in {x \in 0..Len(spans) : from(x) < to(x)}}

ReplacesAll ==
  \A t \in Threads :
    LET matches == IF th[t].op = "replace" /\ AllMatches # <<>>
                     THEN <<AllMatches[1]>> ELSE AllMatches
    IN  Aligned /\ th[t].alone /\ (Finished(t, "replace_all") \/ Finished(t, "replace")) =>
          /\ PiecesOf(th[t].out, "replaced") = {matches[k] : k \in 1..Len(matches)}
          /\ PiecesOf(th[t].out, "kept") = Gaps(matches)

\* Whatever the replacement function does with the RegExp object: only matches are
\* replaced, and text that is kept in front of one begins no other match, so that none
\* is put out unreplaced but behind the last one found.  (jsregexp.lua:212-229)
ReplacesOnlyMatches ==
  LET matches == {<<ByteOf(js, m[1]), ByteOf(js, m[2])>> : m \in Reference!Spans(js, re)}
      replaced(t) == PiecesOf(th[t].out, "replaced")
  IN  \A t \in Threads :
        Aligned /\ th[t].op \in {"replace", "replace_all"} =>
          /\ replaced(t) \subseteq matches
          /\ \A kept \in PiecesOf(th[t].out, "kept") :
               \/ kept[2] = js.blen
               \/ /\ \E m \in replaced(t) : m[1] = kept[2]
                  /\ \A m \in matches : m[1] < kept[1] \/ kept[2] <= m[1]

MatchesEmpty == \E u \in 0..js.len : re.ends[u] = u

\* The pieces of split are those of the reference, for a pattern that does not
\* match the empty string: split steps by bytes, so it may take an empty match
\* from inside a character.  (jsregexp.lua:76-122)
SplitsAsReference ==
  \A t \in Threads :
    Aligned /\ ~MatchesEmpty /\ Finished(t, "split") /\ th[t].limit # 0 =>
      th[t].found = ToBytes(Reference!SplitPieces(js, re))

\* A method that has control gives it back: to its caller, or to the
\* replacement function.  Only split and replace_all need not, of a pattern that
\* matches the empty string.  (jsregexp.lua:9-32, 56-122, 197-253)
MethodsEnd ==
  \A t \in Threads :
    /\ Aligned /\ running = t
    /\ ~(th[t].op \in {"split", "replace_all"} /\ MatchesEmpty)
    ~> running # t

\* A method of which the replacement function returns comes to an end.
\* (jsregexp.lua:197-253)
ReplaceEnds ==
  \A t \in Threads :
    Aligned /\ th[t].op = "replace_all" /\ Busy(t) ~> th[t].phase \in {"done", "raised"}

-----------------------------------------------------------------------------
(***************************************************************************)
(* A thread that iterates with match_all implements GlobalScan, in which   *)
(* there is no last_index that others could change.  The refinement        *)
(* translates the bytes of its private copy to units.                      *)
(***************************************************************************)
UnitOf(b) == IF js.wide THEN js.rev[b] ELSE b

Iterates(t) == th[t].op = "match_all" /\ th[t].phase \in {"loop", "done"}

ScanPhase(t) ==
  IF ~Iterates(t) THEN "off" ELSE IF th[t].phase = "loop" THEN "on" ELSE "done"

ScanPos(t) ==
  LET u == TranslateLastIndex(js, th[t].li2)
  IN  IF ~Iterates(t) THEN 0 ELSE IF u > js.len THEN js.len + 1 ELSE u

ScanOut(t) ==
  IF ~Iterates(t)
    THEN <<>>
    ELSE [k \in 1..Len(th[t].found) |-> <<UnitOf(th[t].found[k][1]), UnitOf(th[t].found[k][2])>>]

Scan(t) == INSTANCE GlobalScan WITH phase <- ScanPhase(t), pos <- ScanPos(t), out <- ScanOut(t)

\* The closure of match_all gives the matches of the reference one by one,
\* whatever is done to the RegExp object in between: Scan(t)!Spec, of all threads
\* at once.  (jsregexp.lua:34-54)
IteratorScans ==
  /\ \A t \in Threads : Scan(t)!Init
  /\ [][\A t \in Threads : [Scan(t)!Next]_(Scan(t)!vars)]_vars
=============================================================================
