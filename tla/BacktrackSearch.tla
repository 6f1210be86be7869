---------------------------- MODULE BacktrackSearch ----------------------------
(***************************************************************************)
(* What the interpreter of the bytecode promises: a depth-first search     *)
(* over the ways through the program, each with its own copy of the        *)
(* captures.  Nothing is undone, because nothing is shared.                *)
(***************************************************************************)
EXTENDS ReOpcodes

CONSTANTS Jobs

VARIABLES job,      \* what is run
          here,     \* [pc, cptr, capture] of the way that is followed
          ways,     \* the ways not taken yet, the last one first to be tried
          doing     \* following a way, backtracking, or done

vars == <<job, here, ways, doing>>

Init ==
  /\ job \in Jobs
  /\ here = [pc |-> 1, cptr |-> StartPosition(job), capture |-> NoCaptures(job)]
  /\ ways = <<>>
  /\ doing = "run"

Out == Effect(job, here.pc, here.cptr, here.capture)

CaptureAfter ==
  [x \in DOMAIN here.capture |->
     IF \E i \in DOMAIN Out.writes : Out.writes[i].slot = x
     THEN Out.writes[CHOOSE i \in DOMAIN Out.writes : Out.writes[i].slot = x].val
     ELSE here.capture[x]]

At(p, c, cap) == [pc |-> p, cptr |-> c, capture |-> cap]
Way(p, c, cap, type) == [pc |-> p, cptr |-> c, capture |-> cap, type |-> type]
Last == ways[Len(ways)]
Earlier == SubSeq(ways, 1, Len(ways) - 1)

Follow ==
  /\ doing = "run"
  /\ Out.to \in {"run", "branch"}
  /\ here' = At(Out.pc, Out.cptr, CaptureAfter)
  /\ ways' = IF Out.to = "run" THEN ways
             ELSE Append(ways, Way(Out.alt, Out.cptr, CaptureAfter, Out.type))
  /\ UNCHANGED <<job, doing>>

GiveUp ==
  /\ doing = "run"
  /\ Out.to = "no_match"
  /\ doing' = "no_match"
  /\ here' = NowhereOf(job)
  /\ UNCHANGED <<job, ways>>

TakeNextWay ==
  /\ doing = "no_match"
  /\ ways # <<>>
  /\ ways' = Earlier
  /\ \/ /\ Last.type = "lookahead"
        /\ UNCHANGED <<here, doing>>
     \/ /\ Last.type # "lookahead"
        /\ here' = At(Last.pc, Last.cptr, Last.capture)
        /\ doing' = "run"
  /\ UNCHANGED job

NoWayLeft ==
  /\ doing = "no_match"
  /\ ways = <<>>
  /\ doing' = "fail"
  /\ UNCHANGED <<job, here, ways>>

EndLookahead ==
  /\ doing = "run"
  /\ Out.to = "lookahead"
  /\ doing' = "lookahead"
  /\ UNCHANGED <<job, here, ways>>

\* leave the lookahead with what it captured
LeaveLookahead ==
  /\ doing = "lookahead"
  /\ ways # <<>>
  /\ ways' = Earlier
  /\ here' = At(Last.pc, Last.cptr, here.capture)
  /\ doing' = IF Last.type = "lookahead" THEN "run" ELSE "lookahead"
  /\ UNCHANGED job

EndNegative ==
  /\ doing = "run"
  /\ Out.to = "negative"
  /\ doing' = "negative"
  /\ here' = NowhereOf(job)
  /\ UNCHANGED <<job, ways>>

LeaveNegative ==
  /\ doing = "negative"
  /\ ways # <<>>
  /\ ways' = Earlier
  /\ doing' = IF Last.type = "negative" THEN "no_match" ELSE "negative"
  /\ UNCHANGED <<job, here>>

Finish ==
  /\ doing = "run"
  /\ Out.to = "match"
  /\ doing' = "match"
  /\ UNCHANGED <<job, here, ways>>

RunOut ==
  /\ doing = "run"
  /\ doing' = "memory_error"
  /\ UNCHANGED <<job, here, ways>>

Next ==
  \/ Follow \/ GiveUp \/ TakeNextWay \/ NoWayLeft \/ EndLookahead \/ LeaveLookahead
  \/ EndNegative \/ LeaveNegative \/ Finish \/ RunOut

Spec == Init /\ [][Next]_vars
================================================================================
