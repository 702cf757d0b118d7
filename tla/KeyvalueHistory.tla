-------------------------- MODULE KeyvalueHistory --------------------------
(***************************************************************************)
(* keyvalue with a history variable: the lines of the operands that have   *)
(* been read to their end.  It is only written, so that what a line is     *)
(* answered can be compared with all the lines before it.                  *)
(***************************************************************************)
EXTENDS Keyvalue

VARIABLE before

HInit == Init /\ before = <<>>
HNext == /\ Next
         /\ before' = IF pc = "reading" /\ pc' = "main" THEN before \o lines ELSE before
HSpec == HInit /\ [][HNext]_<<vars, before>>

(* A line is answered from the lines of all the operands up to it: those   *)
(* of an operand read earlier still count.  This is what pkeyvalue.perl    *)
(* does, "whose behavior your program should emulate" (asg3 mm:165-168),   *)
(* its map being made outside of the loop over the files, and what the     *)
(* sample output run6.files shows: "a = b", a line of test1.in, is listed  *)
(* while test2.in is read.                                                 *)
AnswersFollowAllOperands ==
  (pc = "reading" /\ lines # <<>>) =>
    \A k \in Keys :
      {v \in Values \cup {Empty} : <<k, v>> \in {out[i] : i \in DOMAIN out}}
        = AnswersFor(before \o lines, k, Last(lines))
=============================================================================
