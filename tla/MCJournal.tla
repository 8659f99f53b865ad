------------------------------ MODULE MCJournal ------------------------------
(***************************************************************************)
(* A small journal for TLC: three sources of 1, 2 and 6 bytes, one label   *)
(* besides the empty one, and limits that a few edits reach, so that       *)
(* trimming by count, trimming by bytes and refusal all happen.            *)
(***************************************************************************)
EXTENDS JournalHistory

CONSTANTS a, b, c, g

MCSources == {a, b, c}
MCGroups == {NoGroup, g}
MCSize == a :> 1 @@ b :> 2 @@ c :> 6
MCGroupBytes == NoGroup :> 0 @@ g :> 1
MCDiffBytes == [s \in MCSources |-> [t \in MCSources |-> IF s = t THEN 0 ELSE Size[s] + Size[t]]]
=============================================================================
