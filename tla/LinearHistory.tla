---------------------------- MODULE LinearHistory ----------------------------
(***************************************************************************)
(* What a working-copy journal promises its users: one line of sources and *)
(* a cursor on it.  Undo and redo move the cursor and leave the line       *)
(* alone; a new source cuts the line behind the cursor and may forget the  *)
(* oldest part of it.                                                      *)
(***************************************************************************)
EXTENDS Integers, Sequences

CONSTANT Sources

VARIABLES
  line,    \* the sources that can be reached by undo and redo, oldest first
  cursor   \* the position of the head on the line

vars == <<line, cursor>>

Init ==
  /\ \E s \in Sources : line = <<s>>
  /\ cursor = 1

(* A new source after the cursor; one that is merged with the source at    *)
(* the cursor replaces it.  Forgetting keeps at least one source to undo   *)
(* to.                                                                     *)
Record(s) ==
  \E last \in {cursor - 1, cursor} \ {0} : \E first \in 1 .. last :
    /\ line' = Append(SubSeq(line, first, last), s)
    /\ cursor' = Len(line')

Undo ==
  /\ cursor > 1
  /\ cursor' = cursor - 1
  /\ UNCHANGED line

Redo ==
  /\ cursor < Len(line)
  /\ cursor' = cursor + 1
  /\ UNCHANGED line

Next == (\E s \in Sources : Record(s)) \/ Undo \/ Redo

Spec == Init /\ [][Next]_vars
=============================================================================
