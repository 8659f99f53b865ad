--------------------------- MODULE JournalHistory ---------------------------
(***************************************************************************)
(* How the journal keeps what LinearHistory promises: its two lists        *)
(* describe a line of sources, and the number of entries to undo the       *)
(* position of the head on it.                                             *)
(***************************************************************************)
EXTENDS Journal

(* The sources before the head, from which the entries to undo started,    *)
(* the head, and the sources to which the entries to redo lead.            *)
Line ==
  [i \in 1 .. Len(undo) + Len(redo) + 1 |->
     IF i <= Len(undo) THEN undo[i].before
     ELSE IF i = Len(undo) + 1 THEN source
     ELSE redo[Len(undo) + Len(redo) + 2 - i].after]

History == INSTANCE LinearHistory WITH line <- Line, cursor <- Len(undo) + 1

(* The journal implements the abstract history: undo and redo only move    *)
(* the cursor, and a commit only cuts the line ahead of it and trims it    *)
(* from the far end.                                                       *)
ImplementsHistory == History!Spec
=============================================================================
