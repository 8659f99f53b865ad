--------------------------- MODULE MCChangeStream ---------------------------
(***************************************************************************)
(* Files whose texts are the numbers of their saves.                       *)
(***************************************************************************)
EXTENDS ChangeStream

CONSTANTS MainCount, ImportCount

MCMainSaves == [i \in 1..MainCount |-> i]
MCImportSaves == [i \in 1..ImportCount |-> i]
=============================================================================
