--------------------------- MODULE MCStudioHistory ---------------------------
(***************************************************************************)
(* Three texts of 1, 2 and 6 bytes, two labels, and journal limits under   *)
(* which a large rewrite is refused after it was written.                  *)
(***************************************************************************)
EXTENDS StudioHistory, TLC

CONSTANTS a, b, c, g, h

MCSources == {a, b, c}
MCSize == a :> 1 @@ b :> 2 @@ c :> 6
MCGroupBytes == NoGroup :> 0 @@ g :> 1 @@ h :> 1
MCDiffBytes == [s \in MCSources |-> [t \in MCSources |-> IF s = t THEN 0 ELSE MCSize[s] + MCSize[t]]]
=============================================================================
