-------------------------- MODULE MCStudioSnapshots --------------------------
(***************************************************************************)
(* Three sources: one plain, one with an import, one that does not         *)
(* compile.                                                                *)
(***************************************************************************)
EXTENDS StudioSnapshots, TLC

CONSTANTS plain, importing, broken, r1, r2

Symmetry == Permutations(Requests) \cup Permutations(Imports) \cup Permutations(Catalogs)
=============================================================================
