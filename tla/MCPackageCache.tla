--------------------------- MODULE MCPackageCache ---------------------------
(***************************************************************************)
(* Two callers, in one process or in two; packages of one file share a     *)
(* lock.                                                                   *)
(***************************************************************************)
EXTENDS PackageCache, TLC

CONSTANT stripe

MCStripe == [p \in Packages |-> stripe]
=============================================================================
