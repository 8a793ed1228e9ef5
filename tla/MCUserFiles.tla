----------------------------- MODULE MCUserFiles -----------------------------
(***************************************************************************)
(* Small instances of UserFiles for TLC.                                   *)
(***************************************************************************)
EXTENDS UserFiles, TLC

CONSTANTS a, b, c

\* A large upload and two smaller ones.
Sizes == (a :> 2) @@ (b :> 1) @@ (c :> 1)

=============================================================================
