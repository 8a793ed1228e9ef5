----------------------------- MODULE MCVideoRender -----------------------------
(***************************************************************************)
(* Small instances of VideoRender for TLC.                                 *)
(***************************************************************************)
EXTENDS VideoRender

\* Other charges may take every credit, those held for a render among them.
Exhausted == 0

=============================================================================
