----------------------------- MODULE MCAgentRun -----------------------------
(***************************************************************************)
(* Small instances of AgentRun for TLC.                                    *)
(***************************************************************************)
EXTENDS AgentRun, TLC

CONSTANTS c1, c2, c3, t1, t2

Symmetry == Permutations(Retryable) \cup Permutations(Threads)

=============================================================================
