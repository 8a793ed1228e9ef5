------------------------------- MODULE MCWallet -------------------------------
(***************************************************************************)
(* Small instances of Wallet for TLC.                                      *)
(***************************************************************************)
EXTENDS Wallet, TLC

CONSTANTS inviter, guest, o1, o2, t1, t2

\* Both orders are the guest's.
Guest == (o1 :> guest) @@ (o2 :> guest)
Pays == (t1 :> o1) @@ (t2 :> o2)
Invited == (guest :> inviter) @@ (inviter :> None)

HandlerSymmetry == Permutations(Handlers)

=============================================================================
