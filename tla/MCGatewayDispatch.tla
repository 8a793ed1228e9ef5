-------------------------- MODULE MCGatewayDispatch --------------------------
(***************************************************************************)
(* Small instances of GatewayDispatch for TLC.                             *)
(***************************************************************************)
EXTENDS GatewayDispatch

CONSTANTS chat, lumina

\* One generation left at every account.
OneEach == [x \in Accounts |-> 1]

\* No balance is known of chat; lumina was seen exhausted, and has recovered.
SeenBefore == [x \in Accounts |-> IF x = chat THEN Unknown ELSE 0]

=============================================================================
