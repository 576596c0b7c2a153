------------------------------ MODULE MCSession ------------------------------
(* An instance of Session for TLC. *)
EXTENDS Session

CONSTANTS h1, v1

TwoPaths == {<<"mainnet", "a">>, <<"testnet", "b">>}
=============================================================================
