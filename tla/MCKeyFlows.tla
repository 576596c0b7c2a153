----------------------------- MODULE MCKeyFlows ------------------------------
(* Instances of KeyFlows for TLC. *)
EXTENDS KeyFlows

CONSTANTS h1, v1

\* Two accounts of one identity.
TwoAccounts == {<<"mainnet", "0">>, <<"mainnet", "1">>}
=============================================================================
