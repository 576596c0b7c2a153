----------------------------- MODULE MCIdentity -----------------------------
(* Instances of IdentityFlows, and of Credential alone, for TLC. *)
EXTENDS IdentityFlows, TLC

CONSTANTS h1, v1, v2

OnePath  == {<<"mainnet", "a">>}
TwoPaths == {<<"mainnet", "a">>, <<"testnet", "a">>}

OneProvider  == {<<1>>}
TwoProviders == {<<1>>, <<2, 3>>}

\* No definition tells one value from another.
Interchangeable == Permutations({v1, v2})

\* Without the SDK's gate a host may repeat packets that leave the state alone.
HashBound == 9
ShortHash == Len(hash) <= HashBound
=============================================================================
