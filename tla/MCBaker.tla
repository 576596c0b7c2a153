------------------------------- MODULE MCBaker -------------------------------
(* Instances of ConfigureBaker for TLC. *)
EXTENDS ConfigureBaker

CONSTANTS h1, h2, v1, v2

OnePath == {<<"mainnet", "a">>}
MCPaths == {<<"mainnet", "a">>, <<"testnet", "a">>}

\* Bitmaps that between them open at every stage, end at every stage and skip
\* every stage.
SomeBitmaps ==
    {{}, {"capital"}, {"keys"}, {"metadataUrl"}, {"capital", "metadataUrl"},
     {"restakeEarnings", "keys", "bakingReward"}, {"transactionFee"},
     {"metadataUrl", "suspended"}, {"openForDelegation", "finalizationReward", "suspended"}}
=============================================================================
