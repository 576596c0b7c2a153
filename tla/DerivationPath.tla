--------------------------- MODULE DerivationPath ---------------------------
(***************************************************************************)
(* Derivation paths as they are read from a command, node by node, the     *)
(* class and network they are given, and the one shape that may not sign.  *)
(* A node is an index and the bit that hardens it.                         *)
(***************************************************************************)
EXTENDS Naturals, Sequences

CONSTANT Nodes    \* the nodes a host sends

Node == [index : Nat, hardened : BOOLEAN]

ASSUME NodesAssumption == Nodes \subseteq Node

VARIABLE dp       \* the nodes read so far

DERIVATION_PATH_NODES_MAX == 8
DERIVATION_PATH_NEW_LEN == 5
LEGACY_PURPOSE == 1105
NEW_PURPOSE == 44
NEW_MAINNET_COIN_TYPE == 919
NEW_TESTNET_COIN_TYPE == 1
NEW_COMMITMENT_RANDOMNESS == 5

\* init_derivation_path
PathInit == dp = << >>

\* The loop of parse_derivation_path_from_buffer, on a depth within the bound.
ReadNode ==
    /\ Len(dp) < DERIVATION_PATH_NODES_MAX
    /\ \E n \in Nodes : dp' = Append(dp, n)

PathSpec == PathInit /\ [][ReadNode]_dp

Hardened(n) == [n EXCEPT !.hardened = TRUE]
harden_derivation_path(p) == [i \in DOMAIN p |-> Hardened(p[i])]

detect_derivation_path_variant(p) ==
    CASE Len(p) = 0                   -> "invalid"
      [] p[1].index = LEGACY_PURPOSE  -> "legacy"
      [] p[1].index = NEW_PURPOSE     -> "new"
      [] OTHER                        -> "full"

derivation_path_network(p) ==
    CASE Len(p) = 0                              -> "unknown"
      [] p[1].index = LEGACY_PURPOSE             -> "legacy"
      [] p[1].index # NEW_PURPOSE \/ Len(p) < 2  -> "unknown"
      [] p[2].index = NEW_MAINNET_COIN_TYPE      -> "mainnet"
      [] p[2].index = NEW_TESTNET_COIN_TYPE      -> "testnet"
      [] OTHER                                   -> "unknown"

\* The masks drop the hardening bit before a node is compared.
IsCommitmentNode_Unmasked(n) == n = [index |-> NEW_COMMITMENT_RANDOMNESS, hardened |-> FALSE]
IsCommitmentNode(n) == n.index = NEW_COMMITMENT_RANDOMNESS

reject_exportable_signing_path(p) ==
    /\ detect_derivation_path_variant(p) = "new"
    /\ Len(p) = DERIVATION_PATH_NEW_LEN + 1
    /\ IsCommitmentNode(p[5])

\* Is the path let through to signing and to GET_PUBLIC_KEY?
parse_derivation_path(p) == ~reject_exportable_signing_path(harden_derivation_path(p))

\* append_export_key_type and exportNewPathPrivateKeysForPurpose: the path whose
\* Ed25519 key INS_EXPORT_PRIVATE_KEY_NEW hands out as it is.
CommitmentPath(coin, idp, identity, account) ==
    harden_derivation_path([i \in 1 .. 6 |->
        [index |-> <<NEW_PURPOSE, coin, idp, identity, NEW_COMMITMENT_RANDOMNESS, account>>[i],
         hardened |-> FALSE]])

-----------------------------------------------------------------------------
(* Properties. *)

\* A path that may sign is never, once hardened for derivation, the path of a
\* private key the export instruction hands out, however the host set the
\* hardening bits of its nodes.
NoExportablePathSigns ==
    parse_derivation_path(dp) =>
        \A coin \in {NEW_MAINNET_COIN_TYPE, NEW_TESTNET_COIN_TYPE} :
            \A idp, identity, account \in {n.index : n \in Nodes} :
                harden_derivation_path(dp) # CommitmentPath(coin, idp, identity, account)
=============================================================================
