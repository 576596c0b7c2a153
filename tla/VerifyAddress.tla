--------------------------- MODULE VerifyAddress ----------------------------
(***************************************************************************)
(* INS_VERIFY_ADDRESS shows the address of an account and the path it      *)
(* belongs to.  INS_GET_CHALLENGE and INS_SET_TRUSTED_NAME precede it when *)
(* a descriptor, certified by the backend for one challenge, is to confirm *)
(* or to supply the address.                                               *)
(*                                                                         *)
(* An account is a network and a credential counter; the accounts of a     *)
(* network share an identity, and so the PRF key.                          *)
(***************************************************************************)
EXTENDS Device

CONSTANT MaxChallenges   \* challenges a host asks for

ASSUME ChallengesAssumption == MaxChallenges \in Nat

VARIABLES
    challenge,   \* g_stored_challenge, 0 when erased
    bound,       \* g_trusted_name, g_trusted_address, g_trusted_chain_id; NoBinding when not valid
    issued,      \* history: challenges issued so far, the last of them the newest
    tried,       \* history: has a descriptor been presented since
    certified    \* history: reviews that a descriptor vouched for

challengeVars == <<challenge, issued, tried>>
nameVars == <<challengeVars, bound, certified>>

VERIFY    == "VERIFY_ADDRESS"
SETNAME   == "SET_TRUSTED_NAME"
CHALLENGE == "GET_CHALLENGE"

NoBinding == [owner |-> NoPath, name |-> "none", chain |-> "none"]

-----------------------------------------------------------------------------
(* Paths, keys and addresses. *)

\* m/44'/coin'/idp'/identity'/3', the path of the identity's PRF key.
PrfPath(network) == <<network, "prf">>

\* No account is at the path of a PRF key.
ASSUME PathsAssumption == \A p \in Paths : p = <<p[1], p[2]>> /\ p[2] # "prf"

\* get_public_key: the key of a path stands for the path.
OwnerKey(p) == p

\* bls_compute_address: an address stands for the path taken as the PRF path,
\* and the counter.
DerivedAddress(p, counter) == <<p, counter>>

\* The address account p has on the chain.
AddressOf(p) == DerivedAddress(PrfPath(NetworkOf(p)), p[2])

\* A full path has no counter of its own.
FullPathCounter == "0"

full_path_names_one_account_Any(p) == TRUE
full_path_names_one_account(p) == p \in Paths

\* What the backend certifies: the address of an account, for the key of its
\* signing path or for the PRF key of its identity.
Descriptors ==
    {[owner |-> OwnerKey(p), name |-> AddressOf(p), chain |-> NetworkOf(p)] : p \in Paths} \cup
    {[owner |-> OwnerKey(PrfPath(NetworkOf(p))), name |-> AddressOf(p), chain |-> NetworkOf(p)] : p \in Paths}

-----------------------------------------------------------------------------
(* Challenge and descriptor. *)

handle_get_challenge ==
    /\ Enters(CHALLENGE)
    /\ issued < MaxChallenges
    /\ issued' = issued + 1
    /\ challenge' = issued + 1
    /\ tried' = FALSE
    /\ latch' = NONE
    /\ ctx' = Union
    /\ reply' = Success(<<"challenge", issued + 1>>)
    /\ UNCHANGED <<screen, keyPending, noFlow, bound, certified>>

\* The descriptor d, made for the challenge ch: parsed, then its fields, its
\* challenge and its signature checked.
verify_challenge(ch) == challenge # 0 /\ ch = challenge

\* trusted_name_send_set_error
EraseOnError_Keeps == challenge' = challenge
EraseOnError == challenge' = 0

handle_set_trusted_name ==
    /\ Enters(SETNAME)
    /\ tried' = TRUE
    /\ UNCHANGED <<noFlow, issued, certified>>
    /\ \/ /\ latch' = NONE /\ ctx' = Union /\ reply' = Refused         \* P1, P2, no data
          /\ EraseOnError
          /\ UNCHANGED <<screen, keyPending, bound>>
       \/ /\ latch' = NONE /\ ctx' = Wiped /\ reply' = Refused         \* any check fails
          /\ EraseOnError
          /\ bound' = NoBinding
          /\ UNCHANGED <<screen, keyPending>>
       \/ \E d \in Descriptors, ch \in 1 .. issued :
             /\ verify_challenge(ch)
             /\ bound' = d
             /\ challenge' = 0
             /\ ctx' = Wiped
             /\ send_success(<< >>)

-----------------------------------------------------------------------------
(* The review. *)

VerifyContext(address) == [view |-> "verify", address |-> address]

\* The compact formats show identity and counter, the full one the path.
CompactRow(p, counter) == <<"identity", p, counter>>
FullRow(p) == <<"path", p>>

uiVerifyAddress(row, p, address) ==
    [cb |-> "verify", items |-> {row, <<"network", NetworkOf(p)>>, <<"address", address>>}]

\* A wrong P1 or P2, or a full path without nodes: the path was reset before.
VerifyRefused ==
    /\ Enters(VERIFY)
    /\ path' = NoPath
    /\ send_rejection(VerifyContext("none"))
    /\ UNCHANGED <<hash, account, approved, nameVars>>

\* A parser, bls_compute_address or get_public_key throws; the binding stays.
VerifyThrows ==
    /\ Enters(VERIFY)
    /\ path' \in {NoPath, PrfPath("none")} \cup {PrfPath(NetworkOf(p)) : p \in Paths} \cup Paths
    /\ Throw
    /\ UNCHANGED <<hash, account, approved, nameVars>>

\* pki_bind_descriptor, without the choice of address.
Matches(p) ==
    /\ NetworkOf(p) # "none"
    /\ bound.chain = NetworkOf(p)
    /\ bound.owner = OwnerKey(p)

clear_trusted_name_binding_Keeps == bound' = bound
clear_trusted_name_binding == bound' = NoBinding

\* With p the path that is derived from, row its row on the screen: a descriptor
\* in store must fit, and is gone after, whether it did or not.
ReviewAddress(p, row, address, fits) ==
    /\ path' = p
    /\ UNCHANGED challengeVars
    /\ \/ /\ bound = NoBinding
          /\ Review(VERIFY, VerifyContext(address), uiVerifyAddress(row, p, address))
          /\ UNCHANGED <<bound, certified>>
       \/ /\ bound # NoBinding /\ fits
          /\ clear_trusted_name_binding
          /\ certified' = certified + 1
          /\ Review(VERIFY, VerifyContext(address), uiVerifyAddress(row, p, address))
       \/ /\ bound # NoBinding /\ ~fits
          /\ clear_trusted_name_binding
          /\ send_rejection(VerifyContext("none"))
          /\ UNCHANGED certified

\* P1_LEGACY_PATH and P1_NEW_PATH: the address is derived, and a descriptor has
\* to agree with it.
VerifyCompact ==
    \E network \in Networks, counter \in {p[2] : p \in Paths} :
        LET p       == PrfPath(network)
            address == DerivedAddress(p, counter)
        IN  /\ Enters(VERIFY)
            /\ ReviewAddress(p, CompactRow(p, counter), address,
                             Matches(p) /\ bound.name = address)
            /\ UNCHANGED <<hash, account, approved>>

\* P1_FULL_PATH: a descriptor supplies the address of a signing path; without
\* one the path is taken for a PRF path.
VerifyFull ==
    \E p \in Paths \cup {PrfPath(network) : network \in Networks} :
        /\ Enters(VERIFY)
        /\ ReviewAddress(p, FullRow(p),
                         IF bound = NoBinding THEN DerivedAddress(p, FullPathCounter) ELSE bound.name,
                         full_path_names_one_account(p) /\ Matches(p))
        /\ UNCHANGED <<hash, account, approved>>

\* Accept or decline.  NBGL answers and shows a status page, the latch held.
review_verify_address ==
    /\ screen.cb = "verify"
    /\ reply' \in {Success(<< >>), Declined}
    /\ \/ Bagl /\ ui_menu_main
       \/ ~Bagl /\ screen' = [cb |-> "status", items |-> {}] /\ UNCHANGED <<latch, keyPending>>
    /\ UNCHANGED <<ctx, noFlow, nameVars>>

VerifyPacket ==
    \/ handle_get_challenge \/ handle_set_trusted_name
    \/ VerifyRefused \/ VerifyThrows \/ VerifyCompact \/ VerifyFull
=============================================================================
