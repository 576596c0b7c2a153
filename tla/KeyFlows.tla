------------------------------ MODULE KeyFlows ------------------------------
(***************************************************************************)
(* The instructions about keys and addresses in one session: public keys,  *)
(* private keys, and the verification of an address.  All of them write    *)
(* the one derivation path and the one union that the callback of a review *)
(* reads later.                                                            *)
(***************************************************************************)
EXTENDS PublicKey, PrivateKeyExport, VerifyAddress

flowVars == <<keyVars, nameVars>>

\* The dispatcher lets SET_TRUSTED_NAME through with whatever it carries.
CheckedInss == {KEY, NEWKEYS, OLDKEYS, VERIFY, CHALLENGE}

KeyFlowsInit ==
    /\ DeviceInit
    /\ pinned = NoPath
    /\ challenge = 0 /\ bound = NoBinding
    /\ issued = 0 /\ tried = FALSE /\ certified = 0

KeyFlowsRestart ==
    /\ Restart
    /\ pinned' = NoPath /\ challenge' = 0 /\ bound' = NoBinding
    /\ UNCHANGED <<issued, tried, certified>>

KeyFlowsNext ==
    \/ (handle_get_public_key \/ KeyButton) /\ UNCHANGED nameVars
    \/ (ExportPacket \/ ExportButton) /\ UNCHANGED <<pinned, nameVars>>
    \/ (VerifyPacket \/ review_verify_address) /\ UNCHANGED pinned
    \/ (Shell(CheckedInss) \/ SwitchGuard(SETNAME)) /\ UNCHANGED <<pinned, nameVars>>
    \/ KeyFlowsRestart

KeyFlowsSpec == KeyFlowsInit /\ [][KeyFlowsNext]_flowVars

-----------------------------------------------------------------------------
(* Properties.  None of them leans on the SDK holding commands back while a *)
(* review is up.                                                           *)

\* A key sent from a review is the key of the identity that was on the accepted
\* screen, and it is the one offered for comparison, although the other
\* instructions overwrite the derivation path.
KeySentWasReviewed ==
    [][screen.cb = "key" /\ HasKey' /\ reply' # reply =>
          /\ <<"identity", IdentityOf(SentKey')>> \in screen.items
          /\ Bagl => <<"key", SentKey'>> \in screen.items
          /\ <<"key", SentKey'>> \in screen'.items]_flowVars

\* Private keys of the new format are those the accepted screen names, all of
\* them and no other: parameters that were overwritten or zeroed while the
\* review was up are never derived from.
NewKeysWereConsented ==
    [][screen.cb = "export" /\ HasSecrets' /\ reply' # reply
          => NewConsent(screen, Secrets')]_flowVars

\* However an export ends, no private key stays behind in the union.
NoSecretLeftBehind == ctx # Wiped /\ ctx.view = "export" => ctx.output = << >>

\* A challenge is good for one descriptor: after any attempt, be it refused for
\* its P1, its fields, its signature or accepted, none can follow on it.
ChallengeServesOneAttempt == tried => challenge = 0

\* Each review that a descriptor vouched for took a challenge of its own.
CertifiedReviewsAreFresh == certified <= issued

\* When the address on the screen is the address of an account, the row above
\* it names that account: by its counter, by its signing path, or by the PRF
\* path, which stands for counter 0.  A descriptor made for one account cannot
\* put its address beside the path of another.
VerifiedAddressIsOfShownPath ==
    screen.cb = "verify" =>
        \A p \in Paths : <<"address", AddressOf(p)>> \in screen.items =>
            \E row \in {CompactRow(PrfPath(NetworkOf(p)), p[2]), FullRow(p)}
                       \cup (IF p[2] = FullPathCounter THEN {FullRow(PrfPath(NetworkOf(p)))} ELSE {}) :
                row \in screen.items
=============================================================================
