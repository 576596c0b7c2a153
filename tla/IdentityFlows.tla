---------------------------- MODULE IdentityFlows ---------------------------
(***************************************************************************)
(* What a user signs to be known to the chain, in one session: the public  *)
(* information for the identity provider, the deployment of a credential   *)
(* and the update of an account's credentials.                             *)
(***************************************************************************)
EXTENDS PublicInfoForIp, Credential

IdentityInss == CredentialInss \cup {IPINFO}

IdentityNext ==
    \/ IpPacket \/ CredentialPacket
    \/ CredentialButton
    \/ Shell(IdentityInss)
    \/ Restart

IdentitySpec == DeviceInit /\ [][IdentityNext]_deviceVars

-----------------------------------------------------------------------------
(* Properties. *)

\* Every variable keeps its type: no count of list entries to come wraps, and
\* each agrees with the stage that the flow is in.
IdentityTypeOK ==
    /\ latch \in IdentityInss \cup {NONE, "GET_APP_NAME"}
    /\ ctx = Wiped \/ IpContext(ctx) \/ CredentialContext(ctx)
    /\ path \in Paths \cup {NoPath}
    /\ screen.cb \in {"home", "stale", "proceed", "nextKey", "attribute", "added", "sign"}
    /\ keyPending = FALSE

IsIpTranscript(s) == s # << >> /\ s[1][1] = "idCredPub"

IdentityRows(s) == IF IsIpTranscript(s) THEN IpRows(s) ELSE CredentialRows(s)

\* What you see is what you sign: identifiers, every key, every revealed
\* attribute, the thresholds, the revokers and, of an update, header and
\* network, removed ids and each added credential, were on accepted screens,
\* although later packets overwrite the texts of earlier ones.
IdentitySignedWasReviewed ==
    HasSignature =>
        /\ IdentityRows(SignedItems) \subseteq approved
        /\ <<"kind", UPDATECRED>> \in ItemsOf(SignedItems) =>
               <<"network", NetworkOf(SigningPath)>> \in approved

\* A signature is only ever made over the packets the protocol lists: no stage
\* skipped, none replayed, every list as long as announced.
IdentitySignedIsComplete ==
    HasSignature => \/ IsPublicInfo(SignedItems)
                    \/ IsDeployment(SignedItems)
                    \/ IsUpdate(SignedItems)

IdentityContract == INSTANCE SigningContract
                        WITH collected <- hash, answer <- reply, Visible <- IdentityRows

\* The flows implement the contract of a signing instruction.
IdentityFlowsImplementContract == IdentityContract!ContractSpec
=============================================================================
