----------------------------- MODULE Credential -----------------------------
(***************************************************************************)
(* INS_CREDENTIAL_DEPLOYMENT and INS_SIGN_UPDATE_CREDENTIAL: a credential  *)
(* is a long structure of counted lists, reviewed piece by piece because   *)
(* later packets overwrite the texts of earlier ones.  An update embeds    *)
(* the same parser, once for each credential it adds.                      *)
(***************************************************************************)
EXTENDS Device, FiniteSets

CONSTANTS
    ListMax,      \* longest list of keys, revokers, attributes, credentials or ids
    ProofMax,     \* longest proof
    CdataMax,     \* MAX_CDATA_LENGTH (255): proof bytes in a full packet
    Providers     \* indices of identity providers, as their decimal digits

\* An index of nine digits leaves its text of nine bytes without a NUL, one of
\* ten is refused: neither is modelled.
ASSUME CredentialAssumption ==
    /\ ListMax \in Nat /\ ProofMax \in Nat /\ CdataMax \in Nat \ {0}
    /\ \A q \in Providers : q \in Seq(0 .. 9) /\ Len(q) \in 1 .. 8

CREDENTIAL == "CREDENTIAL_DEPLOYMENT"
UPDATECRED == "SIGN_UPDATE_CREDENTIAL"
CredentialInss == {CREDENTIAL, UPDATECRED}

CredentialStates ==
    {"zero", "INITIAL", "VERIFICATION_KEYS_LENGTH", "VERIFICATION_KEY",
     "AWAITING_VERIFICATION_KEY_CONFIRM", "SIGNATURE_THRESHOLD", "AR_IDENTITY",
     "CREDENTIAL_DATES", "ATTRIBUTE_TAG", "ATTRIBUTE_VALUE", "LENGTH_OF_PROOFS", "PROOFS",
     "NEW_OR_EXISTING"}
UpdateStates ==
    {"INITIAL", "CREDENTIAL_INDEX", "CREDENTIAL", "ID_COUNT", "ID", "THRESHOLD"}

\* signCredentialDeploymentContext_t: the two states, the lists' counts down,
\* and the texts.  ars stands for the running digest of the revokers.
CredentialZero ==
    [view |-> "credential", state |-> "zero", update |-> "INITIAL", showIntro |-> FALSE,
     keysLeft |-> 0, arsLeft |-> 0, attributesLeft |-> 0, proofLeft |-> 0,
     credentialsLeft |-> 0, idsLeft |-> 0,
     key |-> "none", details |-> "none", provider |-> << >>, arLength |-> 0, ars |-> << >>, tag |-> "none"]

CredentialView(ins) ==
    IF IsInitialCall
    THEN IF ins = CREDENTIAL THEN [CredentialZero EXCEPT !.state = "INITIAL"] ELSE CredentialZero
    ELSE IF ctx = Wiped THEN CredentialZero ELSE ctx

-----------------------------------------------------------------------------
(* Screens. *)

KeyRow(c) == {<<"key", c.key>>}

ArThresholdRow(c) == <<"arThreshold", c.details, c.arLength>>

\* The rows of a credential, the last key among them.
DetailRows_LastArOnly(c) ==
    KeyRow(c) \cup {<<"signatureThreshold", c.details>>, ArThresholdRow(c),
                    <<"regIdCred", c.details>>, <<"identityProvider", c.provider>>,
                    <<"arList", SubSeq(c.ars, Len(c.ars), Len(c.ars))>>}
DetailRows(c) ==
    KeyRow(c) \cup {<<"signatureThreshold", c.details>>, ArThresholdRow(c),
                    <<"regIdCred", c.details>>, <<"identityProvider", c.provider>>,
                    <<"arList", c.ars>>}

\* BAGL: "Review details" acknowledges the packet, and so does "AR threshold".
FromReviewDetails(c) == IF Bagl /\ c.showIntro THEN {{}} ELSE {}
FromArThreshold(c) ==
    IF Bagl THEN {KeyRow(c) \cup {<<"signatureThreshold", c.details>>, ArThresholdRow(c)}} ELSE {}

uiSignCredentialDeploymentVerificationKeyFlowDisplay(c) ==
    [cb |-> "nextKey", items |-> KeyRow(c), early |-> FromReviewDetails(c)]
uiSignCredentialDeploymentAttributeDisplay(c, v) ==
    [cb |-> "attribute", items |-> {<<"attribute", c.tag, v>>}]
uiSignUpdateCredentialAddedCredentialDisplay(c) == [cb |-> "added", items |-> DetailRows(c)]
uiSignCredentialDeploymentExistingDisplay(c, account_) ==
    [cb |-> "sign",
     items |-> DetailRows(c) \cup IF account_[1] = "address" THEN {account_} ELSE {},
     early |-> FromReviewDetails(c) \cup FromArThreshold(c)]

uiSignUpdateCredentialInitialDisplay(sender) == [cb |-> "proceed", items |-> HeaderPairs(sender)]
uiSignUpdateCredentialIdDisplay(v) == [cb |-> "proceed", items |-> {<<"credId", v>>}]
uiSignUpdateCredentialThresholdDisplay(v) == [cb |-> "sign", items |-> {<<"threshold", v>>}]

-----------------------------------------------------------------------------
(* The packets of a credential, on its own or embedded (P2 = 2).           *)

\* The parser runs for ins in the given state.
InState(ins, state) ==
    /\ Enters(ins)
    /\ CredentialView(ins).state = state
    /\ ins = UPDATECRED => /\ CredentialView(ins).update = "CREDENTIAL"
                           /\ CredentialView(ins).credentialsLeft > 0
    /\ state # "INITIAL" => UNCHANGED txConst

\* P1_INITIAL_PACKET
CredentialInitial ==
    \E p \in Paths :
        /\ InState(CREDENTIAL, "INITIAL")
        /\ \/ /\ BeginTranscript(p, << >>)
              /\ Ack(CREDENTIAL, [CredentialView(CREDENTIAL) EXCEPT
                                     !.showIntro = TRUE, !.state = "VERIFICATION_KEYS_LENGTH"])
           \/ BeginThrows(p, << >>)

\* P1_VERIFICATION_KEY_LENGTH
CredentialKeysLength(ins) ==
    \E n \in 0 .. ListMax :
        /\ InState(ins, "VERIFICATION_KEYS_LENGTH")
        /\ Feed(<<<<"keysLength", n>>>>)
        /\ Ack(ins, [CredentialView(ins) EXCEPT !.keysLeft = n, !.state = "VERIFICATION_KEY"])

\* P1_VERIFICATION_KEY: reviewed at once, behind a state no packet matches,
\* except for the last, which is shown with the rest of the credential.
AfterKey_Open == "VERIFICATION_KEY"
AfterKey == "AWAITING_VERIFICATION_KEY_CONFIRM"

CredentialKey(ins) ==
    \E v \in Vals :
        LET c == CredentialView(ins)
            d == [c EXCEPT !.key = v, !.keysLeft = @ - 1]
        IN  /\ InState(ins, "VERIFICATION_KEY")
            /\ \/ Throw /\ UNCHANGED hash
               \/ /\ c.keysLeft > 1
                  /\ Feed(<<<<"key", v>>>>)
                  /\ Review(ins, [d EXCEPT !.state = AfterKey, !.showIntro = FALSE],
                            uiSignCredentialDeploymentVerificationKeyFlowDisplay(d))
               \/ /\ c.keysLeft = 1
                  /\ Feed(<<<<"key", v>>>>)
                  /\ Ack(ins, [d EXCEPT !.state = "SIGNATURE_THRESHOLD"])

\* number_to_text writes the digits of a number and no NUL: of a longer text
\* that was there before, the end stays.  Text written with bin_to_dec ends.
number_to_text(dst, number) == number \o SubSeq(dst, Len(number) + 1, Len(dst))

\* P1_SIGNATURE_THRESHOLD
CredentialDetails(ins) ==
    \E v \in Vals, q \in Providers, n \in 0 .. ListMax :
        LET items == <<<<"signatureThreshold", v>>, <<"regIdCred", v>>,
                       <<"identityProvider", q>>, <<"arThreshold", v, n>>>>
        IN  /\ InState(ins, "SIGNATURE_THRESHOLD")
            /\ \/ CredentialView(ins).keysLeft # 0 /\ Throw /\ UNCHANGED hash
               \/ CredentialView(ins).keysLeft = 0 /\ ThrowAfterPrefix(SubSeq(items, 1, 3))
               \/ /\ CredentialView(ins).keysLeft = 0
                  /\ Feed(items)
                  /\ Ack(ins, [CredentialView(ins) EXCEPT
                                  !.details = v, !.provider = number_to_text(@, q), !.arLength = n, !.arsLeft = n, !.ars = << >>,
                                  !.state = "AR_IDENTITY"])

\* P1_AR_IDENTITY
CredentialRevoker(ins) ==
    \E v \in Vals :
        LET c == CredentialView(ins)
        IN  /\ InState(ins, "AR_IDENTITY")
            /\ \/ Throw /\ UNCHANGED hash
               \/ /\ c.arsLeft # 0
                  /\ Feed(<<<<"ar", v>>>>)
                  /\ Ack(ins, [c EXCEPT !.ars = Append(@, v), !.arsLeft = @ - 1,
                                  !.state = IF c.arsLeft = 1 THEN "CREDENTIAL_DATES" ELSE @])

\* P1_CREDENTIAL_DATES
CredentialDates(ins) ==
    \E v \in Vals, n \in 0 .. ListMax :
        /\ InState(ins, "CREDENTIAL_DATES")
        /\ \/ Throw /\ UNCHANGED hash
           \/ /\ Feed(<<<<"dates", v, n>>>>)
              /\ Ack(ins, [CredentialView(ins) EXCEPT
                              !.attributesLeft = n,
                              !.state = IF n = 0 THEN "LENGTH_OF_PROOFS" ELSE "ATTRIBUTE_TAG"])

\* P1_ATTRIBUTE_TAG and P1_ATTRIBUTE_VALUE: a value with control bytes throws
\* after it has been hashed.
CredentialTag(ins) ==
    \E v \in Vals :
        /\ InState(ins, "ATTRIBUTE_TAG")
        /\ \/ ThrowAfterPrefix(<<<<"tag", v>>>>)
           \/ /\ Feed(<<<<"tag", v>>>>)
              /\ Ack(ins, [CredentialView(ins) EXCEPT !.tag = v, !.state = "ATTRIBUTE_VALUE"])

CredentialValue(ins) ==
    \E v \in Vals :
        LET c == CredentialView(ins)
        IN  /\ InState(ins, "ATTRIBUTE_VALUE")
            /\ \/ ThrowAfterPrefix(<<<<"value", v>>>>)
               \/ /\ Feed(<<<<"value", v>>>>)
                  /\ Review(ins, c, uiSignCredentialDeploymentAttributeDisplay(c, v))

\* P1_LENGTH_OF_PROOFS: hashed when P2 says that the credential is embedded.
CredentialProofLength(ins) ==
    \E n \in 0 .. ProofMax, embedded \in BOOLEAN :
        /\ InState(ins, "LENGTH_OF_PROOFS")
        /\ ins = UPDATECRED => embedded
        /\ \/ Throw /\ UNCHANGED hash
           \/ /\ Feed(IF embedded THEN <<<<"proofLength", n>>>> ELSE << >>)
              /\ Ack(ins, [CredentialView(ins) EXCEPT !.proofLeft = n, !.state = "PROOFS"])

\* P1_PROOFS: full packets, then the rest.  An added credential is shown now.
CredentialProofs(ins) ==
    LET c == CredentialView(ins)
    IN  /\ InState(ins, "PROOFS")
        /\ \/ c.proofLeft > 1 /\ Throw /\ UNCHANGED hash
           \/ /\ c.proofLeft > CdataMax
              /\ Feed(<<<<"proof", CdataMax>>>>)
              /\ Ack(ins, [c EXCEPT !.proofLeft = @ - CdataMax])
           \/ /\ c.proofLeft <= CdataMax
              /\ Feed(<<<<"proof", c.proofLeft>>>>)
              /\ IF ins = UPDATECRED
                 THEN Review(ins, c, uiSignUpdateCredentialAddedCredentialDisplay(c))
                 ELSE Ack(ins, [c EXCEPT !.state = "NEW_OR_EXISTING"])

\* P1_NEW_OR_EXISTING: the state is left as it is.
CredentialNewOrExisting(ins) ==
    \E v \in Vals, tag \in {"expiry", "address"} :
        LET items == <<<<"newOrExisting", tag>>, <<tag, v>>>>
            c     == CredentialView(ins)
        IN  /\ InState(ins, "NEW_OR_EXISTING")
            /\ \/ ThrowAfterPrefix(SubSeq(items, 1, 1))
               \/ /\ Feed(items)
                  /\ Review(ins, c, uiSignCredentialDeploymentExistingDisplay(c, <<tag, v>>))

-----------------------------------------------------------------------------
(* The packets of an update around the credentials it adds. *)

InUpdate(update) == Enters(UPDATECRED) /\ CredentialView(UPDATECRED).update = update

UpdateInitial ==
    \E h \in Headers, p \in Paths, n \in 0 .. ListMax :
        LET items == <<<<"kind", UPDATECRED>>, <<"credentialCount", n>>>>
        IN  /\ InUpdate("INITIAL")
            /\ \/ /\ hashAccountTransactionHeaderAndKind(h, p, items)
                  /\ Review(UPDATECRED,
                            [CredentialView(UPDATECRED) EXCEPT
                                !.credentialsLeft = n,
                                !.update = IF n = 0 THEN "ID_COUNT" ELSE "CREDENTIAL_INDEX"],
                            uiSignUpdateCredentialInitialDisplay(AccountSender(h, p)))
               \/ HeaderThrows(h, p, SubSeq(items, 1, 1))

UpdateIndex ==
    \E v \in Vals :
        /\ InUpdate("CREDENTIAL_INDEX")
        /\ CredentialView(UPDATECRED).credentialsLeft > 0
        /\ UNCHANGED txConst
        /\ Feed(<<<<"credentialIndex", v>>>>)
        /\ Ack(UPDATECRED, [CredentialView(UPDATECRED) EXCEPT
                               !.update = "CREDENTIAL", !.state = "VERIFICATION_KEYS_LENGTH"])

UpdateIdCount ==
    \E n \in 0 .. ListMax :
        /\ InUpdate("ID_COUNT")
        /\ UNCHANGED txConst
        /\ Feed(<<<<"idCount", n>>>>)
        /\ Ack(UPDATECRED, [CredentialView(UPDATECRED) EXCEPT
                               !.idsLeft = n, !.update = IF n = 0 THEN "THRESHOLD" ELSE "ID"])

UpdateId ==
    \E v \in Vals :
        LET c == [CredentialView(UPDATECRED) EXCEPT !.idsLeft = @ - 1]
        IN  /\ InUpdate("ID")
            /\ UNCHANGED txConst
            /\ \/ Throw /\ UNCHANGED hash
               \/ /\ Feed(<<<<"credId", v>>>>)
                  /\ Review(UPDATECRED, [c EXCEPT !.update = IF c.idsLeft = 0 THEN "THRESHOLD" ELSE @],
                            uiSignUpdateCredentialIdDisplay(v))

UpdateThreshold ==
    \E v \in Vals :
        /\ InUpdate("THRESHOLD")
        /\ UNCHANGED txConst
        /\ Feed(<<<<"threshold", v>>>>)
        /\ Review(UPDATECRED, CredentialView(UPDATECRED), uiSignUpdateCredentialThresholdDisplay(v))

\* A packet that does not match the state: ERROR_INVALID_STATE.
CredentialWrongState ==
    /\ \E ins \in CredentialInss : Enters(ins)
    /\ Throw
    /\ UNCHANGED noFlow

CredentialPacket ==
    \/ CredentialInitial
    \/ \E ins \in CredentialInss :
          \/ CredentialKeysLength(ins) \/ CredentialKey(ins) \/ CredentialDetails(ins)
          \/ CredentialRevoker(ins) \/ CredentialDates(ins)
          \/ CredentialTag(ins) \/ CredentialValue(ins)
          \/ CredentialProofLength(ins) \/ CredentialProofs(ins)
    \/ CredentialNewOrExisting(CREDENTIAL)
    \/ UpdateInitial \/ UpdateIndex \/ UpdateIdCount \/ UpdateId \/ UpdateThreshold
    \/ CredentialWrongState

-----------------------------------------------------------------------------
(* Buttons. *)

\* The union as a callback finds it.
OnScreen == IF ctx = Wiped THEN CredentialZero ELSE ctx

\* A callback that moves the flow on and acknowledges the packet.
MovesOn(c) ==
    /\ ctx' = c
    /\ reply' = Success(<< >>)
    /\ screen' = Stale
    /\ UNCHANGED <<latch, keyPending>>

CallbackFrame ==
    /\ approved' = approved \cup screen.items
    /\ UNCHANGED <<hash, path, account>>

processNextVerificationKey ==
    /\ screen.cb = "nextKey"
    /\ CallbackFrame
    /\ MovesOn([OnScreen EXCEPT !.state = IF OnScreen.keysLeft = 0 THEN "SIGNATURE_THRESHOLD"
                                          ELSE "VERIFICATION_KEY"])

confirmAttribute ==
    /\ screen.cb = "attribute"
    /\ CallbackFrame
    /\ IF OnScreen.attributesLeft = 0 THEN CallbackThrow
       ELSE MovesOn([OnScreen EXCEPT
                        !.attributesLeft = @ - 1,
                        !.state = IF OnScreen.attributesLeft = 1 THEN "LENGTH_OF_PROOFS"
                                  ELSE "ATTRIBUTE_TAG"])

AfterAdded_Early(c) == "ID_COUNT"
AfterAdded(c) == IF c.credentialsLeft = 1 THEN "ID_COUNT" ELSE "CREDENTIAL_INDEX"

confirmAddedCredential ==
    /\ screen.cb = "added"
    /\ CallbackFrame
    /\ IF OnScreen.credentialsLeft = 0 THEN CallbackThrow
       ELSE MovesOn([OnScreen EXCEPT
                        !.credentialsLeft = @ - 1,
                        !.update = AfterAdded(OnScreen),
                        !.state = IF OnScreen.credentialsLeft = 1 THEN "zero"
                                  ELSE "VERIFICATION_KEYS_LENGTH"])

\* On BAGL the reviews that ask to sign or to add a credential offer Decline.
DeclineCredential ==
    /\ screen.cb \in IF Bagl THEN {"added", "sign"}
                     ELSE {"proceed", "nextKey", "attribute", "added", "sign"}
    /\ UserDeclines

CredentialButton ==
    \/ processNextVerificationKey \/ confirmAttribute \/ confirmAddedCredential
    \/ sendSuccessNoIdleCallback \/ AcknowledgingStep
    \/ buildAndSignTransactionHash \/ SigningFails \/ DeclineCredential

CredentialNext == CredentialPacket \/ CredentialButton \/ Shell(CredentialInss) \/ Restart

CredentialSpec == DeviceInit /\ [][CredentialNext]_deviceVars

-----------------------------------------------------------------------------
(* Properties. *)

\* None of the six counts ever wraps, and what is left of a list is consistent
\* with the stage that the flow is in.
CredentialContext(c) ==
    /\ c.view = "credential" /\ c.state \in CredentialStates /\ c.update \in UpdateStates
    /\ {c.keysLeft, c.arsLeft, c.attributesLeft, c.credentialsLeft, c.idsLeft}
          \subseteq 0 .. ListMax
    /\ c.proofLeft \in 0 .. ProofMax
    /\ c.update = "CREDENTIAL" => c.credentialsLeft > 0
    /\ c.state \in {"ATTRIBUTE_TAG", "ATTRIBUTE_VALUE"} => c.attributesLeft > 0
    /\ c.state = "CREDENTIAL_DATES" => Len(c.ars) = c.arLength /\ c.arLength > 0

\* The rows owed to a transcript: the list of revokers by its digest, each
\* attribute with its name.  Dates, proofs, counts and indices have none; the
\* identity provider is left to AddedProvidersAreShown.
CredentialRows(s) ==
    {item \in ItemsOf(s) :
        item[1] \in {"header", "key", "signatureThreshold", "regIdCred", "arThreshold",
                     "address", "credId", "threshold"}}
    \cup {<<"arList", [k \in 1 .. s[i][3] |-> s[i + k][2]]>> :
             i \in {j \in DOMAIN s : s[j][1] = "arThreshold" /\ j + s[j][3] <= Len(s)}}
    \cup {<<"attribute", s[i][2], s[i + 1][2]>> :
             i \in {j \in DOMAIN s : s[j][1] = "tag" /\ j < Len(s)}}

Are(s, i, j, tag) == \A k \in i .. j : s[k][1] = tag

\* The items i .. e of s are one credential: a is where its thresholds stand, b
\* its dates and c its proofs.
IsCredential(s, i, e, embedded) ==
    \E a, b, c \in i .. e :
        /\ i + 1 < a /\ s[i] = <<"keysLength", a - i - 1>> /\ Are(s, i + 1, a - 1, "key")
        /\ a + 4 < b
        /\ [k \in 0 .. 3 |-> s[a + k][1]] =
               [k \in 0 .. 3 |-> <<"signatureThreshold", "regIdCred", "identityProvider",
                                   "arThreshold">>[k + 1]]
        /\ s[a + 3][3] = b - a - 4 /\ Are(s, a + 4, b - 1, "ar")
        /\ s[b][1] = "dates" /\ c = b + 2 * s[b][3] + 1
        /\ \A k \in b + 1 .. c - 1 : s[k][1] = IF (k - b) % 2 = 1 THEN "tag" ELSE "value"
        /\ \/ s[c][1] = "proofLength" /\ c < e /\ Are(s, c + 1, e, "proof")
              /\ s[c][2] = CdataMax * (e - c - 1) + s[e][2]
           \/ ~embedded /\ Are(s, c, e, "proof")

IsDeployment(s) ==
    /\ Len(s) > 2
    /\ s[Len(s) - 1] = <<"newOrExisting", s[Len(s)][1]>>
    /\ IsCredential(s, 1, Len(s) - 2, FALSE)

\* The removed ids begin at z, each added credential behind its index.
IsUpdate(s) ==
    LET starts == {i \in DOMAIN s : s[i][1] = "credentialIndex"}
    IN  /\ Len(s) > 4 /\ s[1][1] = "header" /\ s[2] = <<"kind", UPDATECRED>>
        /\ s[3] = <<"credentialCount", Cardinality(starts)>>
        /\ \E z \in DOMAIN s :
              /\ s[z][1] = "idCount" /\ Len(s) = z + s[z][2] + 1
              /\ Are(s, z + 1, Len(s) - 1, "credId") /\ s[Len(s)][1] = "threshold"
              /\ 4 \in starts \cup {z}
              /\ \A i \in starts : \E e \in i + 1 .. z - 1 :
                     e + 1 \in starts \cup {z} /\ IsCredential(s, i + 1, e, TRUE)

\* A signature is only ever made over a whole deployment or a whole update:
\* no stage skipped, none replayed, every list as long as announced.
CredentialSignedIsComplete ==
    HasSignature => IsDeployment(SignedItems) \/ IsUpdate(SignedItems)

\* Whatever the credentials an update adds, each is signed with the identity
\* provider that its own review named.
AddedProvidersAreShown ==
    HasSignature =>
        \A item \in ItemsOf(SignedItems) : item[1] = "identityProvider" => item \in approved

\* No further key is hashed before the last one has been accepted: the state
\* that parks the flow holds by itself, without the SDK holding commands back.
KeysWaitForReview ==
    [][Len(hash') > Len(hash) /\ hash'[Len(hash')][1] = "key"
          => \A item \in ItemsOf(hash) : item[1] = "key" => item \in approved]_deviceVars
=============================================================================
