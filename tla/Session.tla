------------------------------- MODULE Session ------------------------------
(***************************************************************************)
(* Public and private key export and transfers in one session: the         *)
(* instructions share the latch, the context union, the derivation path    *)
(* and the screen, and a key comparison screen stays up behind the flows   *)
(* that follow it.                                                         *)
(***************************************************************************)
EXTENDS Transfer, PublicKey, PrivateKeyExport

SessionInss == {TRANSFER, WITHMEMO, KEY, NEWKEYS, OLDKEYS}

SessionInit == DeviceInit /\ pinned = NoPath

TransferButton == buildAndSignTransactionHash \/ SigningFails \/ Decline

SessionRestart == Restart /\ pinned' = NoPath

SessionNext ==
    \/ TransferPacket /\ UNCHANGED pinned
    \/ TransferButton /\ UNCHANGED pinned
    \/ handle_get_public_key
    \/ KeyButton
    \/ (ExportPacket \/ ExportButton) /\ UNCHANGED pinned
    \/ Shell(SessionInss) /\ UNCHANGED pinned
    \/ SessionRestart

SessionSpec == SessionInit /\ [][SessionNext]_keyVars

-----------------------------------------------------------------------------
(* Properties. *)

ReviewShown == screen.cb \in {"sign", "key", "export", "exportLegacy"}

TransferContexts ==
    [view : {"transfer"}, state : TransferStates, to : Vals \cup {"none"},
     amount : Vals \cup {"none"},
     cbor : [length : 0 .. CborMax, buf : Seq(Vals \X (1 .. CborChunkMax))]]

KeyContexts ==
    [view : {"key"}, display : {IdentityOf(p) : p \in Paths} \cup {"none"}, signPublicKey : BOOLEAN]

ExportContexts ==
    [view : {"export"}, isNewPath : BOOLEAN, purpose : AllPurposes,
     network : Networks \cup {"mainnet"}, identity : Identities \cup {"none"},
     account : Vals \cup {"none"}, output : {<< >>}, exportBoth : BOOLEAN, exportSeed : BOOLEAN]

SessionContext == TransferContexts \cup KeyContexts \cup ExportContexts \cup {Wiped}

SessionPath ==
    Paths \cup {NoPath} \cup {LegacyPath(i) : i \in Identities}
          \cup {AtKey(LegacyPath(i), k) : i \in Identities, k \in {"PRF", "IdCredSec"}}

\* Every variable keeps its type; the memo buffer never holds more than the
\* 257 bytes it has room for, nor its count of bytes to come wraps.
SessionTypeOK ==
    /\ latch \in SessionInss \cup {NONE, "GET_APP_NAME"}
    /\ ctx \in SessionContext
    /\ ctx # Wiped /\ ctx.view = "transfer" => BufLen(ctx.cbor.buf) <= CborMax
    /\ hash \in Seq(TransferItem)
    /\ path \in SessionPath /\ pinned \in Paths \cup {NoPath}
    /\ account \in [header : Headers \cup {"none"}, network : Networks]
    /\ screen.cb \in {"home", "sign", "key", "compare", "status", "export", "exportLegacy"}
    /\ keyPending \in BOOLEAN

\* What you see is what you sign, with key requests before, between and after
\* the packets of the transfer: every row of the signed transfer, its memo as
\* a whole, and the network of the path that signs, were on the accepted screen.
TransferSignedWasReviewed ==
    HasSignature => /\ TransferRows(SignedItems) \subseteq approved
                    /\ <<"network", NetworkOf(SigningPath)>> \in approved

\* A signature is only ever made over a whole transfer, its memo as long as
\* was announced, whatever was refused, interrupted or abandoned before.
TransferSignedIsComplete == HasSignature => IsTransfer(SignedItems)

\* Private keys leave the device only from a review that named their identity,
\* their network or format, and their types, all of them or none, whatever ran
\* between the request and the answer.
ExportedKeysWereConsented ==
    [][HasSecrets' /\ reply' # reply =>
          \/ screen.cb = "export" /\ NewConsent(screen, Secrets')
          \/ screen.cb = "exportLegacy" /\ LegacyConsent(screen, Secrets')]_keyVars

\* A command is left unanswered exactly while a review that answers it is up.
SessionReplyOwedIffReviewUp == reply = Owed <=> ReviewShown

\* global_public_key_review_pending tells exactly whether a key review is on
\* screen: it neither locks key export out nor lets a review be replaced.
PendingIffKeyReviewUp == keyPending <=> screen.cb = "key"

\* A host that wants a transfer with a memo signed, and begins again when it is
\* refused; a user who accepts, and who leaves the screens of an earlier key
\* export at any moment.
MidTransfer ==
    /\ latch = WITHMEMO /\ ctx # Wiped /\ ctx.view = "transfer"
    /\ ctx.state \in {"MEMO_INITIAL", "MEMO", "AMOUNT"}
    /\ ctx.state = "MEMO_INITIAL" => ctx.cbor.length > 0

TransferHonestStep ==
    /\ \/ TransferInitialWithMemo /\ UNCHANGED pinned
       \/ TransferMemo /\ UNCHANGED pinned
       \/ TransferAmount /\ UNCHANGED pinned
       \/ TransferWrongState /\ UNCHANGED pinned
       \/ SwitchGuard(WITHMEMO) /\ UNCHANGED pinned
       \/ buildAndSignTransactionHash /\ UNCHANGED pinned
       \/ send_public_key_confirm \/ review_choice
       \/ (sendPrivateKeysNewPath \/ exportPrivateKey) /\ UNCHANGED pinned
       \/ StatusPageCloses /\ UNCHANGED pinned
    /\ MidTransfer \/ IsInitialCall => reply' # Refused
    /\ ctx' # Wiped /\ ctx'.view = "transfer" /\ ctx'.state = "MEMO_INITIAL" => ctx'.cbor.length > 0

\* Whatever came before, and although leaving a key comparison screen drops
\* the flow that started behind it, a host and user who do not give up end up
\* with signatures.
TransferHostGetsSignature ==
    WF_keyVars(TransferHonestStep) /\ <>[][TransferHonestStep]_keyVars => []<>HasSignature
=============================================================================
