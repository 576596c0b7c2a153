--------------------------- MODULE KeyFlowsProofs ---------------------------
(***************************************************************************)
(* Proofs about KeyFlows, for every set of paths, values and purposes and  *)
(* any number of challenges, on either screen technology, and whether or   *)
(* not the SDK holds commands back.                                        *)
(***************************************************************************)
EXTENDS KeyFlows, TLAPS

-----------------------------------------------------------------------------
(* Challenges.  Each one issued is in store, spent on the binding that is  *)
(* in store, spent on a review, or lost: it is never counted twice.        *)

InStore(b, c) == (IF b = NoBinding THEN 0 ELSE 1) + (IF c = 0 THEN 0 ELSE 1)

ChallengeInv ==
    /\ issued \in Nat /\ certified \in Nat
    /\ tried => challenge = 0
    /\ certified + InStore(bound, challenge) <= issued

LEMMA ChallengeInvInit == KeyFlowsInit => ChallengeInv
  BY DEF KeyFlowsInit, ChallengeInv, InStore

LEMMA ChallengeInvUnchanged ==
    ASSUME ChallengeInv, UNCHANGED nameVars PROVE ChallengeInv'
  BY DEF ChallengeInv, InStore, nameVars, challengeVars

LEMMA GetChallengeKeeps == ASSUME ChallengeInv, handle_get_challenge PROVE ChallengeInv'
<1>1. /\ issued' = issued + 1 /\ challenge' = issued + 1 /\ tried' = FALSE
      /\ bound' = bound /\ certified' = certified
  BY DEF handle_get_challenge
<1>2. InStore(bound', challenge') <= InStore(bound, challenge) + 1
  BY <1>1 DEF InStore
<1>3. InStore(bound, challenge) \in Nat /\ InStore(bound', challenge') \in Nat
  BY DEF InStore
<1> QED
  BY <1>1, <1>2, <1>3 DEF ChallengeInv

LEMMA SetTrustedNameKeeps == ASSUME ChallengeInv, handle_set_trusted_name PROVE ChallengeInv'
<1>1. issued' = issued /\ certified' = certified
  BY DEF handle_set_trusted_name
<1>2. challenge' = 0 /\ (bound' = bound \/ bound' = NoBinding \/ challenge # 0)
  BY DEF handle_set_trusted_name, EraseOnError, verify_challenge
<1>3. InStore(bound', challenge') <= InStore(bound, challenge)
  BY <1>2 DEF InStore
<1>4. InStore(bound, challenge) \in Nat /\ InStore(bound', challenge') \in Nat
  BY DEF InStore
<1> QED
  BY <1>1, <1>2, <1>3, <1>4 DEF ChallengeInv

LEMMA ReviewAddressKeeps ==
    ASSUME NEW p, NEW row, NEW address, NEW fits, ChallengeInv, ReviewAddress(p, row, address, fits)
    PROVE  ChallengeInv'
<1>1. issued' = issued /\ challenge' = challenge /\ tried' = tried
  BY DEF ReviewAddress, challengeVars
<1>2. \/ bound' = bound /\ certified' = certified
      \/ bound # NoBinding /\ bound' = NoBinding /\ certified' \in {certified, certified + 1}
  BY DEF ReviewAddress, clear_trusted_name_binding
<1> QED
  BY <1>1, <1>2 DEF ChallengeInv, InStore

LEMMA ChallengeInvStep == ChallengeInv /\ [KeyFlowsNext]_flowVars => ChallengeInv'
<1> SUFFICES ASSUME ChallengeInv, [KeyFlowsNext]_flowVars PROVE ChallengeInv'
  OBVIOUS
<1>1. CASE UNCHANGED nameVars
  BY <1>1, ChallengeInvUnchanged
<1>2. CASE handle_get_challenge
  BY <1>2, GetChallengeKeeps
<1>3. CASE handle_set_trusted_name
  BY <1>3, SetTrustedNameKeeps
<1>4. CASE VerifyCompact
  BY <1>4, ReviewAddressKeeps DEF VerifyCompact
<1>5. CASE VerifyFull
  BY <1>5, ReviewAddressKeeps DEF VerifyFull
<1>6. CASE KeyFlowsRestart
  BY <1>6 DEF KeyFlowsRestart, ChallengeInv, InStore
<1>7. \/ UNCHANGED nameVars
      \/ handle_get_challenge \/ handle_set_trusted_name \/ VerifyCompact \/ VerifyFull
      \/ KeyFlowsRestart
  BY DEF KeyFlowsNext, VerifyPacket, VerifyRefused, VerifyThrows, review_verify_address, flowVars
<1> QED
  BY <1>1, <1>2, <1>3, <1>4, <1>5, <1>6, <1>7

\* Whatever becomes of an attempt to set a trusted name, and in whatever order
\* commands, buttons and restarts come, its challenge is gone after it.
THEOREM ChallengeIsSpent == KeyFlowsSpec => []ChallengeServesOneAttempt
<1>1. ChallengeInv => ChallengeServesOneAttempt
  BY DEF ChallengeInv, ChallengeServesOneAttempt
<1> QED
  BY <1>1, ChallengeInvInit, ChallengeInvStep, PTL DEF KeyFlowsSpec

\* However many descriptors are replayed, no more reviews are vouched for than
\* challenges were issued.
THEOREM ReviewsAreFresh == KeyFlowsSpec => []CertifiedReviewsAreFresh
<1>1. ChallengeInv => CertifiedReviewsAreFresh
  BY DEF ChallengeInv, CertifiedReviewsAreFresh, InStore
<1> QED
  BY <1>1, ChallengeInvInit, ChallengeInvStep, PTL DEF KeyFlowsSpec

-----------------------------------------------------------------------------
(* Public keys.  A key review on screen is the review of the pinned path,  *)
(* and no request is taken while it is there.                              *)

KeyReviewInv == screen.cb = "key" => keyPending /\ screen = uiGeneratePubkey(pinned)

\* What any step but a key request does to the three.
KeyReviewKept ==
    \/ UNCHANGED <<screen, keyPending, pinned>>
    \/ screen'.cb # "key"

LEMMA KeptIsEnough == ASSUME KeyReviewInv, KeyReviewKept PROVE KeyReviewInv'
  BY DEF KeyReviewInv, KeyReviewKept, uiGeneratePubkey

LEMMA MenuKeeps == ui_menu_main => KeyReviewKept
  BY DEF ui_menu_main, KeyReviewKept, Home

LEMMA KeyButtonKeeps == ASSUME KeyButton PROVE KeyReviewKept
<1>1. CASE send_public_key_confirm
  BY <1>1, MenuKeeps DEF send_public_key_confirm, CallbackThrow, KeyReviewKept, uiComparePubkey
<1>2. CASE DeclineKey
  BY <1>2, MenuKeeps DEF DeclineKey, UserDeclines, send_user_rejection
<1>3. CASE review_choice
  BY <1>3, MenuKeeps DEF review_choice, KeyReviewKept
<1>4. CASE StatusPageCloses /\ UNCHANGED pinned
  BY <1>4, MenuKeeps DEF StatusPageCloses
<1> QED
  BY <1>1, <1>2, <1>3, <1>4 DEF KeyButton

LEMMA ExportKeeps == ASSUME ExportPacket \/ ExportButton, UNCHANGED pinned PROVE KeyReviewKept
<1>1. CASE handle_export_private_key_new_path
  <2>1. \A c : uiExportPrivateKeysNewPath(c).cb # "key"
    BY DEF uiExportPrivateKeysNewPath
  <2>2. (UNCHANGED screen /\ UNCHANGED keyPending) \/ \E c : screen' = uiExportPrivateKeysNewPath(c)
    BY <1>1, Zenon DEF handle_export_private_key_new_path, Throw, Review
  <2> QED
    BY <2>1, <2>2 DEF KeyReviewKept
<1>2. CASE handle_export_private_key_legacy_path
  <2>1. \A i, c : uiExportPrivateKey(i, c).cb # "key"
    BY DEF uiExportPrivateKey
  <2>2. (UNCHANGED screen /\ UNCHANGED keyPending) \/ \E i, c : screen' = uiExportPrivateKey(i, c)
    BY <1>2, Zenon DEF handle_export_private_key_legacy_path, Throw, Review
  <2> QED
    BY <2>1, <2>2 DEF KeyReviewKept
<1>3. CASE sendPrivateKeysNewPath
  BY <1>3, MenuKeeps DEF sendPrivateKeysNewPath, send_success
<1>4. CASE rejectPrivateKeysNewPath
  BY <1>4, MenuKeeps DEF rejectPrivateKeysNewPath, send_user_rejection
<1>5. CASE exportPrivateKey
  BY <1>5, MenuKeeps DEF exportPrivateKey, send_success, CallbackThrow
<1>6. CASE DeclineLegacyExport
  BY <1>6, MenuKeeps DEF DeclineLegacyExport, UserDeclines, send_user_rejection
<1> QED
  BY <1>1, <1>2, <1>3, <1>4, <1>5, <1>6 DEF ExportPacket, ExportButton

LEMMA ReviewAddressKeepsKeys ==
    ASSUME NEW p, NEW row, NEW address, NEW fits, ReviewAddress(p, row, address, fits),
           UNCHANGED pinned
    PROVE  KeyReviewKept
  BY DEF ReviewAddress, Review, send_rejection, uiVerifyAddress, KeyReviewKept

LEMMA VerifyKeeps ==
    ASSUME VerifyPacket \/ review_verify_address, UNCHANGED pinned PROVE KeyReviewKept
<1>1. CASE handle_get_challenge
  BY <1>1 DEF handle_get_challenge, KeyReviewKept
<1>2. CASE handle_set_trusted_name
  BY <1>2, MenuKeeps DEF handle_set_trusted_name, send_success, KeyReviewKept
<1>3. CASE VerifyRefused \/ VerifyThrows
  BY <1>3 DEF VerifyRefused, VerifyThrows, send_rejection, Throw, KeyReviewKept
<1>4. CASE VerifyCompact
  BY <1>4, ReviewAddressKeepsKeys DEF VerifyCompact
<1>5. CASE VerifyFull
  BY <1>5, ReviewAddressKeepsKeys DEF VerifyFull
<1>6. CASE review_verify_address
  BY <1>6, MenuKeeps DEF review_verify_address, KeyReviewKept
<1> QED
  BY <1>1, <1>2, <1>3, <1>4, <1>5, <1>6 DEF VerifyPacket

LEMMA ShellKeeps ==
    ASSUME Shell(CheckedInss) \/ SwitchGuard(SETNAME), UNCHANGED pinned PROVE KeyReviewKept
<1>1. CASE AboutBack
  BY <1>1, MenuKeeps DEF AboutBack
<1>2. CASE UNCHANGED <<screen, keyPending>>
  BY <1>2 DEF KeyReviewKept
<1>3. AboutBack \/ UNCHANGED <<screen, keyPending>>
  BY DEF Shell, BadCommand, SwitchGuard, RefusedByDispatcher, AppInfo, UnknownInstruction,
         send_rejection
<1> QED
  BY <1>1, <1>2, <1>3

LEMMA KeyRequestKeeps == ASSUME KeyReviewInv, handle_get_public_key PROVE KeyReviewInv'
<1>1. CASE UNCHANGED <<screen, keyPending, pinned>>
  BY <1>1, KeptIsEnough DEF KeyReviewKept
<1>2. CASE ~keyPending /\ UNCHANGED <<screen, keyPending>>
  BY <1>2 DEF KeyReviewInv
<1>3. CASE ui_menu_main
  BY <1>3, MenuKeeps, KeptIsEnough
<1>4. CASE keyPending' = TRUE /\ screen' = uiGeneratePubkey(pinned')
  BY <1>4 DEF KeyReviewInv, uiGeneratePubkey
<1>5. \/ UNCHANGED <<screen, keyPending, pinned>>
      \/ ~keyPending /\ UNCHANGED <<screen, keyPending>>
      \/ ui_menu_main
      \/ keyPending' = TRUE /\ screen' = uiGeneratePubkey(pinned')
  BY DEF handle_get_public_key, RefuseWhilePending, send_success, Throw
<1> QED
  BY <1>1, <1>2, <1>3, <1>4, <1>5

LEMMA KeyReviewInvStep == KeyReviewInv /\ [KeyFlowsNext]_flowVars => KeyReviewInv'
<1> SUFFICES ASSUME KeyReviewInv, [KeyFlowsNext]_flowVars PROVE KeyReviewInv'
  OBVIOUS
<1>1. CASE handle_get_public_key
  BY <1>1, KeyRequestKeeps
<1>2. CASE KeyButton
  BY <1>2, KeyButtonKeeps, KeptIsEnough
<1>3. CASE (ExportPacket \/ ExportButton) /\ UNCHANGED pinned
  BY <1>3, ExportKeeps, KeptIsEnough
<1>4. CASE (VerifyPacket \/ review_verify_address) /\ UNCHANGED pinned
  BY <1>4, VerifyKeeps, KeptIsEnough
<1>5. CASE (Shell(CheckedInss) \/ SwitchGuard(SETNAME)) /\ UNCHANGED pinned
  BY <1>5, ShellKeeps, KeptIsEnough
<1>6. CASE KeyFlowsRestart
  BY <1>6, KeptIsEnough DEF KeyFlowsRestart, Restart, KeyReviewKept, Home
<1>7. CASE UNCHANGED flowVars
  BY <1>7, KeptIsEnough DEF flowVars, keyVars, deviceVars, KeyReviewKept
<1> QED
  BY <1>1, <1>2, <1>3, <1>4, <1>5, <1>6, <1>7 DEF KeyFlowsNext

LEMMA KeyReviewInvInit == KeyFlowsInit => KeyReviewInv
  BY DEF KeyFlowsInit, DeviceInit, KeyReviewInv, Home

\* The step property of KeySentWasReviewed.
KeyStep ==
    screen.cb = "key" /\ HasKey' /\ reply' # reply =>
        /\ <<"identity", IdentityOf(SentKey')>> \in screen.items
        /\ Bagl => <<"key", SentKey'>> \in screen.items
        /\ <<"key", SentKey'>> \in screen'.items

LEMMA ConfirmSendsPinned == ASSUME KeyReviewInv, send_public_key_confirm PROVE KeyStep
<1>1. CASE CallbackThrow
  BY <1>1 DEF CallbackThrow, Refused, HasKey, KeyStep
<1>2. CASE \E signed \in SignFlags :
              /\ reply' = KeyReply(pinned, signed)
              /\ screen' = uiComparePubkey(DisplayIn(ctx), KeyOf(pinned))
  <2>1. PICK signed : reply' = Success(<<"key", pinned, signed>>)
    BY <1>2 DEF KeyReply, KeyOf
  <2>2. SentKey' = pinned
    BY <2>1 DEF SentKey, Success
  <2>3. screen = uiGeneratePubkey(pinned) /\ screen' = uiComparePubkey(DisplayIn(ctx), pinned)
    BY <1>2 DEF KeyReviewInv, send_public_key_confirm, KeyOf
  <2>4. <<"identity", IdentityOf(pinned)>> \in screen.items
    BY <2>3 DEF uiGeneratePubkey
  <2>5. Bagl => <<"key", pinned>> \in screen.items
    BY <2>3 DEF uiGeneratePubkey, KeyOf
  <2>6. <<"key", pinned>> \in screen'.items
    BY <2>3 DEF uiComparePubkey
  <2> QED
    BY <2>2, <2>4, <2>5, <2>6 DEF KeyStep
<1> QED
  BY <1>1, <1>2 DEF send_public_key_confirm, PathToSend

\* No other step sends a key while a key review is up.
SendsNoKey ==
    \/ UNCHANGED reply
    \/ reply' \in {Owed, Refused, Declined, Idle, Success(<< >>)}
    \/ \E x : reply' = Success(<<"challenge", x>>)
    \/ \E x : reply' = Success(<<"secrets", x>>)

LEMMA SendsNoKeyIsEnough == SendsNoKey => KeyStep
  BY DEF SendsNoKey, KeyStep, HasKey, Owed, Refused, Declined, Idle, Success

LEMMA KeyStepHolds == KeyReviewInv /\ [KeyFlowsNext]_flowVars => [KeyStep]_flowVars
<1> SUFFICES ASSUME KeyReviewInv, KeyFlowsNext PROVE KeyStep
  OBVIOUS
<1>1. CASE handle_get_public_key
  <2>1. CASE screen.cb # "key"
    BY <2>1 DEF KeyStep
  <2>2. CASE screen.cb = "key"
    <3>1. keyPending
      BY <2>2 DEF KeyReviewInv
    <3>2. reply' = Refused
      BY <1>1, <3>1 DEF handle_get_public_key, RefuseWhilePending
    <3> QED
      BY <3>2, SendsNoKeyIsEnough DEF SendsNoKey
  <2> QED
    BY <2>1, <2>2
<1>2. CASE KeyButton
  BY <1>2, ConfirmSendsPinned, SendsNoKeyIsEnough
     DEF KeyButton, DeclineKey, UserDeclines, send_user_rejection, review_choice,
         StatusPageCloses, SendsNoKey
<1>3. CASE ExportPacket
  BY <1>3, SendsNoKeyIsEnough, Zenon
     DEF ExportPacket, handle_export_private_key_new_path, handle_export_private_key_legacy_path,
         Throw, Review, SendsNoKey
<1>4. CASE ExportButton
  BY <1>4, SendsNoKeyIsEnough
     DEF ExportButton, sendPrivateKeysNewPath, rejectPrivateKeysNewPath, exportPrivateKey,
         DeclineLegacyExport, UserDeclines, send_user_rejection, send_success, CallbackThrow,
         ui_menu_main, SendsNoKey
<1>5. CASE VerifyPacket \/ review_verify_address
  <2>1. CASE VerifyCompact \/ VerifyFull
    <3>1. PICK p, row, address, fits : ReviewAddress(p, row, address, fits)
      BY <2>1 DEF VerifyCompact, VerifyFull
    <3> QED
      BY <3>1, SendsNoKeyIsEnough DEF ReviewAddress, Review, send_rejection, SendsNoKey
  <2>2. CASE handle_get_challenge \/ handle_set_trusted_name
    BY <2>2, SendsNoKeyIsEnough
       DEF handle_get_challenge, handle_set_trusted_name, send_success, ui_menu_main, SendsNoKey
  <2>3. CASE VerifyRefused \/ VerifyThrows \/ review_verify_address
    BY <2>3, SendsNoKeyIsEnough
       DEF VerifyRefused, VerifyThrows, review_verify_address, send_rejection, Throw, SendsNoKey
  <2> QED
    BY <1>5, <2>1, <2>2, <2>3 DEF VerifyPacket
<1>6. CASE Shell(CheckedInss) \/ SwitchGuard(SETNAME)
  BY <1>6, SendsNoKeyIsEnough
     DEF Shell, BadCommand, SwitchGuard, RefusedByDispatcher, AppInfo, UnknownInstruction,
         AboutBack, send_rejection, SendsNoKey
<1>7. CASE KeyFlowsRestart
  BY <1>7, SendsNoKeyIsEnough DEF KeyFlowsRestart, Restart, SendsNoKey
<1> QED
  BY <1>1, <1>2, <1>3, <1>4, <1>5, <1>6, <1>7 DEF KeyFlowsNext

\* The key sent from a review is the key of the identity that was reviewed,
\* whatever wrote the derivation path while the review was up: it is derived
\* from the pinned path.
THEOREM SentKeyWasReviewed == KeyFlowsSpec => KeySentWasReviewed
<1>1. [KeyStep]_flowVars =>
         [screen.cb = "key" /\ HasKey' /\ reply' # reply =>
             /\ <<"identity", IdentityOf(SentKey')>> \in screen.items
             /\ Bagl => <<"key", SentKey'>> \in screen.items
             /\ <<"key", SentKey'>> \in screen'.items]_flowVars
  BY DEF KeyStep
<1> QED
  BY <1>1, KeyReviewInvInit, KeyReviewInvStep, KeyStepHolds, PTL DEF KeyFlowsSpec, KeySentWasReviewed

-----------------------------------------------------------------------------
(* Private keys.  An export context in the union is a request without      *)
(* output; and while its review is up, a request with the witness          *)
(* isNewPath in the union is the one that was drawn.                       *)

Requests ==
    [view : {"export"}, isNewPath : BOOLEAN, purpose : AllPurposes,
     network : Networks \cup {"mainnet"}, identity : Identities \cup {"none"},
     account : Vals \cup {"none"}, output : {<< >>}, exportBoth : BOOLEAN, exportSeed : BOOLEAN]

RequestInStore(c) == c # Wiped /\ c.view = "export" => c \in Requests

Reviewed(c, s) ==
    s.cb = "export" /\ c.isNewPath = TRUE =>
        /\ s = uiExportPrivateKeysNewPath(c)
        /\ c.identity \in Identities /\ c.network \in Networks

ExportInv == RequestInStore(ctx) /\ Reviewed(AsExport(ctx), screen)

LEMMA ZeroIsRequest == ExportZero \in Requests /\ ExportZero.isNewPath = FALSE
  BY DEF ExportZero, Requests, AllPurposes

LEMMA RequestIsItself == ASSUME NEW c \in Requests PROVE AsExport(c) = c /\ RequestInStore(c)
<1>1. c.view = "export"
  BY DEF Requests
<1>2. c # Wiped
  BY <1>1 DEF Wiped
<1> QED
  BY <1>1, <1>2 DEF AsExport, RequestInStore

LEMMA AsExportType == ASSUME NEW c, RequestInStore(c) PROVE AsExport(c) \in Requests
  BY ZeroIsRequest DEF RequestInStore, AsExport

LEMMA WipedIsZero == RequestInStore(Wiped) /\ AsExport(Wiped) = ExportZero
  BY DEF RequestInStore, AsExport

LEMMA UnionType == ASSUME RequestInStore(ctx) PROVE RequestInStore(Union)
  BY WipedIsZero DEF Union

\* What any step but the packets and buttons of an export does to union and
\* screen: it leaves the request and draws nothing new, or leaves no request.
ExportKept ==
    \/ ctx' = ctx /\ (UNCHANGED screen \/ screen'.cb # "export")
    \/ RequestInStore(ctx') /\ AsExport(ctx') = ExportZero

LEMMA ExportKeptIsEnough == ASSUME ExportInv, ExportKept PROVE ExportInv'
<1>1. CASE ctx' = ctx /\ (UNCHANGED screen \/ screen'.cb # "export")
  BY <1>1 DEF ExportInv, Reviewed
<1>2. CASE RequestInStore(ctx') /\ AsExport(ctx') = ExportZero
  BY <1>2, ZeroIsRequest DEF ExportInv, Reviewed
<1> QED
  BY <1>1, <1>2 DEF ExportKept

LEMMA OtherViewsAreZero ==
    /\ \A d, f : RequestInStore(KeyContext(d, f)) /\ AsExport(KeyContext(d, f)) = ExportZero
    /\ \A a : RequestInStore(VerifyContext(a)) /\ AsExport(VerifyContext(a)) = ExportZero
  BY DEF RequestInStore, AsExport, KeyContext, VerifyContext

LEMMA WipedKeeps == ASSUME ctx' = Wiped PROVE ExportKept
  BY WipedIsZero DEF ExportKept

LEMMA UnionKeeps == ASSUME ctx' = Union, UNCHANGED screen PROVE ExportKept
  BY WipedIsZero DEF ExportKept, Union

LEMMA KeyStepsKeepExports == ASSUME handle_get_public_key \/ KeyButton PROVE ExportKept
<1>1. CASE handle_get_public_key
  <2>1. \/ ctx' = Union /\ UNCHANGED screen
        \/ ctx' = Wiped
        \/ \E d, f : ctx' = KeyContext(d, f)
    BY <1>1 DEF handle_get_public_key, Throw
  <2> QED
    BY <2>1, WipedKeeps, UnionKeeps, OtherViewsAreZero DEF ExportKept
<1>2. CASE KeyButton
  <2>1. ctx' = Wiped \/ (ctx' = ctx /\ screen'.cb # "export")
    BY <1>2 DEF KeyButton, send_public_key_confirm, CallbackThrow, DeclineKey, UserDeclines,
            send_user_rejection, review_choice, StatusPageCloses, ui_menu_main, Home, uiComparePubkey
  <2> QED
    BY <2>1, WipedKeeps DEF ExportKept
<1> QED
  BY <1>1, <1>2

LEMMA VerifyStepsKeepExports == ASSUME VerifyPacket \/ review_verify_address PROVE ExportKept
<1>1. CASE VerifyCompact \/ VerifyFull
  <2>1. PICK p, row, address, fits : ReviewAddress(p, row, address, fits)
    BY <1>1 DEF VerifyCompact, VerifyFull
  <2>2. \E a : ctx' = VerifyContext(a)
    BY <2>1 DEF ReviewAddress, Review, send_rejection
  <2> QED
    BY <2>2, OtherViewsAreZero DEF ExportKept
<1>2. CASE handle_get_challenge \/ handle_set_trusted_name
  BY <1>2, WipedKeeps, UnionKeeps DEF handle_get_challenge, handle_set_trusted_name
<1>3. CASE VerifyRefused
  BY <1>3, OtherViewsAreZero DEF VerifyRefused, send_rejection, ExportKept
<1>4. CASE VerifyThrows
  BY <1>4, WipedKeeps DEF VerifyThrows, Throw
<1>5. CASE review_verify_address
  BY <1>5 DEF review_verify_address, ui_menu_main, Home, ExportKept
<1> QED
  BY <1>1, <1>2, <1>3, <1>4, <1>5 DEF VerifyPacket

LEMMA ShellKeepsExports == ASSUME Shell(CheckedInss) \/ SwitchGuard(SETNAME) PROVE ExportKept
<1>1. \/ ctx' = ctx /\ (UNCHANGED screen \/ screen' = Home)
      \/ ctx' = Union /\ UNCHANGED screen
  BY DEF Shell, BadCommand, SwitchGuard, RefusedByDispatcher, AppInfo, UnknownInstruction,
         send_rejection, AboutBack, ui_menu_main
<1> QED
  BY <1>1, UnionKeeps DEF ExportKept, Home

LEMMA NewRequestKeeps ==
    ASSUME ExportInv, handle_export_private_key_new_path PROVE ExportInv'
<1>1. CASE Throw
  BY <1>1, WipedKeeps, ExportKeptIsEnough DEF Throw
<1>2. CASE ~Throw
  <2> DEFINE c(purpose, p, a) ==
               [AsExport(Union) EXCEPT !.isNewPath = TRUE, !.purpose = purpose,
                   !.network = NetworkOf(p), !.identity = p[2],
                   !.account = IF need_account_suffix(purpose) THEN a ELSE "none",
                   !.output = << >>]
  <2>1. PICK purpose \in Purposes, p \in Paths, a \in Vals :
           ctx' = c(purpose, p, a) /\ screen' = uiExportPrivateKeysNewPath(c(purpose, p, a))
    BY <1>2, Zenon DEF handle_export_private_key_new_path, Review
  <2>2. AsExport(Union) \in Requests
    BY UnionType, AsExportType DEF ExportInv
  <2>3. purpose \in AllPurposes /\ NetworkOf(p) \in Networks /\ p[2] \in Identities
    BY PurposesAssumption DEF Networks, Identities
  <2>4. /\ c(purpose, p, a) \in Requests
        /\ c(purpose, p, a).identity = p[2] /\ c(purpose, p, a).network = NetworkOf(p)
    BY <2>2, <2>3 DEF Requests
  <2>5. AsExport(ctx') = ctx' /\ RequestInStore(ctx')
    BY <2>1, <2>4, RequestIsItself
  <2> QED
    BY <2>1, <2>3, <2>4, <2>5 DEF ExportInv, Reviewed
<1> QED
  BY <1>1, <1>2

LEMMA LegacyRequestKeeps ==
    ASSUME ExportInv, handle_export_private_key_legacy_path PROVE ExportInv'
<1>1. CASE Throw
  BY <1>1, WipedKeeps, ExportKeptIsEnough DEF Throw
<1>2. CASE ~Throw
  <2> DEFINE c(both, seed) ==
               [AsExport(Union) EXCEPT !.isNewPath = FALSE, !.exportBoth = both, !.exportSeed = seed]
  <2>1. PICK both \in BOOLEAN, seed \in BOOLEAN : ctx' = c(both, seed)
    BY <1>2, Zenon DEF handle_export_private_key_legacy_path, Review
  <2>2. AsExport(Union) \in Requests
    BY UnionType, AsExportType DEF ExportInv
  <2>3. c(both, seed) \in Requests /\ c(both, seed).isNewPath = FALSE
    BY <2>2 DEF Requests
  <2>4. AsExport(ctx') = ctx' /\ RequestInStore(ctx')
    BY <2>1, <2>3, RequestIsItself
  <2> QED
    BY <2>1, <2>3, <2>4 DEF ExportInv, Reviewed
<1> QED
  BY <1>1, <1>2

\* However an export ends, its output is erased and the idle menu is drawn.
LEMMA ExportButtonKeeps == ASSUME ExportInv, ExportButton PROVE ExportInv'
<1>1. AsExport(ctx) \in Requests
  BY AsExportType DEF ExportInv
<1>2. screen' = Home
  BY Zenon DEF ExportButton, sendPrivateKeysNewPath, rejectPrivateKeysNewPath, exportPrivateKey,
         DeclineLegacyExport, UserDeclines, send_user_rejection, send_success, CallbackThrow,
         ui_menu_main
<1>3. [AsExport(ctx) EXCEPT !.output = << >>] \in Requests
  BY <1>1 DEF Requests
<1>4. RequestInStore(ctx) /\ RequestInStore(Wiped)
      /\ RequestInStore([AsExport(ctx) EXCEPT !.output = << >>])
  BY <1>3, RequestIsItself, WipedIsZero DEF ExportInv
<1>5. ctx' \in {ctx, Wiped, [AsExport(ctx) EXCEPT !.output = << >>]}
  <2>1. CASE sendPrivateKeysNewPath
    BY <2>1, Zenon DEF sendPrivateKeysNewPath, Finally
  <2>2. CASE rejectPrivateKeysNewPath
    BY <2>2, Zenon DEF rejectPrivateKeysNewPath
  <2>3. CASE exportPrivateKey \/ DeclineLegacyExport
    BY <2>3, Zenon DEF exportPrivateKey, DeclineLegacyExport, UserDeclines, CallbackThrow
  <2> QED
    BY <2>1, <2>2, <2>3 DEF ExportButton
<1> QED
  BY <1>2, <1>4, <1>5 DEF ExportInv, Reviewed, Home

LEMMA ExportInvInit == KeyFlowsInit => ExportInv
  BY WipedIsZero, ZeroIsRequest DEF KeyFlowsInit, DeviceInit, ExportInv, Reviewed

LEMMA ExportInvStep == ExportInv /\ [KeyFlowsNext]_flowVars => ExportInv'
<1> SUFFICES ASSUME ExportInv, [KeyFlowsNext]_flowVars PROVE ExportInv'
  OBVIOUS
<1>1. CASE handle_get_public_key \/ KeyButton
  BY <1>1, KeyStepsKeepExports, ExportKeptIsEnough
<1>2. CASE ExportPacket \/ ExportButton
  BY <1>2, NewRequestKeeps, LegacyRequestKeeps, ExportButtonKeeps DEF ExportPacket
<1>3. CASE VerifyPacket \/ review_verify_address
  BY <1>3, VerifyStepsKeepExports, ExportKeptIsEnough
<1>4. CASE Shell(CheckedInss) \/ SwitchGuard(SETNAME)
  BY <1>4, ShellKeepsExports, ExportKeptIsEnough
<1>5. CASE KeyFlowsRestart
  BY <1>5, WipedKeeps, ExportKeptIsEnough DEF KeyFlowsRestart, Restart
<1>6. CASE UNCHANGED flowVars
  BY <1>6, ExportKeptIsEnough DEF flowVars, keyVars, deviceVars, ExportKept
<1> QED
  BY <1>1, <1>2, <1>3, <1>4, <1>5, <1>6 DEF KeyFlowsNext

\* No step of any instruction leaves a derived private key in the union, the
\* exports that throw half way included.
THEOREM SecretsAreErased == KeyFlowsSpec => []NoSecretLeftBehind
<1>1. ExportInv => NoSecretLeftBehind
  BY DEF ExportInv, RequestInStore, Requests, NoSecretLeftBehind
<1> QED
  BY <1>1, ExportInvInit, ExportInvStep, PTL DEF KeyFlowsSpec

-----------------------------------------------------------------------------
(* Consent.  The table of the keys that are sent and the table of the keys *)
(* that are shown agree.                                                   *)

LEMMA TablesAgree ==
    ASSUME NEW purpose \in AllPurposes
    PROVE  /\ \A k \in 1 .. Len(keysToExport(purpose)) :
                  keysToExport(purpose)[k] \in display_key_types(purpose)
           /\ \A t \in display_key_types(purpose) :
                  \E k \in 1 .. Len(keysToExport(purpose)) : keysToExport(purpose)[k] = t
<1>1. CASE purpose = "identity creation"
  <2>1. keysToExport(purpose) = <<"IdCredSec", "PRF", "blinding">>
    BY <1>1 DEF keysToExport
  <2>2. display_key_types(purpose) = {"IdCredSec", "PRF", "blinding"}
    BY <1>1 DEF display_key_types
  <2> QED
    BY <2>1, <2>2
<1>2. CASE purpose = "account creation"
  <2>1. keysToExport(purpose) = <<"PRF", "IdCredSec", "commitment">>
    BY <1>2 DEF keysToExport
  <2>2. display_key_types(purpose) = {"PRF", "IdCredSec", "commitment"}
    BY <1>2 DEF display_key_types
  <2> QED
    BY <2>1, <2>2
<1>3. CASE purpose = "recovery"
  <2>1. keysToExport(purpose) = <<"IdCredSec", "blinding">>
    BY <1>3 DEF keysToExport
  <2>2. display_key_types(purpose) = {"IdCredSec", "blinding"}
    BY <1>3 DEF display_key_types
  <2> QED
    BY <2>1, <2>2
<1>4. CASE purpose = "discovery"
  <2>1. keysToExport(purpose) = <<"PRF">> /\ display_key_types(purpose) = {"PRF"}
    BY <1>4 DEF keysToExport, display_key_types
  <2> QED
    BY <2>1
<1>5. CASE purpose = "zk proof"
  <2>1. keysToExport(purpose) = <<"commitment">> /\ display_key_types(purpose) = {"commitment"}
    BY <1>5 DEF keysToExport, display_key_types
  <2> QED
    BY <2>1
<1> QED
  BY <1>1, <1>2, <1>3, <1>4, <1>5 DEF AllPurposes

LEMMA CommitmentTakesAnAccount ==
    ASSUME NEW purpose \in AllPurposes, "commitment" \in display_key_types(purpose)
    PROVE  need_account_suffix(purpose)
  BY DEF AllPurposes, display_key_types, need_account_suffix

\* What is derived for a request is what its review says.
LEMMA RequestIsConsented ==
    ASSUME NEW c \in Requests, c.identity \in Identities, c.network \in Networks
    PROVE  NewConsent(uiExportPrivateKeysNewPath(c),
                      ItemsOf(Derived(c, Len(keysToExport(c.purpose)))))
<1> DEFINE keys  == keysToExport(c.purpose)
           shown == uiExportPrivateKeysNewPath(c)
           sent  == ItemsOf(Derived(c, Len(keys)))
<1>1. c.purpose \in AllPurposes /\ c.account \in Vals \cup {"none"}
  BY DEF Requests
<1>2. {<<"identity", c.identity>>, <<"network", c.network>>,
       <<"keys", display_key_types(c.purpose)>>} \subseteq shown.items
  BY DEF uiExportPrivateKeysNewPath
<1>3. "commitment" \in display_key_types(c.purpose) => <<"account", c.account>> \in shown.items
  BY <1>1, CommitmentTakesAnAccount DEF uiExportPrivateKeysNewPath
<1>4. sent = {NewSecret(c, keys[k]) : k \in 1 .. Len(keys)}
  BY DEF ItemsOf, Derived
<1>5. \A k \in 1 .. Len(keys) : keys[k] \in display_key_types(c.purpose)
  BY <1>1, TablesAgree
<1>6. \A t \in display_key_types(c.purpose) : \E k \in 1 .. Len(keys) : keys[k] = t
  BY <1>1, TablesAgree
<1> HIDE DEF keys, shown, sent
<1>7. sent = {NewSecret(c, t) : t \in display_key_types(c.purpose)}
  BY <1>4, <1>5, <1>6
<1>8. sent = {<<k, c.network, c.identity, IF k = "commitment" THEN c.account ELSE "none">> :
                 k \in display_key_types(c.purpose)}
  BY <1>7 DEF NewSecret
<1>9. NewConsent(shown, sent)
  BY <1>1, <1>2, <1>3, <1>8 DEF NewConsent
<1> QED
  BY <1>9 DEF shown, sent, keys

\* The step property of NewKeysWereConsented.
ConsentStep ==
    screen.cb = "export" /\ HasSecrets' /\ reply' # reply => NewConsent(screen, Secrets')

LEMMA AcceptedExportIsConsented == ASSUME ExportInv, sendPrivateKeysNewPath PROVE ConsentStep
<1> DEFINE c == AsExport(ctx)
<1>1. CASE reply' = Refused
  BY <1>1 DEF ConsentStep, HasSecrets, Refused
<1>2. CASE /\ c.isNewPath
           /\ reply' = Success(<<"secrets", Derived(c, Len(keysToExport(c.purpose)))>>)
  <2>1. c \in Requests
    BY AsExportType DEF ExportInv
  <2>2. c.isNewPath = TRUE
    BY <1>2, <2>1 DEF Requests
  <2>3. screen = uiExportPrivateKeysNewPath(c) /\ c.identity \in Identities /\ c.network \in Networks
    BY <2>2 DEF ExportInv, Reviewed, sendPrivateKeysNewPath
  <2>4. Secrets' = ItemsOf(Derived(c, Len(keysToExport(c.purpose))))
    BY <1>2 DEF Secrets, Success
  <2> QED
    BY <2>1, <2>3, <2>4, RequestIsConsented DEF ConsentStep
<1> QED
  BY <1>1, <1>2, Zenon DEF sendPrivateKeysNewPath, send_success, Finally, ValidatedRequest

\* No other step sends private keys while the review of an export is up.
SendsNoSecret ==
    \/ UNCHANGED reply
    \/ reply' \in {Owed, Refused, Declined, Idle, Success(<< >>)}
    \/ \E x : reply' = Success(<<"challenge", x>>)
    \/ \E x, f : reply' = KeyReply(x, f)
    \/ screen.cb # "export"

LEMMA SendsNoSecretIsEnough == SendsNoSecret => ConsentStep
  BY DEF SendsNoSecret, ConsentStep, HasSecrets, Owed, Refused, Declined, Idle, Success, KeyReply

LEMMA ConsentStepHolds == ExportInv /\ [KeyFlowsNext]_flowVars => [ConsentStep]_flowVars
<1> SUFFICES ASSUME ExportInv, KeyFlowsNext PROVE ConsentStep
  OBVIOUS
<1>1. CASE handle_get_public_key
  BY <1>1, SendsNoSecretIsEnough DEF handle_get_public_key, send_success, Throw, KeyReply, Success, SendsNoSecret
<1>2. CASE KeyButton
  BY <1>2, SendsNoSecretIsEnough
     DEF KeyButton, send_public_key_confirm, DeclineKey, review_choice, StatusPageCloses, SendsNoSecret
<1>3. CASE ExportPacket
  BY <1>3, SendsNoSecretIsEnough, Zenon
     DEF ExportPacket, handle_export_private_key_new_path, handle_export_private_key_legacy_path,
         Throw, Review, SendsNoSecret
<1>4. CASE sendPrivateKeysNewPath
  BY <1>4, AcceptedExportIsConsented
<1>5. CASE rejectPrivateKeysNewPath \/ exportPrivateKey \/ DeclineLegacyExport
  BY <1>5, SendsNoSecretIsEnough
     DEF rejectPrivateKeysNewPath, exportPrivateKey, DeclineLegacyExport, send_user_rejection,
         SendsNoSecret
<1>6. CASE VerifyPacket \/ review_verify_address
  <2>1. CASE VerifyCompact \/ VerifyFull
    <3>1. PICK p, row, address, fits : ReviewAddress(p, row, address, fits)
      BY <2>1 DEF VerifyCompact, VerifyFull
    <3> QED
      BY <3>1, SendsNoSecretIsEnough DEF ReviewAddress, Review, send_rejection, SendsNoSecret
  <2>2. CASE handle_get_challenge \/ handle_set_trusted_name
    BY <2>2, SendsNoSecretIsEnough
       DEF handle_get_challenge, handle_set_trusted_name, send_success, SendsNoSecret
  <2>3. CASE VerifyRefused \/ VerifyThrows \/ review_verify_address
    BY <2>3, SendsNoSecretIsEnough
       DEF VerifyRefused, VerifyThrows, review_verify_address, send_rejection, Throw, SendsNoSecret
  <2> QED
    BY <1>6, <2>1, <2>2, <2>3 DEF VerifyPacket
<1>7. CASE Shell(CheckedInss) \/ SwitchGuard(SETNAME)
  BY <1>7, SendsNoSecretIsEnough
     DEF Shell, BadCommand, SwitchGuard, RefusedByDispatcher, AppInfo, UnknownInstruction,
         AboutBack, send_rejection, SendsNoSecret
<1>8. CASE KeyFlowsRestart
  BY <1>8, SendsNoSecretIsEnough DEF KeyFlowsRestart, Restart, SendsNoSecret
<1> QED
  BY <1>1, <1>2, <1>3, <1>4, <1>5, <1>6, <1>7, <1>8 DEF KeyFlowsNext, ExportButton

\* The private keys released from a review are those that the accepted screen
\* names: the union may have been wiped, reclaimed or rewritten by any number of
\* commands while the review was up, and then nothing is released.
THEOREM NewKeysAreConsented == KeyFlowsSpec => NewKeysWereConsented
<1>1. [ConsentStep]_flowVars =>
         [screen.cb = "export" /\ HasSecrets' /\ reply' # reply => NewConsent(screen, Secrets')]_flowVars
  BY DEF ConsentStep
<1> QED
  BY <1>1, ExportInvInit, ExportInvStep, ConsentStepHolds, PTL
     DEF KeyFlowsSpec, NewKeysWereConsented

-----------------------------------------------------------------------------
(* Addresses.  A binding in store is one the backend certified, and an     *)
(* address review on screen has the property.                              *)

\* The address of p is on s only below a row of p.
NamesOwner(s, p) ==
    <<"address", AddressOf(p)>> \in s.items =>
        \E row \in {CompactRow(PrfPath(NetworkOf(p)), p[2]), FullRow(p)}
                   \cup (IF p[2] = FullPathCounter THEN {FullRow(PrfPath(NetworkOf(p)))} ELSE {}) :
            row \in s.items

AddressInv ==
    /\ bound = NoBinding \/ bound \in Descriptors
    /\ screen.cb = "verify" => \A p \in Paths : NamesOwner(screen, p)

AddressKept ==
    /\ bound' \in {bound, NoBinding}
    /\ UNCHANGED screen \/ screen'.cb # "verify"

LEMMA AddressKeptIsEnough == ASSUME AddressInv, AddressKept PROVE AddressInv'
  BY DEF AddressInv, AddressKept, NamesOwner

LEMMA AddressRow ==
    ASSUME NEW p, NEW q, NEW row, NEW address, address = AddressOf(p),
           row \in {CompactRow(PrfPath(NetworkOf(p)), p[2]), FullRow(p)}
                   \cup (IF p[2] = FullPathCounter THEN {FullRow(PrfPath(NetworkOf(p)))} ELSE {})
    PROVE  NamesOwner(uiVerifyAddress(row, q, address), p)
<1>1. row \in uiVerifyAddress(row, q, address).items
  BY DEF uiVerifyAddress
<1> QED
  BY <1>1 DEF NamesOwner

LEMMA OtherAddress ==
    ASSUME NEW p, NEW q, NEW row, NEW address, address # AddressOf(p), row[1] # "address"
    PROVE  NamesOwner(uiVerifyAddress(row, q, address), p)
  BY DEF NamesOwner, uiVerifyAddress

LEMMA SameAddress ==
    ASSUME NEW p, NEW n, NEW counter, DerivedAddress(PrfPath(n), counter) = AddressOf(p)
    PROVE  n = NetworkOf(p) /\ counter = p[2]
  BY DEF DerivedAddress, PrfPath, AddressOf

\* The address of the account at a signing path is bound to that path only.
LEMMA OwnerIsAccount ==
    ASSUME NEW q \in Paths, NEW d \in Descriptors, d.owner = OwnerKey(q) PROVE d.name = AddressOf(q)
<1>1. CASE \E p \in Paths : d = [owner |-> OwnerKey(p), name |-> AddressOf(p), chain |-> NetworkOf(p)]
  BY <1>1 DEF OwnerKey
<1>2. CASE \E p \in Paths : d = [owner |-> OwnerKey(PrfPath(NetworkOf(p))), name |-> AddressOf(p),
                                 chain |-> NetworkOf(p)]
  <2>1. \E n : q = PrfPath(n)
    BY <1>2 DEF OwnerKey
  <2> QED
    BY <2>1, PathsAssumption DEF PrfPath
<1> QED
  BY <1>1, <1>2 DEF Descriptors

LEMMA SameAccount ==
    ASSUME NEW p \in Paths, NEW q \in Paths, AddressOf(p) = AddressOf(q) PROVE p = q
  BY PathsAssumption DEF AddressOf, DerivedAddress, PrfPath, NetworkOf

LEMMA ReviewAddressStep ==
    ASSUME NEW q, NEW row, NEW address, NEW fits, AddressInv, ReviewAddress(q, row, address, fits),
           bound = NoBinding \/ fits => \A p \in Paths : NamesOwner(uiVerifyAddress(row, q, address), p)
    PROVE  AddressInv'
<1>1. CASE UNCHANGED screen
  BY <1>1, AddressKeptIsEnough DEF ReviewAddress, clear_trusted_name_binding, AddressKept
<1>2. CASE screen' = uiVerifyAddress(row, q, address) /\ (bound = NoBinding \/ fits)
  BY <1>2 DEF AddressInv, ReviewAddress, clear_trusted_name_binding
<1> QED
  BY <1>1, <1>2 DEF ReviewAddress, Review, send_rejection

LEMMA CompactKeepsAddresses == ASSUME AddressInv, VerifyCompact PROVE AddressInv'
<1>1. PICK n \in Networks, counter \in {p[2] : p \in Paths} :
         ReviewAddress(PrfPath(n), CompactRow(PrfPath(n), counter), DerivedAddress(PrfPath(n), counter),
                       Matches(PrfPath(n)) /\ bound.name = DerivedAddress(PrfPath(n), counter))
  BY DEF VerifyCompact
<1> DEFINE row     == CompactRow(PrfPath(n), counter)
           address == DerivedAddress(PrfPath(n), counter)
<1>2. row[1] # "address"
  BY DEF CompactRow
<1> HIDE DEF address
<1>3. ASSUME NEW p \in Paths PROVE NamesOwner(uiVerifyAddress(row, PrfPath(n), address), p)
  <2>1. CASE address = AddressOf(p)
    <3>1. row = CompactRow(PrfPath(NetworkOf(p)), p[2])
      BY <2>1, SameAddress DEF address
    <3> QED
      BY <2>1, <3>1, AddressRow
  <2>2. CASE address # AddressOf(p)
    BY <1>2, <2>2, OtherAddress
  <2> QED
    BY <2>1, <2>2
<1> QED
  BY <1>1, <1>3, ReviewAddressStep DEF address

LEMMA FullKeepsAddresses == ASSUME AddressInv, VerifyFull PROVE AddressInv'
<1>1. PICK q \in Paths \cup {PrfPath(n) : n \in Networks} :
         ReviewAddress(q, FullRow(q),
                       IF bound = NoBinding THEN DerivedAddress(q, FullPathCounter) ELSE bound.name,
                       full_path_names_one_account(q) /\ Matches(q))
  BY DEF VerifyFull
<1> DEFINE address == IF bound = NoBinding THEN DerivedAddress(q, FullPathCounter) ELSE bound.name
           fits    == full_path_names_one_account(q) /\ Matches(q)
<1> HIDE DEF fits
<1>2. FullRow(q)[1] # "address"
  BY DEF FullRow
<1>3. ASSUME NEW p \in Paths, bound = NoBinding \/ fits, address = AddressOf(p)
      PROVE  FullRow(q) \in {FullRow(p)} \cup
                (IF p[2] = FullPathCounter THEN {FullRow(PrfPath(NetworkOf(p)))} ELSE {})
  <2>1. CASE bound = NoBinding
    <3>1. DerivedAddress(q, FullPathCounter) = DerivedAddress(PrfPath(NetworkOf(p)), p[2])
      BY <1>3, <2>1 DEF AddressOf
    <3>2. q = PrfPath(NetworkOf(p)) /\ p[2] = FullPathCounter
      BY <3>1 DEF DerivedAddress
    <3> QED
      BY <3>2
  <2>2. CASE bound # NoBinding
    <3>1. bound \in Descriptors /\ bound.owner = OwnerKey(q) /\ q \in Paths
      BY <1>3, <2>2 DEF AddressInv, fits, Matches, full_path_names_one_account
    <3>2. AddressOf(p) = AddressOf(q)
      BY <1>3, <2>2, <3>1, OwnerIsAccount
    <3> QED
      BY <3>1, <3>2, SameAccount
  <2> QED
    BY <2>1, <2>2
<1> HIDE DEF address
<1>4. ASSUME NEW p \in Paths, bound = NoBinding \/ fits
      PROVE  NamesOwner(uiVerifyAddress(FullRow(q), q, address), p)
  <2>1. CASE address = AddressOf(p)
    BY <1>3, <1>4, <2>1, AddressRow
  <2>2. CASE address # AddressOf(p)
    BY <1>2, <2>2, OtherAddress
  <2> QED
    BY <2>1, <2>2
<1>5. ReviewAddress(q, FullRow(q), address, fits)
  BY <1>1 DEF address, fits
<1> QED
  BY <1>4, <1>5, ReviewAddressStep

LEMMA OtherVerifyStepsKeepAddresses ==
    ASSUME AddressInv,
           \/ handle_get_challenge \/ handle_set_trusted_name
           \/ VerifyRefused \/ VerifyThrows \/ review_verify_address
    PROVE  AddressInv'
<1>1. CASE handle_get_challenge \/ VerifyRefused \/ VerifyThrows
  BY <1>1, AddressKeptIsEnough
     DEF handle_get_challenge, VerifyRefused, VerifyThrows, send_rejection, Throw, nameVars, AddressKept
<1>2. CASE review_verify_address
  BY <1>2, AddressKeptIsEnough
     DEF review_verify_address, ui_menu_main, Home, nameVars, AddressKept
<1>3. CASE handle_set_trusted_name
  <2>1. CASE bound' \in {bound, NoBinding} /\ UNCHANGED screen
    BY <2>1, AddressKeptIsEnough DEF AddressKept
  <2>2. CASE bound' \in Descriptors /\ screen' = Home
    BY <2>2 DEF AddressInv, Home
  <2> QED
    BY <1>3, <2>1, <2>2 DEF handle_set_trusted_name, send_success, ui_menu_main
<1> QED
  BY <1>1, <1>2, <1>3

LEMMA AddressInvInit == KeyFlowsInit => AddressInv
  BY DEF KeyFlowsInit, DeviceInit, AddressInv, Home

LEMMA AddressInvStep == AddressInv /\ [KeyFlowsNext]_flowVars => AddressInv'
<1> SUFFICES ASSUME AddressInv, [KeyFlowsNext]_flowVars PROVE AddressInv'
  OBVIOUS
<1>1. CASE handle_get_public_key /\ UNCHANGED nameVars
  <2>1. \A p : uiGeneratePubkey(p).cb # "verify"
    BY DEF uiGeneratePubkey
  <2>2. UNCHANGED screen \/ screen' = Home \/ \E p : screen' = uiGeneratePubkey(p)
    BY <1>1 DEF handle_get_public_key, send_success, ui_menu_main, Throw
  <2> QED
    BY <1>1, <2>1, <2>2, AddressKeptIsEnough DEF AddressKept, nameVars, Home
<1>2. CASE KeyButton /\ UNCHANGED nameVars
  BY <1>2, AddressKeptIsEnough
     DEF KeyButton, send_public_key_confirm, CallbackThrow, DeclineKey, UserDeclines,
         send_user_rejection, review_choice, StatusPageCloses, ui_menu_main, Home, uiComparePubkey,
         AddressKept, nameVars
<1>3. CASE ExportPacket /\ UNCHANGED nameVars
  <2>1. /\ \A c : uiExportPrivateKeysNewPath(c).cb # "verify"
        /\ \A i, c : uiExportPrivateKey(i, c).cb # "verify"
    BY DEF uiExportPrivateKeysNewPath, uiExportPrivateKey
  <2>2. \/ UNCHANGED screen
        \/ \E c : screen' = uiExportPrivateKeysNewPath(c)
        \/ \E i, c : screen' = uiExportPrivateKey(i, c)
    BY <1>3, Zenon
       DEF ExportPacket, handle_export_private_key_new_path, handle_export_private_key_legacy_path,
           Throw, Review
  <2> QED
    BY <1>3, <2>1, <2>2, AddressKeptIsEnough DEF AddressKept, nameVars
<1>4. CASE ExportButton /\ UNCHANGED nameVars
  <2>1. screen' = Home
    BY <1>4, Zenon
       DEF ExportButton, sendPrivateKeysNewPath, rejectPrivateKeysNewPath, exportPrivateKey,
           DeclineLegacyExport, UserDeclines, send_user_rejection, send_success, CallbackThrow,
           ui_menu_main
  <2> QED
    BY <1>4, <2>1, AddressKeptIsEnough DEF AddressKept, nameVars, Home
<1>5. CASE VerifyPacket \/ review_verify_address
  BY <1>5, CompactKeepsAddresses, FullKeepsAddresses, OtherVerifyStepsKeepAddresses DEF VerifyPacket
<1>6. CASE (Shell(CheckedInss) \/ SwitchGuard(SETNAME)) /\ UNCHANGED nameVars
  <2>1. UNCHANGED screen \/ screen' = Home
    BY <1>6 DEF Shell, BadCommand, SwitchGuard, RefusedByDispatcher, AppInfo, UnknownInstruction,
           send_rejection, AboutBack, ui_menu_main
  <2> QED
    BY <1>6, <2>1, AddressKeptIsEnough DEF AddressKept, nameVars, Home
<1>7. CASE KeyFlowsRestart
  BY <1>7, AddressKeptIsEnough DEF KeyFlowsRestart, Restart, AddressKept, Home
<1>8. CASE UNCHANGED flowVars
  BY <1>8, AddressKeptIsEnough DEF flowVars, keyVars, deviceVars, nameVars, AddressKept
<1> QED
  BY <1>1, <1>2, <1>3, <1>4, <1>5, <1>6, <1>7, <1>8 DEF KeyFlowsNext

\* The address of an account is never on a screen beside the path of another
\* one, whatever descriptors were set before: it is derived from the path, or
\* supplied by a descriptor whose owner is the account of the path.
THEOREM ShownAddressIsOfItsPath == KeyFlowsSpec => []VerifiedAddressIsOfShownPath
<1>1. AddressInv => VerifiedAddressIsOfShownPath
  BY DEF AddressInv, NamesOwner, VerifiedAddressIsOfShownPath
<1> QED
  BY <1>1, AddressInvInit, AddressInvStep, PTL DEF KeyFlowsSpec
=============================================================================
