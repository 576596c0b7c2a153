--------------------------- MODULE SessionProofs ----------------------------
(***************************************************************************)
(* Proofs about Session, for every set of headers, paths, values and       *)
(* purposes and every size of memo, on either screen technology, with the  *)
(* SDK holding commands back while an answer is owed.                      *)
(***************************************************************************)
EXTENDS Session, KeyFlowsProofs, FlowLemmas

-----------------------------------------------------------------------------
(* Answers.  Every step is of one of a few shapes, by what it does to the  *)
(* answer and to the screen.                                               *)

AnswerInv ==
    /\ screen.cb \in {"home", "sign", "key", "compare", "status", "export", "exportLegacy"}
    /\ keyPending \in BOOLEAN
    /\ SessionReplyOwedIffReviewUp
    /\ PendingIffKeyReviewUp

\* A command answered at once.
Quiet ==
    /\ reply # Owed
    /\ reply' \in {Refused, Success(<< >>)}
    /\ UNCHANGED <<screen, keyPending>>

\* A command that draws a review.
Draws(cb) ==
    /\ reply # Owed
    /\ reply' = Owed
    /\ screen'.cb = cb
    /\ keyPending' = (cb = "key")

\* A command or a button that leads to a screen no answer waits for.
Settles ==
    /\ screen'.cb \in {"home", "compare", "status"}
    /\ keyPending' = FALSE
    /\ reply' # Owed
    /\ \/ UNCHANGED <<reply, approved>>
       \/ NoSignature(reply')

Signs ==
    /\ screen.cb = "sign"
    /\ screen' = Home /\ keyPending' = FALSE
    /\ reply' = Success(<<"signature", hash, path>>)
    /\ approved' = approved \cup screen.items

LEMMA Answers ==
    /\ Refused # Owed /\ NoSignature(Refused)
    /\ Declined # Owed /\ NoSignature(Declined)
    /\ Idle # Owed /\ NoSignature(Idle) /\ NoSignature(Owed)
    /\ \A b : Success(b) # Owed
    /\ NoSignature(Success(<< >>))
    /\ \A p, signed : NoSignature(KeyReply(p, signed))
    /\ \A x : NoSignature(Success(<<"secrets", x>>))
  BY DEF Refused, Owed, Declined, Idle, Success, NoSignature, KeyReply

LEMMA MenuSettles ==
    ASSUME ui_menu_main, reply' # Owed, UNCHANGED <<reply, approved>> \/ NoSignature(reply')
    PROVE  Settles
  BY DEF ui_menu_main, Home, Settles

LEMMA ThrowIsQuiet == ASSUME reply # Owed, Throw PROVE Quiet
  BY DEF Throw, Quiet

LEMMA RejectionIsQuiet == ASSUME NEW c, reply # Owed, send_rejection(c) PROVE Quiet
  BY DEF send_rejection, Quiet

LEMMA AckIsQuiet == ASSUME NEW ins, NEW c, reply # Owed, Ack(ins, c) PROVE Quiet
  BY DEF Ack, Quiet

LEMMA CallbackThrowSettles == ASSUME CallbackThrow PROVE Settles
  BY Answers, MenuSettles DEF CallbackThrow

LEMMA DeclineSettles == ASSUME UserDeclines PROVE Settles
  BY Answers, MenuSettles DEF UserDeclines, send_user_rejection

LEMMA ReviewDraws ==
    ASSUME NEW ins, NEW c, NEW s, AnswerInv, reply # Owed, Review(ins, c, s), s.cb # "key"
    PROVE  Draws(s.cb)
<1>1. keyPending = FALSE
  BY DEF AnswerInv, SessionReplyOwedIffReviewUp, PendingIffKeyReviewUp, ReviewShown
<1>2. keyPending' = FALSE /\ (s.cb = "key") = FALSE
  BY <1>1 DEF Review
<1> QED
  BY <1>2, Zenon DEF Review, Draws

LEMMA TransferShapes ==
    ASSUME Gated, AnswerInv, TransferPacket
    PROVE  \/ Quiet
           \/ handle_sign_transfer /\ Draws("sign")
           \/ TransferAmount /\ Draws("sign")
<1>1. reply # Owed
  BY Zenon DEF TransferPacket, handle_sign_transfer, TransferInitialWithMemo, TransferMemo, TransferAmount,
         TransferWrongState, Enters, Delivered
<1>2. \A c, s, m : startTransferDisplay(c, s, m).cb = "sign"
  BY DEF startTransferDisplay
<1>3. CASE handle_sign_transfer
  <2>1. Throw \/ \E c, s, m : Review(TRANSFER, c, startTransferDisplay(c, s, m))
    BY <1>3, Zenon DEF handle_sign_transfer, HeaderThrows
  <2> QED
    BY <1>1, <1>2, <1>3, <2>1, ThrowIsQuiet, ReviewDraws
<1>4. CASE TransferInitialWithMemo
  <2>1. Throw \/ \E c : Ack(WITHMEMO, c)
    BY <1>4, Zenon DEF TransferInitialWithMemo, HeaderThrows
  <2> QED
    BY <1>1, <2>1, ThrowIsQuiet, AckIsQuiet
<1>5. CASE TransferMemo
  <2>1. Throw \/ (\E c : Ack(WITHMEMO, c)) \/ \E c : send_rejection(c)
    BY <1>5, Zenon DEF TransferMemo
  <2> QED
    BY <1>1, <2>1, ThrowIsQuiet, AckIsQuiet, RejectionIsQuiet
<1>6. CASE TransferAmount
  <2>1. Throw \/ \E c, s, m : Review(WITHMEMO, c, startTransferDisplay(c, s, m))
    BY <1>6, Zenon DEF TransferAmount
  <2> QED
    BY <1>1, <1>2, <1>6, <2>1, ThrowIsQuiet, ReviewDraws
<1>7. CASE TransferWrongState
  BY <1>1, <1>7, ThrowIsQuiet DEF TransferWrongState
<1> QED
  BY <1>3, <1>4, <1>5, <1>6, <1>7 DEF TransferPacket

LEMMA TransferButtonShapes == ASSUME TransferButton PROVE Signs \/ Settles
<1>1. CASE buildAndSignTransactionHash
  BY <1>1 DEF buildAndSignTransactionHash, send_success, ui_menu_main, Signs
<1>2. CASE SigningFails
  BY <1>2, CallbackThrowSettles DEF SigningFails
<1>3. CASE Decline
  BY <1>3, DeclineSettles DEF Decline
<1> QED
  BY <1>1, <1>2, <1>3 DEF TransferButton

LEMMA KeyRequestShapes ==
    ASSUME Gated, AnswerInv, handle_get_public_key
    PROVE  Quiet \/ Settles \/ Draws("key")
<1>1. reply # Owed
  BY DEF handle_get_public_key, Enters, Delivered
<1>2. CASE RefuseWhilePending
  BY <1>1, <1>2 DEF handle_get_public_key, Quiet
<1>3. CASE ~RefuseWhilePending
  <2>1. PICK p, signed :
           \/ keyPending' = TRUE /\ reply' = Owed /\ screen' = uiGeneratePubkey(p)
           \/ send_success(KeyReply(p, signed).body)
           \/ Throw
    BY <1>3, Zenon DEF handle_get_public_key
  <2>2. CASE keyPending' = TRUE /\ reply' = Owed /\ screen' = uiGeneratePubkey(p)
    BY <1>1, <2>2 DEF Draws, uiGeneratePubkey
  <2>3. CASE send_success(KeyReply(p, signed).body)
    <3>1. reply' = KeyReply(p, signed)
      BY <2>3 DEF send_success, KeyReply, Success
    <3>2. reply' # Owed /\ NoSignature(reply')
      BY <3>1, Answers DEF KeyReply
    <3> QED
      BY <2>3, <3>2, MenuSettles DEF send_success
  <2> QED
    BY <1>1, <2>1, <2>2, <2>3, ThrowIsQuiet
<1> QED
  BY <1>2, <1>3

LEMMA KeyButtonShapes == ASSUME AnswerInv, KeyButton PROVE Settles
<1>1. CASE send_public_key_confirm
  <2>1. CASE /\ keyPending' = FALSE
             /\ \E signed \in SignFlags : reply' = KeyReply(PathToSend, signed)
             /\ screen' = uiComparePubkey(DisplayIn(ctx), KeyOf(PathToSend))
    <3>1. reply' # Owed /\ NoSignature(reply')
      BY <2>1, Answers DEF KeyReply
    <3> QED
      BY <2>1, <3>1 DEF uiComparePubkey, Settles
  <2> QED
    BY <1>1, <2>1, CallbackThrowSettles DEF send_public_key_confirm
<1>2. CASE DeclineKey
  BY <1>2, DeclineSettles DEF DeclineKey
<1>3. CASE review_choice \/ StatusPageCloses
  <2>1. reply # Owed /\ ~keyPending
    BY <1>3 DEF AnswerInv, SessionReplyOwedIffReviewUp, PendingIffKeyReviewUp, ReviewShown,
           review_choice, StatusPageCloses
  <2>2. UNCHANGED <<reply, approved>>
    BY <1>3 DEF review_choice, StatusPageCloses, noFlow
  <2>3. CASE ui_menu_main
    BY <2>1, <2>2, <2>3, MenuSettles
  <2>4. CASE ~ui_menu_main
    BY <1>3, <2>1, <2>2, <2>4 DEF AnswerInv, review_choice, StatusPageCloses, Settles
  <2> QED
    BY <2>3, <2>4
<1> QED
  BY <1>1, <1>2, <1>3 DEF KeyButton

LEMMA ExportShapes ==
    ASSUME Gated, AnswerInv, ExportPacket
    PROVE  \/ Quiet
           \/ Draws("export")
           \/ handle_export_private_key_legacy_path /\ Draws("exportLegacy")
<1>1. reply # Owed
  BY DEF ExportPacket, handle_export_private_key_new_path, handle_export_private_key_legacy_path,
         Enters, Delivered
<1>2. CASE handle_export_private_key_new_path
  <2>1. \A c : uiExportPrivateKeysNewPath(c).cb = "export"
    BY DEF uiExportPrivateKeysNewPath
  <2>2. Throw \/ \E c : Review(NEWKEYS, c, uiExportPrivateKeysNewPath(c))
    BY <1>2, Zenon DEF handle_export_private_key_new_path
  <2> QED
    BY <1>1, <2>1, <2>2, ThrowIsQuiet, ReviewDraws
<1>3. CASE handle_export_private_key_legacy_path
  <2>1. \A i, c : uiExportPrivateKey(i, c).cb = "exportLegacy"
    BY DEF uiExportPrivateKey
  <2>2. Throw \/ \E i, c : Review(OLDKEYS, c, uiExportPrivateKey(i, c))
    BY <1>3, Zenon DEF handle_export_private_key_legacy_path
  <2> QED
    BY <1>1, <1>3, <2>1, <2>2, ThrowIsQuiet, ReviewDraws
<1> QED
  BY <1>2, <1>3 DEF ExportPacket

LEMMA ExportButtonShapes == ASSUME ExportButton PROVE Settles
<1>1. /\ ui_menu_main
      /\ reply' \in {Refused, Declined} \/ \E x : reply' = Success(<<"secrets", x>>)
  BY Zenon
     DEF ExportButton, sendPrivateKeysNewPath, rejectPrivateKeysNewPath, exportPrivateKey,
         DeclineLegacyExport, UserDeclines, send_user_rejection, send_success, CallbackThrow
<1>2. reply' # Owed /\ NoSignature(reply')
  BY <1>1, Answers
<1> QED
  BY <1>1, <1>2, MenuSettles

LEMMA ShellShapes == ASSUME Gated, AnswerInv, Shell(SessionInss) PROVE Quiet \/ Settles
<1>1. CASE AboutBack
  <2>1. reply # Owed
    BY <1>1 DEF AboutBack, Home, AnswerInv, SessionReplyOwedIffReviewUp, ReviewShown
  <2> QED
    BY <1>1, <2>1, MenuSettles DEF AboutBack, noFlow
<1>2. CASE ~AboutBack
  BY <1>2 DEF Shell, BadCommand, SwitchGuard, RefusedByDispatcher, AppInfo, UnknownInstruction,
         send_rejection, Enters, Delivered, Quiet
<1> QED
  BY <1>1, <1>2

LEMMA RestartShape == ASSUME SessionRestart PROVE Settles
  BY Answers DEF SessionRestart, Restart, Settles, Home

\* The shapes of all steps.
LEMMA Shapes ==
    ASSUME Gated, AnswerInv, SessionNext
    PROVE  \/ Quiet \/ Settles \/ Signs
           \/ Draws("key") \/ Draws("export")
           \/ (handle_sign_transfer \/ TransferAmount) /\ Draws("sign")
           \/ handle_export_private_key_legacy_path /\ Draws("exportLegacy")
  BY TransferShapes, TransferButtonShapes, KeyRequestShapes, KeyButtonShapes, ExportShapes,
     ExportButtonShapes, ShellShapes, RestartShape DEF SessionNext

LEMMA AnswerInvStep ==
    ASSUME Gated, AnswerInv, [SessionNext]_keyVars PROVE AnswerInv'
<1>1. CASE UNCHANGED keyVars
  BY <1>1 DEF keyVars, deviceVars, AnswerInv, SessionReplyOwedIffReviewUp, PendingIffKeyReviewUp,
         ReviewShown
<1>2. CASE Quiet
  BY <1>2, Answers DEF Quiet, AnswerInv, SessionReplyOwedIffReviewUp, PendingIffKeyReviewUp, ReviewShown
<1>3. CASE Settles
  BY <1>3 DEF Settles, AnswerInv, SessionReplyOwedIffReviewUp, PendingIffKeyReviewUp, ReviewShown
<1>4. CASE Signs
  BY <1>4, Answers DEF Signs, Home, AnswerInv, SessionReplyOwedIffReviewUp, PendingIffKeyReviewUp, ReviewShown
<1>5. ASSUME NEW cb \in {"sign", "key", "export", "exportLegacy"}, Draws(cb) PROVE AnswerInv'
  BY <1>5 DEF Draws, AnswerInv, SessionReplyOwedIffReviewUp, PendingIffKeyReviewUp, ReviewShown
<1> QED
  BY <1>1, <1>2, <1>3, <1>4, <1>5, Shapes

LEMMA AnswerInvInit == SessionInit => AnswerInv
<1> SUFFICES ASSUME SessionInit PROVE AnswerInv
  OBVIOUS
<1>1. screen.cb = "home" /\ keyPending = FALSE /\ reply # Owed
  BY Answers DEF SessionInit, DeviceInit, Home
<1> QED
  BY <1>1 DEF AnswerInv, SessionReplyOwedIffReviewUp, PendingIffKeyReviewUp, ReviewShown

\* A host is left waiting exactly while a review that will answer it is up,
\* whatever transfers, key reviews and exports came before.
THEOREM SessionAnswersMatchReviews ==
    ASSUME Gated
    PROVE  SessionSpec => []SessionReplyOwedIffReviewUp
<1>1. AnswerInv => SessionReplyOwedIffReviewUp
  BY DEF AnswerInv
<1>2. AnswerInv /\ [SessionNext]_keyVars => AnswerInv'
  BY AnswerInvStep
<1> QED
  BY <1>1, <1>2, AnswerInvInit, PTL DEF SessionSpec

\* The flag that refuses a second key request is up exactly while a key review
\* is: no path through the session leaves it behind.
THEOREM KeyFlagMatchesReview ==
    ASSUME Gated
    PROVE  SessionSpec => []PendingIffKeyReviewUp
<1>1. AnswerInv => PendingIffKeyReviewUp
  BY DEF AnswerInv
<1>2. AnswerInv /\ [SessionNext]_keyVars => AnswerInv'
  BY AnswerInvStep
<1> QED
  BY <1>1, <1>2, AnswerInvInit, PTL DEF SessionSpec

-----------------------------------------------------------------------------
(* Types.  A transfer in the union has a memo that fits its buffer.        *)

Memos == {c \in TransferContexts : BufLen(c.cbor.buf) <= CborMax}

SessionMemory == Memos \cup KeyContexts \cup ExportContexts \cup {Wiped}

AccountTexts == [header : Headers \cup {"none"}, network : Networks]

FlowTypes ==
    /\ latch \in SessionInss \cup {NONE, "GET_APP_NAME"}
    /\ ctx \in SessionMemory
    /\ hash \in Seq(TransferItem)
    /\ path \in SessionPath
    /\ pinned \in Paths \cup {NoPath}
    /\ account \in AccountTexts

\* While the review of a legacy export is up, the path and the flags it will
\* derive from are the ones it was drawn from.
LegacyOnScreen ==
    screen.cb = "exportLegacy" =>
        \E i \in Identities : path = LegacyPath(i) /\ screen = uiExportPrivateKey(i, AsExport(ctx))

LEMMA Tags ==
    ASSUME NEW item \in TransferItem
    PROVE  /\ item[1] = "header" => item[2] \in Headers
           /\ item[1] = "cbor" => item[2] \in Vals /\ item[3] \in 1 .. CborChunkMax
  BY DEF TransferItem

LEMMA TransferItems ==
    /\ \A h \in Headers : <<"header", h>> \in TransferItem
    /\ \A v \in Vals : <<"to", v>> \in TransferItem /\ <<"amount", v>> \in TransferItem
    /\ \A k \in {TRANSFER, WITHMEMO} : <<"kind", k>> \in TransferItem
    /\ \A n \in 0 .. CborMax : <<"cborLength", n>> \in TransferItem
    /\ \A v \in Vals, n \in 1 .. CborChunkMax : CborItem(v, n) \in TransferItem
<1>1. ASSUME NEW h \in Headers PROVE <<"header", h>> \in TransferItem
  <2>1. <<"header", h>> \in {"header"} \X Headers
    OBVIOUS
  <2> QED
    BY <2>1, Zenon DEF TransferItem
<1>2. ASSUME NEW v \in Vals PROVE <<"to", v>> \in TransferItem /\ <<"amount", v>> \in TransferItem
  <2>1. <<"to", v>> \in {"to", "amount"} \X Vals /\ <<"amount", v>> \in {"to", "amount"} \X Vals
    OBVIOUS
  <2> QED
    BY <2>1, Zenon DEF TransferItem
<1>3. ASSUME NEW k \in {TRANSFER, WITHMEMO} PROVE <<"kind", k>> \in TransferItem
  <2>1. <<"kind", k>> \in {"kind"} \X {TRANSFER, WITHMEMO}
    OBVIOUS
  <2> QED
    BY <2>1, Zenon DEF TransferItem
<1>4. ASSUME NEW n \in 0 .. CborMax PROVE <<"cborLength", n>> \in TransferItem
  <2>1. <<"cborLength", n>> \in {"cborLength"} \X (0 .. CborMax)
    OBVIOUS
  <2> QED
    BY <2>1, Zenon DEF TransferItem
<1>5. ASSUME NEW v \in Vals, NEW n \in 1 .. CborChunkMax PROVE CborItem(v, n) \in TransferItem
  <2>1. CborItem(v, n) \in {"cbor"} \X Vals \X (1 .. CborChunkMax)
    BY DEF CborItem
  <2> QED
    BY <2>1, Zenon DEF TransferItem
<1> QED
  BY <1>1, <1>2, <1>3, <1>4, <1>5

LEMMA Views ==
    /\ \A c \in TransferContexts : c # Wiped /\ c.view = "transfer"
    /\ \A c \in KeyContexts : c # Wiped /\ c.view = "key"
    /\ \A c \in ExportContexts : c # Wiped /\ c.view = "export"
  BY DEF TransferContexts, KeyContexts, ExportContexts, Wiped

LEMMA ZeroMemo == TransferZero \in Memos
<1>1. CborZero \in [length : 0 .. CborMax, buf : Seq(Vals \X (1 .. CborChunkMax))]
  BY CborAssumption DEF CborZero
<1>2. TransferZero \in TransferContexts
  BY <1>1 DEF TransferZero, TransferContexts, TransferStates
<1>3. BufLen(TransferZero.cbor.buf) <= CborMax
  BY BufLenEmpty, CborAssumption DEF TransferZero, CborZero
<1> QED
  BY <1>2, <1>3 DEF Memos

LEMMA UnionKnown == ASSUME ctx \in SessionMemory PROVE Union \in SessionMemory
  BY DEF Union, SessionMemory

LEMMA TransferUnionKnown == ASSUME ctx \in SessionMemory PROVE TransferUnion \in Memos
<1>1. Union \in SessionMemory
  BY UnionKnown
<1> QED
  BY <1>1, ZeroMemo, Views DEF TransferUnion, SessionMemory, Memos

LEMMA MemoFields ==
    ASSUME NEW c \in Memos
    PROVE  /\ c \in TransferContexts
           /\ c.cbor \in [length : 0 .. CborMax, buf : Seq(Vals \X (1 .. CborChunkMax))]
           /\ c.state \in TransferStates
           /\ BufLen(c.cbor.buf) <= CborMax
           /\ \A s \in TransferStates : [c EXCEPT !.state = s] \in Memos
           /\ \A v \in Vals : [c EXCEPT !.amount = v] \in Memos
           /\ \A v, w \in Vals : [c EXCEPT !.to = v, !.amount = w] \in Memos
<1>1. c \in TransferContexts /\ BufLen(c.cbor.buf) <= CborMax
  BY DEF Memos
<1>2. ASSUME NEW s \in TransferStates PROVE [c EXCEPT !.state = s] \in Memos
  <2>1. [c EXCEPT !.state = s] \in TransferContexts /\ [c EXCEPT !.state = s].cbor = c.cbor
    BY <1>1 DEF TransferContexts
  <2> QED
    BY <1>1, <2>1 DEF Memos
<1>3. ASSUME NEW v \in Vals PROVE [c EXCEPT !.amount = v] \in Memos
  <2>1. [c EXCEPT !.amount = v] \in TransferContexts /\ [c EXCEPT !.amount = v].cbor = c.cbor
    BY <1>1 DEF TransferContexts
  <2> QED
    BY <1>1, <2>1 DEF Memos
<1>4. ASSUME NEW v \in Vals, NEW w \in Vals PROVE [c EXCEPT !.to = v, !.amount = w] \in Memos
  <2>1. /\ [c EXCEPT !.to = v, !.amount = w] \in TransferContexts
        /\ [c EXCEPT !.to = v, !.amount = w].cbor = c.cbor
    BY <1>1 DEF TransferContexts
  <2> QED
    BY <1>1, <2>1 DEF Memos
<1> QED
  BY <1>1, <1>2, <1>3, <1>4 DEF TransferContexts

LEMMA TransferViewKnown == ASSUME ctx \in SessionMemory PROVE TransferView \in Memos
  BY TransferUnionKnown, MemoFields DEF TransferView, TransferStates

LEMMA HeaderTexts ==
    ASSUME NEW h \in Headers, NEW p \in Paths
    PROVE  AccountSender(h, p) \in AccountTexts /\ p \in SessionPath
  BY DEF AccountSender, AccountTexts, Networks, SessionPath

LEMMA ThrowTypes == ASSUME FlowTypes, Throw PROVE latch' = NONE /\ ctx' = Wiped /\ ctx' \in SessionMemory
  BY DEF Throw, SessionMemory

\* A header that throws.
LEMMA HeaderThrowKnown ==
    ASSUME FlowTypes, NEW h \in Headers, NEW p \in Paths, NEW items \in Seq(TransferItem),
           HeaderThrows(h, p, items), UNCHANGED pinned
    PROVE  FlowTypes'
<1>1. <<"header", h>> \in TransferItem /\ hash \in Seq(TransferItem)
  BY TransferItems DEF FlowTypes
<1>2. /\ hash' \in Seq(TransferItem) /\ path' \in {path, p}
      /\ account' \in {account, AccountSender(h, p)}
  BY <1>1, HeaderThrowsTypes
<1>3. AccountSender(h, p) \in AccountTexts /\ p \in SessionPath
  BY HeaderTexts
<1>4. latch' = NONE /\ ctx' \in SessionMemory
  BY ThrowTypes DEF HeaderThrows
<1> QED
  BY <1>2, <1>3, <1>4 DEF FlowTypes

LEMMA HeadKnown ==
    ASSUME FlowTypes, NEW h \in Headers, NEW p \in Paths, NEW items \in Seq(TransferItem),
           hashAccountTransactionHeaderAndKind(h, p, items), UNCHANGED pinned,
           latch' \in SessionInss, ctx' \in Memos
    PROVE  FlowTypes'
<1>1. <<"header", h>> \in TransferItem
  BY TransferItems
<1>2. hash' \in Seq(TransferItem)
  BY <1>1, HeadTypes
<1>3. AccountSender(h, p) \in AccountTexts /\ p \in SessionPath
  BY HeaderTexts
<1>4. path' = p /\ account' = AccountSender(h, p)
  BY DEF hashAccountTransactionHeaderAndKind
<1> QED
  BY <1>2, <1>3, <1>4 DEF FlowTypes, SessionMemory

TransferFields(r, a) == <<<<"kind", TRANSFER>>, <<"to", r>>, <<"amount", a>>>>
MemoFieldsOf(r, n)   == <<<<"kind", WITHMEMO>>, <<"to", r>>, <<"cborLength", n>>>>

LEMMA FieldsKnown ==
    /\ \A r, a \in Vals : TransferFields(r, a) \in Seq(TransferItem)
    /\ \A r \in Vals, n \in 0 .. CborMax : MemoFieldsOf(r, n) \in Seq(TransferItem)
    /\ \A r \in Vals : \A n : SubSeq(MemoFieldsOf(r, n), 1, 2) \in Seq(TransferItem)
<1>1. ASSUME NEW r \in Vals, NEW a \in Vals PROVE TransferFields(r, a) \in Seq(TransferItem)
  <2>1. /\ <<"kind", TRANSFER>> \in TransferItem
        /\ <<"to", r>> \in TransferItem /\ <<"amount", a>> \in TransferItem
    BY TransferItems
  <2> QED
    BY <2>1, Triple DEF TransferFields
<1>2. ASSUME NEW r \in Vals
      PROVE  <<"kind", WITHMEMO>> \in TransferItem /\ <<"to", r>> \in TransferItem
  BY TransferItems
<1>3. ASSUME NEW r \in Vals, NEW n \in 0 .. CborMax PROVE MemoFieldsOf(r, n) \in Seq(TransferItem)
  BY <1>2, Triple, TransferItems DEF MemoFieldsOf
<1>4. ASSUME NEW r \in Vals, NEW n PROVE SubSeq(MemoFieldsOf(r, n), 1, 2) \in Seq(TransferItem)
  BY <1>2, FirstTwo DEF MemoFieldsOf
<1> QED
  BY <1>1, <1>3, <1>4

LEMMA TransferKnown ==
    ASSUME FlowTypes, handle_sign_transfer, UNCHANGED pinned PROVE FlowTypes'
<1>1. PICK h \in Headers, p \in Paths, r \in Vals, a \in Vals :
         \/ /\ hashAccountTransactionHeaderAndKind(h, p, TransferFields(r, a))
            /\ ctx' = [TransferUnion EXCEPT !.to = r, !.amount = a] /\ latch' = TRANSFER
         \/ HeaderThrows(h, p, TransferFields(r, a))
  BY Zenon DEF handle_sign_transfer, TransferFields, Review
<1>2. TransferFields(r, a) \in Seq(TransferItem)
  BY FieldsKnown
<1>3. [TransferUnion EXCEPT !.to = r, !.amount = a] \in Memos
  BY TransferUnionKnown, MemoFields DEF FlowTypes
<1>4. TRANSFER \in SessionInss
  BY DEF SessionInss
<1> HIDE DEF TransferFields
<1> QED
  BY <1>1, <1>2, <1>3, <1>4, HeadKnown, HeaderThrowKnown

\* The union once a memo of n bytes has been announced.
Announced(r, n) == [TransferView EXCEPT !.to = r, !.cbor.length = n, !.state = "MEMO_INITIAL"]

LEMMA AnnouncedKnown ==
    ASSUME ctx \in SessionMemory, NEW r \in Vals, NEW n \in 0 .. CborMax
    PROVE  /\ Announced(r, n) \in Memos
           /\ Announced(r, n).to = r /\ Announced(r, n).cbor.length = n
           /\ Announced(r, n).state = "MEMO_INITIAL"
<1> DEFINE c == TransferView
           d == [c EXCEPT !.to = r, !.cbor.length = n, !.state = "MEMO_INITIAL"]
<1>1. c \in Memos
  BY TransferViewKnown
<1> HIDE DEF c
<1>2. c \in TransferContexts /\ BufLen(c.cbor.buf) <= CborMax
  BY <1>1, MemoFields
<1>3. d \in TransferContexts /\ d.cbor.buf = c.cbor.buf
  BY <1>2 DEF TransferContexts, TransferStates
<1>4. d \in Memos
  BY <1>2, <1>3 DEF Memos
<1>5. d.to = r /\ d.cbor.length = n /\ d.state = "MEMO_INITIAL"
  BY <1>2 DEF TransferContexts
<1> QED
  BY <1>4, <1>5 DEF c, Announced

LEMMA InitialParts ==
    ASSUME TransferInitialWithMemo
    PROVE  \E h \in Headers, p \in Paths, r \in Vals, n \in Nat :
              \/ /\ n \in 0 .. CborMax
                 /\ hashAccountTransactionHeaderAndKind(h, p, MemoFieldsOf(r, n))
                 /\ Ack(WITHMEMO, Announced(r, n))
              \/ HeaderThrows(h, p, SubSeq(MemoFieldsOf(r, n), 1, 2))
<1>1. PICK h \in Headers, p \in Paths, r \in Vals, n \in 0 .. CborMax + 1 :
         \/ /\ CborLengthFits(n)
            /\ hashAccountTransactionHeaderAndKind(h, p, MemoFieldsOf(r, n))
            /\ Ack(WITHMEMO, Announced(r, n))
         \/ HeaderThrows(h, p, SubSeq(MemoFieldsOf(r, n), 1, 2))
  BY Zenon DEF TransferInitialWithMemo, MemoFieldsOf, Announced
<1>2. n \in Nat /\ (CborLengthFits(n) => n \in 0 .. CborMax)
  BY CborAssumption DEF CborLengthFits
<1> QED
  BY <1>1, <1>2, Zenon

LEMMA InitialKnown ==
    ASSUME FlowTypes, TransferInitialWithMemo, UNCHANGED pinned PROVE FlowTypes'
<1>1. PICK h \in Headers, p \in Paths, r \in Vals, n \in Nat :
         \/ /\ n \in 0 .. CborMax
            /\ hashAccountTransactionHeaderAndKind(h, p, MemoFieldsOf(r, n))
            /\ Ack(WITHMEMO, Announced(r, n))
         \/ HeaderThrows(h, p, SubSeq(MemoFieldsOf(r, n), 1, 2))
  BY InitialParts
<1>2. CASE /\ n \in 0 .. CborMax
           /\ hashAccountTransactionHeaderAndKind(h, p, MemoFieldsOf(r, n))
           /\ Ack(WITHMEMO, Announced(r, n))
  <2>1. Announced(r, n) \in Memos
    BY <1>2, AnnouncedKnown DEF FlowTypes
  <2>2. latch' \in SessionInss /\ ctx' \in Memos
    BY <1>2, <2>1 DEF Ack, SessionInss
  <2>3. MemoFieldsOf(r, n) \in Seq(TransferItem)
    BY <1>2, FieldsKnown
  <2> QED
    BY <1>2, <2>2, <2>3, HeadKnown
<1>3. CASE HeaderThrows(h, p, SubSeq(MemoFieldsOf(r, n), 1, 2))
  <2> DEFINE items == SubSeq(MemoFieldsOf(r, n), 1, 2)
  <2>1. items \in Seq(TransferItem)
    BY FieldsKnown
  <2> HIDE DEF items
  <2>2. HeaderThrows(h, p, items)
    BY <1>3 DEF items
  <2> QED
    BY <2>1, <2>2, HeaderThrowKnown
<1> QED
  BY <1>1, <1>2, <1>3

\* A chunk that fits, read into the buffer: the first one replaces what the
\* buffer held, the others are appended.
Read(c, v, n) == ReadChunk(c.state = "MEMO_INITIAL", c.cbor, v, n)
Fits(c, n) == FitsChunk(c.state = "MEMO_INITIAL", c.cbor, n)
After(c, v, n) ==
    [c EXCEPT !.cbor = Read(c, v, n), !.state = IF Read(c, v, n).length = 0 THEN "AMOUNT" ELSE "MEMO"]

LEMMA ReadKnown ==
    ASSUME NEW c \in Memos, NEW v \in Vals, NEW n \in 1 .. CborChunkMax, Fits(c, n)
    PROVE  /\ Read(c, v, n) \in [length : 0 .. CborMax, buf : Seq(Vals \X (1 .. CborChunkMax))]
           /\ Read(c, v, n).length = c.cbor.length - n
           /\ BufLen(Read(c, v, n).buf) <= CborMax
           /\ c.state = "MEMO_INITIAL" => Read(c, v, n).buf = <<<<v, n>>>>
           /\ c.state # "MEMO_INITIAL" => Read(c, v, n).buf = Append(c.cbor.buf, <<v, n>>)
<1> DEFINE first == c.state = "MEMO_INITIAL"
<1>1. c.cbor \in [length : 0 .. CborMax, buf : Seq(Vals \X (1 .. CborChunkMax))] /\ first \in BOOLEAN
  BY MemoFields
<1>2. FitsChunk(first, c.cbor, n)
  BY DEF Fits
<1> HIDE DEF first
<1>3. /\ ReadChunk(first, c.cbor, v, n) \in [length : 0 .. CborMax, buf : Seq(Vals \X (1 .. CborChunkMax))]
      /\ ReadChunk(first, c.cbor, v, n).length = c.cbor.length - n
      /\ BufLen(ReadChunk(first, c.cbor, v, n).buf) <= CborMax
      /\ first => ReadChunk(first, c.cbor, v, n).buf = <<<<v, n>>>>
      /\ ~first => ReadChunk(first, c.cbor, v, n).buf = Append(c.cbor.buf, <<v, n>>)
  BY <1>1, <1>2, ReadChunkKnown
<1> QED
  BY <1>3 DEF Read, first

LEMMA AfterKnown ==
    ASSUME NEW c \in Memos, NEW v \in Vals, NEW n \in 1 .. CborChunkMax, Fits(c, n)
    PROVE  /\ After(c, v, n) \in Memos /\ [c EXCEPT !.cbor = Read(c, v, n)] \in Memos
           /\ After(c, v, n).cbor = Read(c, v, n) /\ After(c, v, n).to = c.to
           /\ After(c, v, n).state = IF Read(c, v, n).length = 0 THEN "AMOUNT" ELSE "MEMO"
<1> DEFINE r == Read(c, v, n)
           d == [c EXCEPT !.cbor = r]
           e == [c EXCEPT !.cbor = r, !.state = IF r.length = 0 THEN "AMOUNT" ELSE "MEMO"]
<1>1. /\ r \in [length : 0 .. CborMax, buf : Seq(Vals \X (1 .. CborChunkMax))]
      /\ BufLen(r.buf) <= CborMax
  BY ReadKnown
<1>2. c \in TransferContexts
  BY MemoFields
<1> HIDE DEF r
<1>3. d \in TransferContexts /\ d.cbor = r
  BY <1>1, <1>2 DEF TransferContexts
<1>4. e \in TransferContexts /\ e.cbor = r /\ e.to = c.to
      /\ e.state = IF r.length = 0 THEN "AMOUNT" ELSE "MEMO"
  BY <1>1, <1>2 DEF TransferContexts, TransferStates
<1>5. d \in Memos /\ e \in Memos
  BY <1>1, <1>3, <1>4 DEF Memos
<1> QED
  BY <1>4, <1>5 DEF r, After

\* What a chunk finds: a memo that was announced, and not yet whole.
InMemo ==
    /\ latch = WITHMEMO /\ reply # Owed
    /\ ctx # Wiped /\ ctx.view = "transfer"
    /\ ctx.state \in {"MEMO_INITIAL", "MEMO", "AMOUNT"}

LEMMA OnlyInMemo ==
    ASSUME Gated, Enters(WITHMEMO), TransferView.state \in {"MEMO_INITIAL", "MEMO", "AMOUNT"},
           ctx \in SessionMemory
    PROVE  InMemo /\ TransferView = ctx
<1>1. latch # NONE
  <2> SUFFICES ASSUME latch = NONE PROVE FALSE
    OBVIOUS
  <2>1. TransferView = [TransferUnion EXCEPT !.state = "INITIAL"]
    BY DEF TransferView, IsInitialCall
  <2>2. TransferUnion \in TransferContexts
    BY TransferUnionKnown, MemoFields
  <2>3. TransferView.state = "INITIAL"
    BY <2>1, <2>2 DEF TransferContexts
  <2> QED
    BY <2>3
<1>2. latch = WITHMEMO /\ reply # Owed
  BY <1>1 DEF Enters, Delivered
<1>3. Union = ctx /\ TransferView = TransferUnion
  BY <1>1 DEF Union, IsInitialCall, TransferView
<1>4. TransferUnion # TransferZero
  BY <1>3 DEF TransferZero
<1>5. TransferUnion = ctx /\ ctx # Wiped /\ ctx.view = "transfer"
  BY <1>3, <1>4 DEF TransferUnion
<1> QED
  BY <1>2, <1>3, <1>5 DEF InMemo

LEMMA MemoParts ==
    ASSUME Gated, TransferMemo, ctx \in SessionMemory
    PROVE  \E v \in Vals, n \in 1 .. CborChunkMax :
              /\ InMemo /\ ctx.state \in {"MEMO_INITIAL", "MEMO"} /\ ctx \in Memos
              /\ UNCHANGED txConst
              /\ Feed(<<CborItem(v, n)>>)
              /\ \/ Throw
                 \/ Fits(ctx, n) /\ send_rejection([ctx EXCEPT !.cbor = Read(ctx, v, n)])
                 \/ Fits(ctx, n) /\ Ack(WITHMEMO, After(ctx, v, n))
<1>1. TransferView.state \in {"MEMO_INITIAL", "MEMO"} /\ Enters(WITHMEMO)
  BY Zenon DEF TransferMemo
<1>2. InMemo /\ TransferView = ctx
  BY <1>1, OnlyInMemo
<1>3. ctx \in Memos
  BY <1>2, TransferViewKnown
<1>4. PICK v \in Vals, n \in 1 .. CborChunkMax :
         /\ UNCHANGED txConst
         /\ Feed(<<CborItem(v, n)>>)
         /\ \/ Throw
            \/ Fits(TransferView, n) /\ send_rejection([TransferView EXCEPT !.cbor = Read(TransferView, v, n)])
            \/ Fits(TransferView, n) /\ Ack(WITHMEMO, After(TransferView, v, n))
  BY Zenon DEF TransferMemo, Fits, Read, FitsChunk, ReadChunk, After
<1> QED
  BY <1>1, <1>2, <1>3, <1>4

LEMMA MemoKnown ==
    ASSUME Gated, FlowTypes, TransferMemo, UNCHANGED pinned PROVE FlowTypes'
<1>1. PICK v \in Vals, n \in 1 .. CborChunkMax :
         /\ ctx \in Memos /\ UNCHANGED txConst
         /\ Feed(<<CborItem(v, n)>>)
         /\ \/ Throw
            \/ Fits(ctx, n) /\ send_rejection([ctx EXCEPT !.cbor = Read(ctx, v, n)])
            \/ Fits(ctx, n) /\ Ack(WITHMEMO, After(ctx, v, n))
  BY MemoParts DEF FlowTypes
<1>2. CborItem(v, n) \in TransferItem /\ hash \in Seq(TransferItem)
  BY TransferItems DEF FlowTypes
<1>3. hash' \in Seq(TransferItem)
  BY <1>1, <1>2, FeedOne
<1>4. latch' \in {NONE, WITHMEMO} /\ ctx' \in SessionMemory
  <2>1. CASE Throw
    BY <2>1, ThrowTypes
  <2>2. CASE Fits(ctx, n) /\ send_rejection([ctx EXCEPT !.cbor = Read(ctx, v, n)])
    BY <1>1, <2>2, AfterKnown DEF send_rejection, SessionMemory
  <2>3. CASE Fits(ctx, n) /\ Ack(WITHMEMO, After(ctx, v, n))
    BY <1>1, <2>3, AfterKnown DEF Ack, SessionMemory
  <2> QED
    BY <1>1, <2>1, <2>2, <2>3
<1> QED
  BY <1>1, <1>3, <1>4 DEF FlowTypes, txConst, SessionInss

LEMMA AmountParts ==
    ASSUME Gated, TransferAmount, ctx \in SessionMemory
    PROVE  \E a \in Vals :
              /\ InMemo /\ ctx.state = "AMOUNT" /\ ctx \in Memos
              /\ UNCHANGED txConst
              /\ \/ /\ Feed(<<<<"amount", a>>>>)
                    /\ Review(WITHMEMO, [ctx EXCEPT !.amount = a],
                              startTransferDisplay([ctx EXCEPT !.amount = a], account, TRUE))
                 \/ Throw /\ UNCHANGED hash
<1>1. PICK a \in Vals :
         /\ Enters(WITHMEMO)
         /\ [TransferView EXCEPT !.amount = a].state = "AMOUNT"
         /\ UNCHANGED txConst
         /\ \/ /\ Feed(<<<<"amount", a>>>>)
               /\ Review(WITHMEMO, [TransferView EXCEPT !.amount = a],
                         startTransferDisplay([TransferView EXCEPT !.amount = a], account, TRUE))
            \/ Throw /\ UNCHANGED hash
  BY Zenon DEF TransferAmount
<1>2. TransferView \in Memos
  BY TransferViewKnown
<1>3. TransferView.state = "AMOUNT"
  <2>1. TransferView \in TransferContexts
    BY <1>2, MemoFields
  <2> QED
    BY <1>1, <2>1 DEF TransferContexts
<1>4. InMemo /\ TransferView = ctx
  BY <1>1, <1>3, OnlyInMemo
<1> QED
  BY <1>1, <1>2, <1>3, <1>4

LEMMA AmountKnown ==
    ASSUME Gated, FlowTypes, TransferAmount, UNCHANGED pinned PROVE FlowTypes'
<1>1. PICK a \in Vals :
         /\ ctx \in Memos /\ UNCHANGED txConst
         /\ \/ /\ Feed(<<<<"amount", a>>>>)
               /\ Review(WITHMEMO, [ctx EXCEPT !.amount = a],
                         startTransferDisplay([ctx EXCEPT !.amount = a], account, TRUE))
            \/ Throw /\ UNCHANGED hash
  BY AmountParts DEF FlowTypes
<1>2. <<"amount", a>> \in TransferItem /\ hash \in Seq(TransferItem)
  BY TransferItems DEF FlowTypes
<1>3. [ctx EXCEPT !.amount = a] \in Memos
  BY <1>1, MemoFields
<1>4. hash' \in Seq(TransferItem)
  BY <1>1, <1>2, FeedOne
<1>5. latch' \in {NONE, WITHMEMO} /\ ctx' \in SessionMemory
  BY <1>1, <1>3, ThrowTypes DEF Review, SessionMemory
<1> QED
  BY <1>1, <1>4, <1>5 DEF FlowTypes, txConst, SessionInss

LEMMA TransferPacketKnown ==
    ASSUME Gated, FlowTypes, TransferPacket, UNCHANGED pinned PROVE FlowTypes'
<1>1. CASE TransferWrongState
  BY <1>1, ThrowTypes DEF TransferWrongState, noFlow, FlowTypes
<1> QED
  BY <1>1, TransferKnown, InitialKnown, MemoKnown, AmountKnown DEF TransferPacket

\* Steps that leave hash, path and account alone.
LEMMA NoFlowKnown ==
    ASSUME FlowTypes, UNCHANGED noFlow, latch' \in SessionInss \cup {NONE, "GET_APP_NAME"},
           ctx' \in SessionMemory, pinned' \in Paths \cup {NoPath}
    PROVE  FlowTypes'
  BY DEF FlowTypes, noFlow

LEMMA TransferButtonKnown ==
    ASSUME FlowTypes, TransferButton, UNCHANGED pinned PROVE FlowTypes'
<1>1. latch' = NONE /\ ctx' \in {ctx, Wiped} /\ UNCHANGED <<hash, path, account>>
  BY DEF TransferButton, buildAndSignTransactionHash, SigningFails, Decline, UserDeclines, send_success,
         send_user_rejection, CallbackThrow, ui_menu_main, noFlow
<1> QED
  BY <1>1 DEF FlowTypes, SessionMemory

LEMMA ShellKnown ==
    ASSUME FlowTypes, Shell(SessionInss), UNCHANGED pinned PROVE FlowTypes'
<1>1. UNCHANGED noFlow /\ ctx' \in {ctx, Union}
  BY DEF Shell, BadCommand, SwitchGuard, RefusedByDispatcher, AppInfo, UnknownInstruction, AboutBack,
         send_rejection, ui_menu_main
<1>2. latch' \in SessionInss \cup {latch, NONE, "GET_APP_NAME"}
  BY DEF Shell, BadCommand, SwitchGuard, RefusedByDispatcher, AppInfo, UnknownInstruction, AboutBack,
         send_rejection, ui_menu_main
<1> QED
  BY <1>1, <1>2, UnionKnown, NoFlowKnown DEF FlowTypes

LEMMA KeyContextKnown ==
    /\ \A p \in Paths, signed \in BOOLEAN : KeyContext(IdentityOf(p), signed) \in SessionMemory
    /\ \A signed \in BOOLEAN, c \in SessionMemory : KeyContext(DisplayIn(c), signed) \in SessionMemory
<1>1. ASSUME NEW p \in Paths, NEW signed \in BOOLEAN
      PROVE  KeyContext(IdentityOf(p), signed) \in KeyContexts
  BY DEF KeyContext, KeyContexts
<1>2. ASSUME NEW signed \in BOOLEAN, NEW c \in SessionMemory
      PROVE  KeyContext(DisplayIn(c), signed) \in KeyContexts
  <2>1. DisplayIn(c) \in {IdentityOf(p) : p \in Paths} \cup {"none"}
    <3>1. CASE c \in KeyContexts
      BY <3>1 DEF DisplayIn, KeyContexts
    <3>2. CASE c \notin KeyContexts
      BY <3>2, Views DEF DisplayIn, SessionMemory, Memos
    <3> QED
      BY <3>1, <3>2
  <2> QED
    BY <2>1 DEF KeyContext, KeyContexts
<1> QED
  BY <1>1, <1>2 DEF SessionMemory

LEMMA KeyRequestKnown == ASSUME FlowTypes, handle_get_public_key PROVE FlowTypes'
<1>1. Union \in SessionMemory /\ Wiped \in SessionMemory
  BY UnionKnown DEF FlowTypes, SessionMemory
<1>2. UNCHANGED <<hash, account>> /\ latch' \in {NONE, KEY}
  BY DEF handle_get_public_key, send_success, ui_menu_main, Throw
<1>3. path' \in {path} \cup Paths /\ pinned' \in {pinned} \cup Paths
  BY DEF handle_get_public_key
<1>4. ctx' \in SessionMemory
  <2>1. \/ ctx' \in {Union, Wiped}
        \/ \E p \in Paths, signed \in BOOLEAN :
              ctx' \in {KeyContext(IdentityOf(p), signed), KeyContext(DisplayIn(Union), signed)}
    BY DEF handle_get_public_key, Throw
  <2> QED
    BY <1>1, <2>1, KeyContextKnown
<1> QED
  BY <1>2, <1>3, <1>4 DEF FlowTypes, SessionInss, SessionPath

LEMMA KeyButtonKnown == ASSUME FlowTypes, KeyButton PROVE FlowTypes'
<1>1. UNCHANGED noFlow /\ pinned' = pinned
  BY DEF KeyButton, send_public_key_confirm, DeclineKey, UserDeclines, review_choice, StatusPageCloses
<1>2. latch' \in {latch, NONE} /\ ctx' \in {ctx, Wiped}
  BY DEF KeyButton, send_public_key_confirm, DeclineKey, UserDeclines, review_choice, StatusPageCloses,
         ui_menu_main, CallbackThrow, send_user_rejection
<1> QED
  BY <1>1, <1>2, NoFlowKnown DEF FlowTypes, SessionMemory

LEMMA RequestsKnown == Requests = ExportContexts /\ Requests \subseteq SessionMemory
  BY DEF Requests, ExportContexts, SessionMemory

LEMMA ExportPacketKnown ==
    ASSUME FlowTypes, ExportInv, ExportPacket, UNCHANGED pinned PROVE FlowTypes'
<1>1. AsExport(Union) \in Requests
  BY UnionType, AsExportType DEF ExportInv
<1>2. Wiped \in SessionMemory
  BY DEF SessionMemory
<1>3. CASE handle_export_private_key_new_path
  <2> DEFINE c(purpose, p, a) ==
               [AsExport(Union) EXCEPT !.isNewPath = TRUE, !.purpose = purpose,
                   !.network = NetworkOf(p), !.identity = p[2],
                   !.account = IF need_account_suffix(purpose) THEN a ELSE "none",
                   !.output = << >>]
  <2>1. ASSUME NEW purpose \in Purposes, NEW p \in Paths, NEW a \in Vals
        PROVE  c(purpose, p, a) \in Requests
    <3>1. purpose \in AllPurposes /\ NetworkOf(p) \in Networks /\ p[2] \in Identities
      BY PurposesAssumption DEF Networks, Identities
    <3> QED
      BY <1>1, <3>1 DEF Requests
  <2>2. /\ UNCHANGED noFlow
        /\ \/ latch' = NONE /\ ctx' = Wiped
           \/ /\ latch' = NEWKEYS
              /\ \E purpose \in Purposes, p \in Paths, a \in Vals : ctx' = c(purpose, p, a)
    BY <1>3, Zenon DEF handle_export_private_key_new_path, Review, Throw
  <2> HIDE DEF c
  <2>3. ctx' \in SessionMemory
    BY <1>2, <2>1, <2>2, RequestsKnown
  <2> QED
    BY <2>2, <2>3, NoFlowKnown DEF FlowTypes, SessionInss
<1>4. CASE handle_export_private_key_legacy_path
  <2> DEFINE c(both, seed) ==
               [AsExport(Union) EXCEPT !.isNewPath = FALSE, !.exportBoth = both, !.exportSeed = seed]
  <2>1. ASSUME NEW both \in BOOLEAN, NEW seed \in BOOLEAN PROVE c(both, seed) \in Requests
    BY <1>1 DEF Requests
  <2>2. /\ UNCHANGED <<hash, account>>
        /\ \/ latch' = NONE /\ ctx' = Wiped /\ path' = path
           \/ /\ latch' = OLDKEYS
              /\ \E i \in Identities : path' = LegacyPath(i)
              /\ \E both \in BOOLEAN, seed \in BOOLEAN : ctx' = c(both, seed)
    BY <1>4, Zenon DEF handle_export_private_key_legacy_path, Review, Throw
  <2> HIDE DEF c
  <2>3. ctx' \in SessionMemory
    BY <1>2, <2>1, <2>2, RequestsKnown
  <2>4. path' \in SessionPath
    BY <2>2 DEF SessionPath, FlowTypes
  <2> QED
    BY <2>2, <2>3, <2>4 DEF FlowTypes, SessionInss
<1> QED
  BY <1>3, <1>4 DEF ExportPacket

LEMMA LegacyKeyNames ==
    ASSUME NEW both \in BOOLEAN
    PROVE  /\ LegacyKeys(both) \in Seq({"PRF", "IdCredSec"})
           /\ Len(LegacyKeys(both)) \in DOMAIN LegacyKeys(both)
  BY DEF LegacyKeys

LEMMA ExportButtonKnown ==
    ASSUME FlowTypes, ExportInv, LegacyOnScreen, ExportButton, UNCHANGED pinned PROVE FlowTypes'
<1>1. AsExport(ctx) \in Requests
  BY AsExportType DEF ExportInv
<1>2. [AsExport(ctx) EXCEPT !.output = << >>] \in Requests
  BY <1>1 DEF Requests
<1>3. /\ ctx \in SessionMemory /\ Wiped \in SessionMemory
      /\ [AsExport(ctx) EXCEPT !.output = << >>] \in SessionMemory
  BY <1>2, RequestsKnown DEF FlowTypes, SessionMemory
<1>4. latch' = NONE
  BY Zenon DEF ExportButton, sendPrivateKeysNewPath, rejectPrivateKeysNewPath, exportPrivateKey,
         DeclineLegacyExport, UserDeclines, send_user_rejection, send_success, CallbackThrow,
         ui_menu_main
<1>5. ctx' \in {ctx, Wiped, [AsExport(ctx) EXCEPT !.output = << >>]}
  BY Zenon DEF ExportButton, sendPrivateKeysNewPath, rejectPrivateKeysNewPath, exportPrivateKey,
         DeclineLegacyExport, UserDeclines, CallbackThrow, Finally
<1>6. CASE ~exportPrivateKey
  <2>1. UNCHANGED noFlow
    BY <1>6, Zenon DEF ExportButton, sendPrivateKeysNewPath, rejectPrivateKeysNewPath,
           DeclineLegacyExport, UserDeclines
  <2> QED
    BY <1>3, <1>4, <1>5, <2>1, NoFlowKnown DEF FlowTypes
<1>7. CASE exportPrivateKey
  <2> DEFINE keys == LegacyKeys(AsExport(ctx).exportBoth)
             nth  == [n \in DOMAIN keys |-> AtKey(path, keys[n])]
  <2>1. PICK i \in Identities : path = LegacyPath(i)
    BY <1>7 DEF LegacyOnScreen, exportPrivateKey
  <2>2. AsExport(ctx).exportBoth \in BOOLEAN
    BY <1>1 DEF Requests
  <2>3. keys \in Seq({"PRF", "IdCredSec"}) /\ Len(keys) \in DOMAIN keys
    BY <2>2, LegacyKeyNames
  <2>4. UNCHANGED <<hash, account>> /\ (path' = nth[Len(nth)] \/ path' \in ItemsOf(nth))
    BY <1>7, Zenon DEF exportPrivateKey, ReadsExportBoth
  <2> HIDE DEF keys
  <2>5. DOMAIN nth = DOMAIN keys /\ Len(nth) = Len(keys)
    BY <2>3
  <2>6. \A n \in DOMAIN keys : nth[n] \in {AtKey(LegacyPath(i), k) : k \in {"PRF", "IdCredSec"}}
    BY <2>1, <2>3
  <2> HIDE DEF nth
  <2>7. path' \in {AtKey(LegacyPath(i), k) : k \in {"PRF", "IdCredSec"}}
    BY <2>3, <2>4, <2>5, <2>6 DEF ItemsOf
  <2>8. path' \in SessionPath
    BY <2>7 DEF SessionPath
  <2> QED
    BY <1>3, <1>4, <1>5, <2>4, <2>8 DEF FlowTypes
<1> QED
  BY <1>6, <1>7

LEMMA RestartKnown == ASSUME SessionRestart PROVE FlowTypes'
<1>1. /\ latch' = NONE /\ ctx' = Wiped /\ hash' = << >> /\ path' = NoPath /\ pinned' = NoPath
      /\ account' = NoAccount
  BY DEF SessionRestart, Restart
<1>2. NoAccount \in AccountTexts
  BY DEF NoAccount, AccountTexts, Networks
<1> QED
  BY <1>1, <1>2 DEF FlowTypes, SessionMemory, SessionPath

LEMMA FlowTypesStep ==
    ASSUME Gated, FlowTypes, ExportInv, LegacyOnScreen, [SessionNext]_keyVars PROVE FlowTypes'
<1>1. CASE UNCHANGED keyVars
  BY <1>1 DEF keyVars, deviceVars, FlowTypes
<1> QED
  BY <1>1, TransferPacketKnown, TransferButtonKnown, KeyRequestKnown, KeyButtonKnown,
     ExportPacketKnown, ExportButtonKnown, ShellKnown, RestartKnown DEF SessionNext

LEMMA FlowTypesInit == SessionInit => FlowTypes
<1> SUFFICES ASSUME SessionInit PROVE FlowTypes
  OBVIOUS
<1>1. /\ latch = NONE /\ ctx = Wiped /\ hash = << >> /\ path = NoPath /\ pinned = NoPath
      /\ account = NoAccount
  BY DEF SessionInit, DeviceInit
<1>2. NoAccount \in AccountTexts
  BY DEF NoAccount, AccountTexts, Networks
<1> QED
  BY <1>1, <1>2 DEF FlowTypes, SessionMemory, SessionPath

-----------------------------------------------------------------------------
(* Exports.  What KeyFlowsProofs shows of the requests holds here too: a   *)
(* transfer in the union reads as no request.                              *)

LEMMA TransferIsNoRequest ==
    ASSUME NEW c \in Memos PROVE RequestInStore(c) /\ AsExport(c) = ExportZero
<1>1. c # Wiped /\ c.view = "transfer"
  BY Views, MemoFields
<1> QED
  BY <1>1 DEF RequestInStore, AsExport

LEMMA TransferStepsKeepExports ==
    ASSUME Gated, FlowTypes, TransferPacket \/ TransferButton PROVE ExportKept
<1>1. CASE handle_sign_transfer
  <2>1. ctx' = Wiped \/ \E r, a \in Vals : ctx' = [TransferUnion EXCEPT !.to = r, !.amount = a]
    BY <1>1, Zenon DEF handle_sign_transfer, HeaderThrows, Throw, Review
  <2>2. TransferUnion \in Memos
    BY TransferUnionKnown DEF FlowTypes
  <2>3. \A r, a \in Vals : [TransferUnion EXCEPT !.to = r, !.amount = a] \in Memos
    BY <2>2, MemoFields
  <2>4. ctx' = Wiped \/ ctx' \in Memos
    BY <2>1, <2>3, Zenon
  <2> QED
    BY <2>4, WipedKeeps, TransferIsNoRequest DEF ExportKept
<1>2. CASE TransferInitialWithMemo
  <2>1. ctx' = Wiped \/ \E r \in Vals, n \in 0 .. CborMax : ctx' = Announced(r, n)
    BY <1>2, InitialParts, Zenon DEF HeaderThrows, Throw, Ack
  <2>2. ctx' = Wiped \/ ctx' \in Memos
    BY <2>1, AnnouncedKnown DEF FlowTypes
  <2> QED
    BY <2>2, WipedKeeps, TransferIsNoRequest DEF ExportKept
<1>3. CASE TransferMemo
  <2>1. PICK v \in Vals, n \in 1 .. CborChunkMax :
           /\ ctx \in Memos
           /\ \/ Throw
              \/ Fits(ctx, n) /\ send_rejection([ctx EXCEPT !.cbor = Read(ctx, v, n)])
              \/ Fits(ctx, n) /\ Ack(WITHMEMO, After(ctx, v, n))
    BY <1>3, MemoParts DEF FlowTypes
  <2>2. ctx' = Wiped \/ ctx' \in Memos
    BY <2>1, AfterKnown DEF Throw, send_rejection, Ack
  <2> QED
    BY <2>2, WipedKeeps, TransferIsNoRequest DEF ExportKept
<1>4. CASE TransferAmount
  <2>1. PICK a \in Vals : ctx \in Memos /\ (ctx' = [ctx EXCEPT !.amount = a] \/ ctx' = Wiped)
    BY <1>4, AmountParts, Zenon DEF FlowTypes, Review, Throw
  <2>2. ctx' = Wiped \/ ctx' \in Memos
    BY <2>1, MemoFields
  <2> QED
    BY <2>2, WipedKeeps, TransferIsNoRequest DEF ExportKept
<1>5. CASE TransferWrongState
  BY <1>5, WipedKeeps DEF TransferWrongState, Throw
<1>6. CASE TransferButton
  <2>1. ctx' = Wiped \/ (ctx' = ctx /\ screen' = Home)
    BY <1>6 DEF TransferButton, buildAndSignTransactionHash, SigningFails, Decline, UserDeclines,
           send_success, send_user_rejection, CallbackThrow, ui_menu_main
  <2> QED
    BY <2>1, WipedKeeps DEF ExportKept, Home
<1> QED
  BY <1>1, <1>2, <1>3, <1>4, <1>5, <1>6 DEF TransferPacket

LEMMA SessionKeepsExports ==
    ASSUME Gated, FlowTypes, ExportInv, [SessionNext]_keyVars PROVE ExportInv'
<1>1. CASE TransferPacket \/ TransferButton
  BY <1>1, TransferStepsKeepExports, ExportKeptIsEnough
<1>2. CASE handle_get_public_key \/ KeyButton
  BY <1>2, KeyStepsKeepExports, ExportKeptIsEnough
<1>3. CASE ExportPacket \/ ExportButton
  BY <1>3, NewRequestKeeps, LegacyRequestKeeps, ExportButtonKeeps DEF ExportPacket
<1>4. CASE Shell(SessionInss)
  <2>1. \/ ctx' = ctx /\ (UNCHANGED screen \/ screen' = Home)
        \/ ctx' = Union /\ UNCHANGED screen
    BY <1>4 DEF Shell, BadCommand, SwitchGuard, RefusedByDispatcher, AppInfo, UnknownInstruction,
           send_rejection, AboutBack, ui_menu_main
  <2> QED
    BY <2>1, UnionKeeps, ExportKeptIsEnough DEF ExportKept, Home
<1>5. CASE SessionRestart
  BY <1>5, WipedKeeps, ExportKeptIsEnough DEF SessionRestart, Restart
<1>6. CASE UNCHANGED keyVars
  BY <1>6, ExportKeptIsEnough DEF keyVars, deviceVars, ExportKept
<1> QED
  BY <1>1, <1>2, <1>3, <1>4, <1>5, <1>6 DEF SessionNext

LEMMA LegacyOnScreenStep ==
    ASSUME Gated, AnswerInv, FlowTypes, ExportInv, LegacyOnScreen, [SessionNext]_keyVars
    PROVE  LegacyOnScreen'
<1>1. CASE UNCHANGED keyVars
  BY <1>1 DEF keyVars, deviceVars, LegacyOnScreen
<1>2. CASE Quiet
  BY <1>2 DEF Quiet, LegacyOnScreen, AnswerInv, SessionReplyOwedIffReviewUp, ReviewShown
<1>3. CASE Settles \/ Signs \/ Draws("key") \/ Draws("export") \/ Draws("sign")
  BY <1>3 DEF Settles, Signs, Draws, Home, LegacyOnScreen
<1>4. CASE handle_export_private_key_legacy_path /\ Draws("exportLegacy")
  <2> DEFINE c(both, seed) ==
               [AsExport(Union) EXCEPT !.isNewPath = FALSE, !.exportBoth = both, !.exportSeed = seed]
  <2>1. ~Throw
    BY <1>4, Answers DEF Throw, Draws
  <2>2. PICK i \in Identities, both \in BOOLEAN, seed \in BOOLEAN :
           path' = LegacyPath(i) /\ ctx' = c(both, seed) /\ screen' = uiExportPrivateKey(i, c(both, seed))
    BY <1>4, <2>1, Zenon DEF handle_export_private_key_legacy_path, Review
  <2>3. AsExport(Union) \in Requests
    BY UnionType, AsExportType DEF ExportInv
  <2>4. c(both, seed) \in Requests
    BY <2>3 DEF Requests
  <2>5. AsExport(ctx') = ctx'
    BY <2>2, <2>4, RequestIsItself
  <2> QED
    BY <2>2, <2>5 DEF LegacyOnScreen
<1> QED
  BY <1>1, <1>2, <1>3, <1>4, Shapes

ConsentInv == AnswerInv /\ FlowTypes /\ ExportInv /\ LegacyOnScreen

LEMMA ConsentInvStep == ASSUME Gated, ConsentInv, [SessionNext]_keyVars PROVE ConsentInv'
  BY AnswerInvStep, FlowTypesStep, SessionKeepsExports, LegacyOnScreenStep DEF ConsentInv

LEMMA ConsentInvInit == SessionInit => ConsentInv
<1> SUFFICES ASSUME SessionInit PROVE ConsentInv
  OBVIOUS
<1>1. ctx = Wiped /\ screen = Home
  BY DEF SessionInit, DeviceInit
<1>2. ExportInv /\ LegacyOnScreen
  BY <1>1, WipedIsZero, ZeroIsRequest DEF ExportInv, Reviewed, Home, LegacyOnScreen
<1> QED
  BY <1>2, AnswerInvInit, FlowTypesInit DEF ConsentInv

\* Whatever instructions follow one another, every variable keeps its type; a
\* memo in the union is never longer than its buffer, although its length, its
\* first chunk and the others are checked and read in different packets.
THEOREM SessionTypeCorrect ==
    ASSUME Gated
    PROVE  SessionSpec => []SessionTypeOK
<1>1. ConsentInv => SessionTypeOK
  <2> SUFFICES ASSUME ConsentInv PROVE SessionTypeOK
    OBVIOUS
  <2>1. ctx \in SessionContext /\ (ctx # Wiped /\ ctx.view = "transfer" => BufLen(ctx.cbor.buf) <= CborMax)
    BY Views DEF ConsentInv, FlowTypes, SessionMemory, SessionContext, Memos
  <2> QED
    BY <2>1 DEF ConsentInv, FlowTypes, AnswerInv, SessionTypeOK, AccountTexts
<1>2. ConsentInv /\ [SessionNext]_keyVars => ConsentInv'
  BY ConsentInvStep
<1> QED
  BY <1>1, <1>2, ConsentInvInit, PTL DEF SessionSpec

\* The step property of ExportedKeysWereConsented.
ReleaseStep ==
    HasSecrets' /\ reply' # reply =>
        \/ screen.cb = "export" /\ NewConsent(screen, Secrets')
        \/ screen.cb = "exportLegacy" /\ LegacyConsent(screen, Secrets')

LEMMA LegacyIsConsented ==
    ASSUME ExportInv, LegacyOnScreen, exportPrivateKey PROVE ReleaseStep
<1> DEFINE both == AsExport(ctx).exportBoth
           seed == AsExport(ctx).exportSeed
           keys == LegacyKeys(both)
           nth  == [n \in DOMAIN keys |-> AtKey(path, keys[n])]
           sent == [n \in DOMAIN nth |-> LegacySecret(seed, nth[n])]
<1>1. PICK i \in Identities : path = LegacyPath(i) /\ screen = uiExportPrivateKey(i, AsExport(ctx))
  BY DEF LegacyOnScreen, exportPrivateKey
<1>2. both \in BOOLEAN /\ seed \in BOOLEAN
  BY AsExportType DEF ExportInv, Requests
<1>3. CASE reply' = Refused
  BY <1>3 DEF ReleaseStep, HasSecrets, Refused
<1>4. CASE reply' = Success(<<"secrets", sent>>)
  <2>1. Secrets' = ItemsOf(sent)
    BY <1>4 DEF Secrets, Success
  <2> HIDE DEF keys
  <2>2. DOMAIN sent = DOMAIN keys /\ \A n \in DOMAIN keys : sent[n] = LegacySecret(seed, AtKey(path, keys[n]))
    OBVIOUS
  <2> HIDE DEF sent, nth
  <2>3. ItemsOf(sent) = {LegacySecret(seed, AtKey(LegacyPath(i), k)) : k \in ItemsOf(keys)}
    BY <1>1, <2>2 DEF ItemsOf
  <2>4. uiExportPrivateKey(i, AsExport(ctx))
           = uiExportPrivateKey(i, [ExportZero EXCEPT !.exportBoth = both, !.exportSeed = seed])
    BY DEF uiExportPrivateKey, ExportZero
  <2>5. screen.cb = "exportLegacy"
    BY DEF exportPrivateKey
  <2>6. LegacyConsent(screen, Secrets')
    BY <1>1, <1>2, <2>1, <2>3, <2>4, Zenon DEF LegacyConsent, keys
  <2> QED
    BY <2>5, <2>6 DEF ReleaseStep
<1> QED
  BY <1>3, <1>4, Zenon DEF exportPrivateKey, send_success, CallbackThrow, ReadsExportBoth

\* No other step releases private keys.
ReleasesNone ==
    \/ UNCHANGED reply
    \/ reply' \in {Owed, Refused, Declined, Idle, Success(<< >>)}
    \/ \E x, f : reply' = KeyReply(x, f)
    \/ \E x, y : reply' = Success(<<"signature", x, y>>)

LEMMA ReleasesNoneIsEnough == ReleasesNone => ReleaseStep
  BY DEF ReleasesNone, ReleaseStep, HasSecrets, Owed, Refused, Declined, Idle, Success, KeyReply

LEMMA ReleaseStepHolds ==
    ASSUME Gated, ConsentInv, SessionNext PROVE ReleaseStep
<1>1. CASE TransferPacket
  BY <1>1, TransferShapes, ReleasesNoneIsEnough DEF ConsentInv, Quiet, Draws, ReleasesNone
<1>2. CASE TransferButton
  BY <1>2, ReleasesNoneIsEnough
     DEF TransferButton, buildAndSignTransactionHash, SigningFails, Decline, UserDeclines,
         send_user_rejection, send_success, CallbackThrow, ReleasesNone
<1>3. CASE handle_get_public_key
  BY <1>3, ReleasesNoneIsEnough DEF handle_get_public_key, send_success, Throw, KeyReply, Success, ReleasesNone
<1>4. CASE KeyButton
  BY <1>4, ReleasesNoneIsEnough
     DEF KeyButton, send_public_key_confirm, DeclineKey, UserDeclines, send_user_rejection, review_choice,
         StatusPageCloses, CallbackThrow, ReleasesNone
<1>5. CASE ExportPacket
  BY <1>5, ExportShapes, ReleasesNoneIsEnough DEF ConsentInv, Quiet, Draws, ReleasesNone
<1>6. CASE sendPrivateKeysNewPath
  <2>1. ConsentStep /\ screen.cb = "export"
    BY <1>6, AcceptedExportIsConsented DEF ConsentInv, sendPrivateKeysNewPath
  <2> QED
    BY <2>1 DEF ConsentStep, ReleaseStep
<1>7. CASE exportPrivateKey
  BY <1>7, LegacyIsConsented DEF ConsentInv
<1>8. CASE rejectPrivateKeysNewPath \/ DeclineLegacyExport
  BY <1>8, ReleasesNoneIsEnough
     DEF rejectPrivateKeysNewPath, DeclineLegacyExport, UserDeclines, send_user_rejection, ReleasesNone
<1>9. CASE Shell(SessionInss)
  BY <1>9, ReleasesNoneIsEnough
     DEF Shell, BadCommand, SwitchGuard, RefusedByDispatcher, AppInfo, UnknownInstruction,
         AboutBack, send_rejection, ReleasesNone
<1>10. CASE SessionRestart
  BY <1>10, ReleasesNoneIsEnough DEF SessionRestart, Restart, ReleasesNone
<1> QED
  BY <1>1, <1>2, <1>3, <1>4, <1>5, <1>6, <1>7, <1>8, <1>9, <1>10 DEF SessionNext, ExportButton

\* Private keys of either format leave the device only from a review that names
\* them: the legacy export derives from the path and the flags that are in store
\* when it is accepted, and those are still the ones that were shown.
THEOREM ReleasedKeysAreConsented ==
    ASSUME Gated
    PROVE  SessionSpec => ExportedKeysWereConsented
<1>1. ConsentInv /\ [SessionNext]_keyVars => ConsentInv'
  BY ConsentInvStep
<1>2. ConsentInv /\ [SessionNext]_keyVars =>
         [HasSecrets' /\ reply' # reply =>
             \/ screen.cb = "export" /\ NewConsent(screen, Secrets')
             \/ screen.cb = "exportLegacy" /\ LegacyConsent(screen, Secrets')]_keyVars
  BY ReleaseStepHolds DEF ReleaseStep
<1> QED
  BY <1>1, <1>2, ConsentInvInit, PTL DEF SessionSpec, ExportedKeysWereConsented

-----------------------------------------------------------------------------
(* Signatures.  While a memo is received, the transcript is the one the    *)
(* union and the account texts describe; when the amount completes it, all *)
(* of it goes on the screen; and nothing touches it until it is answered.  *)

\* What of the memo has been read: the first chunk overwrites the buffer.
Received == IF ctx.state = "MEMO_INITIAL" THEN << >> ELSE ctx.cbor.buf

MemoInFlight ==
    InMemo =>
        /\ Len(hash) >= 4
        /\ hash[1] = <<"header", account.header>>
        /\ hash[2] = <<"kind", WITHMEMO>>
        /\ hash[3] = <<"to", ctx.to>>
        /\ hash[4] = <<"cborLength", ctx.cbor.length + BufLen(Received)>>
        /\ \A i \in 5 .. Len(hash) : IsCbor(hash[i])
        /\ account.network = NetworkOf(path)
        /\ BlobOf(hash) = Received
        /\ ctx.state # "MEMO_INITIAL" => Len(hash) > 4 /\ BufLen(Received) > 0
        /\ ctx.state = "AMOUNT" => ctx.cbor.length = 0

SignOnScreen ==
    screen.cb = "sign" =>
        /\ IsTransfer(hash)
        /\ TransferRows(hash) \subseteq screen.items
        /\ <<"network", NetworkOf(path)>> \in screen.items

LEMMA NotInMemo ==
    ASSUME latch' # WITHMEMO \/ reply' = Owed \/ ctx' = Wiped PROVE MemoInFlight'
  BY DEF MemoInFlight, InMemo

LEMMA StillInMemo ==
    ASSUME MemoInFlight, reply # Owed, UNCHANGED <<latch, ctx, hash, account, path>>
    PROVE  MemoInFlight'
  BY DEF MemoInFlight, InMemo, Received

LEMMA InitialInFlight ==
    ASSUME FlowTypes, TransferInitialWithMemo PROVE MemoInFlight'
<1>1. PICK h \in Headers, p \in Paths, r \in Vals, n \in Nat :
         \/ /\ n \in 0 .. CborMax
            /\ hashAccountTransactionHeaderAndKind(h, p, MemoFieldsOf(r, n))
            /\ Ack(WITHMEMO, Announced(r, n))
         \/ HeaderThrows(h, p, SubSeq(MemoFieldsOf(r, n), 1, 2))
  BY InitialParts
<1>2. CASE HeaderThrows(h, p, SubSeq(MemoFieldsOf(r, n), 1, 2))
  BY <1>2, NotInMemo DEF HeaderThrows, Throw
<1>3. CASE /\ n \in 0 .. CborMax
           /\ hashAccountTransactionHeaderAndKind(h, p, MemoFieldsOf(r, n))
           /\ Ack(WITHMEMO, Announced(r, n))
  <2> DEFINE items == MemoFieldsOf(r, n)
  <2>1. /\ items \in Seq(TransferItem) /\ <<"header", h>> \in TransferItem
    BY <1>3, FieldsKnown, TransferItems
  <2>2. /\ Len(items) = 3 /\ items[1] = <<"kind", WITHMEMO>> /\ items[2] = <<"to", r>>
        /\ items[3] = <<"cborLength", n>>
    BY DEF MemoFieldsOf
  <2> HIDE DEF items
  <2>3. hashAccountTransactionHeaderAndKind(h, p, items)
    BY <1>3 DEF items
  <2>4. /\ hash' \in Seq(TransferItem) /\ Len(hash') = Len(items) + 1
        /\ hash'[1] = <<"header", h>>
        /\ \A i \in 1 .. Len(items) : hash'[i + 1] = items[i]
    BY <2>1, <2>3, HeadTypes
  <2>5. /\ Len(hash') = 4
        /\ hash'[1] = <<"header", h>> /\ hash'[2] = <<"kind", WITHMEMO>>
        /\ hash'[3] = <<"to", r>> /\ hash'[4] = <<"cborLength", n>>
    <3>1. 1 \in 1 .. Len(items) /\ 2 \in 1 .. Len(items) /\ 3 \in 1 .. Len(items)
      BY <2>2
    <3>2. hash'[1 + 1] = items[1] /\ hash'[2 + 1] = items[2] /\ hash'[3 + 1] = items[3]
      BY <2>4, <3>1
    <3> QED
      BY <2>2, <2>4, <3>2
  <2>6. \A i \in 1 .. 4 : ~IsCbor(hash'[i])
    <3>1. ~IsCbor(<<"header", h>>) /\ ~IsCbor(<<"kind", WITHMEMO>>) /\ ~IsCbor(<<"to", r>>)
          /\ ~IsCbor(<<"cborLength", n>>)
      BY DEF IsCbor
    <3>2. ~IsCbor(hash'[1]) /\ ~IsCbor(hash'[2]) /\ ~IsCbor(hash'[3]) /\ ~IsCbor(hash'[4])
      BY <2>5, <3>1
    <3>3. \A i \in 1 .. 4 : i = 1 \/ i = 2 \/ i = 3 \/ i = 4
      OBVIOUS
    <3> QED
      BY <3>2, <3>3
  <2>7. BlobOf(hash') = << >>
    BY <2>4, <2>5, <2>6, BlobOfPlain
  <2>8. /\ ctx'.state = "MEMO_INITIAL" /\ ctx'.to = r /\ ctx'.cbor.length = n
    BY <1>3, AnnouncedKnown DEF FlowTypes, Ack
  <2>9. account' = AccountSender(h, p) /\ path' = p
    BY <1>3 DEF hashAccountTransactionHeaderAndKind
  <2>10. account'.header = h /\ account'.network = NetworkOf(path')
    BY <2>9 DEF AccountSender
  <2>11. Received' = << >> /\ n + BufLen(Received') = n
    BY <2>8, BufLenEmpty DEF Received
  <2> QED
    BY <2>5, <2>7, <2>8, <2>10, <2>11 DEF MemoInFlight
<1> QED
  BY <1>1, <1>2, <1>3

LEMMA MemoGrows ==
    ASSUME Gated, FlowTypes, MemoInFlight, TransferMemo PROVE MemoInFlight'
<1>1. PICK v \in Vals, n \in 1 .. CborChunkMax :
         /\ InMemo /\ ctx.state \in {"MEMO_INITIAL", "MEMO"} /\ ctx \in Memos
         /\ UNCHANGED txConst
         /\ Feed(<<CborItem(v, n)>>)
         /\ \/ Throw
            \/ Fits(ctx, n) /\ send_rejection([ctx EXCEPT !.cbor = Read(ctx, v, n)])
            \/ Fits(ctx, n) /\ Ack(WITHMEMO, After(ctx, v, n))
  BY MemoParts DEF FlowTypes
<1>2. CASE Throw \/ send_rejection([ctx EXCEPT !.cbor = Read(ctx, v, n)])
  BY <1>2, NotInMemo DEF Throw, send_rejection, NONE, WITHMEMO
<1>3. CASE Fits(ctx, n) /\ Ack(WITHMEMO, After(ctx, v, n))
  <2> DEFINE read == Read(ctx, v, n)
             item == CborItem(v, n)
  <2>1. /\ Len(hash) \in Nat /\ Len(hash) >= 4
        /\ hash[1] = <<"header", account.header>>
        /\ hash[2] = <<"kind", WITHMEMO>>
        /\ hash[3] = <<"to", ctx.to>>
        /\ hash[4] = <<"cborLength", ctx.cbor.length + BufLen(Received)>>
        /\ \A i \in 5 .. Len(hash) : IsCbor(hash[i])
        /\ account.network = NetworkOf(path)
        /\ BlobOf(hash) = Received
    BY <1>1 DEF MemoInFlight, FlowTypes
  <2>2. item \in TransferItem /\ hash \in Seq(TransferItem)
    BY TransferItems DEF FlowTypes
  <2>3. IsCbor(item) /\ item[2] = v /\ item[3] = n
    BY DEF CborItem, IsCbor
  <2> HIDE DEF item
  <2>4. Feed(<<item>>)
    BY <1>1 DEF item
  <2>5. /\ hash' = Append(hash, item) /\ Len(hash') = Len(hash) + 1
        /\ hash'[Len(hash) + 1] = item
        /\ \A i \in 1 .. Len(hash) : hash'[i] = hash[i]
    BY <2>2, <2>4, FeedOne
  <2>6. BlobOf(hash') = Append(Received, <<v, n>>)
    <3>1. BlobOf(hash') = BlobStep(BlobOf(hash), item)
      BY <2>2, <2>5, BlobOfAppend
    <3> QED
      BY <2>1, <2>3, <3>1 DEF BlobStep
  <2>7. ctx.cbor.length \in 0 .. CborMax /\ ctx.cbor.buf \in Seq(Vals \X (1 .. CborChunkMax))
    BY <1>1, MemoFields
  <2>8. Received \in Seq(Vals \X (1 .. CborChunkMax))
    BY <2>7 DEF Received
  <2>9. BufLen(Received) \in Nat /\ BufLen(Append(Received, <<v, n>>)) = BufLen(Received) + n
    BY <2>8, BufGrows
  <2>10. read.length = ctx.cbor.length - n /\ read.length \in 0 .. CborMax
         /\ read.buf = Append(Received, <<v, n>>)
    <3>1. /\ read \in [length : 0 .. CborMax, buf : Seq(Vals \X (1 .. CborChunkMax))]
          /\ read.length = ctx.cbor.length - n
          /\ ctx.state = "MEMO_INITIAL" => read.buf = <<<<v, n>>>>
          /\ ctx.state # "MEMO_INITIAL" => read.buf = Append(ctx.cbor.buf, <<v, n>>)
      BY <1>1, <1>3, ReadKnown
    <3>2. Append(<< >>, <<v, n>>) = <<<<v, n>>>>
      OBVIOUS
    <3> QED
      BY <3>1, <3>2 DEF Received
  <2> HIDE DEF read
  <2>11. /\ ctx'.cbor = read /\ ctx'.to = ctx.to
         /\ ctx'.state = IF read.length = 0 THEN "AMOUNT" ELSE "MEMO"
    BY <1>1, <1>3, AfterKnown DEF Ack, read
  <2>12. Received' = Append(Received, <<v, n>>)
    BY <2>10, <2>11 DEF Received
  <2>13. n \in Nat /\ n > 0
    BY CborAssumption
  <2>14. ctx'.cbor.length + BufLen(Received') = ctx.cbor.length + BufLen(Received) /\ BufLen(Received') > 0
    BY <2>7, <2>9, <2>10, <2>11, <2>12, <2>13
  <2>15. /\ hash'[1] = hash[1] /\ hash'[2] = hash[2] /\ hash'[3] = hash[3] /\ hash'[4] = hash[4]
    BY <2>1, <2>5
  <2>16. \A i \in 5 .. Len(hash') : IsCbor(hash'[i])
    <3> SUFFICES ASSUME NEW i \in 5 .. Len(hash') PROVE IsCbor(hash'[i])
      OBVIOUS
    <3>1. CASE i = Len(hash) + 1
      BY <3>1, <2>3, <2>5
    <3>2. CASE i \in 5 .. Len(hash)
      BY <3>2, <2>1, <2>5
    <3> QED
      BY <3>1, <3>2, <2>1, <2>5
  <2>17. account' = account /\ path' = path
    BY <1>1 DEF txConst
  <2>18. ctx'.state = "AMOUNT" => ctx'.cbor.length = 0
    BY <2>11
  <2>19. Len(hash') > 4
    BY <2>1, <2>5
  <2> QED
    BY <2>1, <2>6, <2>11, <2>12, <2>14, <2>15, <2>16, <2>17, <2>18, <2>19 DEF MemoInFlight
<1> QED
  BY <1>1, <1>2, <1>3

LEMMA MemoInFlightStep ==
    ASSUME Gated, AnswerInv, FlowTypes, MemoInFlight, [SessionNext]_keyVars PROVE MemoInFlight'
<1>1. CASE UNCHANGED keyVars
  BY <1>1 DEF keyVars, deviceVars, MemoInFlight, InMemo, Received
<1>2. CASE handle_sign_transfer
  <2>1. latch' \in {NONE, TRANSFER}
    BY <1>2, Zenon DEF handle_sign_transfer, HeaderThrows, Throw, Review
  <2> QED
    BY <2>1, NotInMemo DEF NONE, TRANSFER, WITHMEMO
<1>3. CASE TransferInitialWithMemo
  BY <1>3, InitialInFlight
<1>4. CASE TransferMemo
  BY <1>4, MemoGrows
<1>5. CASE TransferAmount
  <2>1. latch' = NONE \/ reply' = Owed
    BY <1>5, Zenon DEF TransferAmount, Throw, Review
  <2> QED
    BY <2>1, NotInMemo DEF NONE, WITHMEMO
<1>6. CASE TransferWrongState
  BY <1>6, NotInMemo DEF TransferWrongState, Throw, NONE, WITHMEMO
<1>7. CASE TransferButton
  <2>1. latch' = NONE
    BY <1>7 DEF TransferButton, buildAndSignTransactionHash, SigningFails, Decline, UserDeclines,
           send_success, send_user_rejection, CallbackThrow, ui_menu_main
  <2> QED
    BY <2>1, NotInMemo DEF NONE, WITHMEMO
<1>8. CASE handle_get_public_key
  <2>1. latch' \in {NONE, KEY}
    BY <1>8 DEF handle_get_public_key, send_success, ui_menu_main, Throw
  <2> QED
    BY <2>1, NotInMemo DEF NONE, KEY, WITHMEMO
<1>9. CASE KeyButton
  <2>1. latch' = NONE \/ (review_choice /\ UNCHANGED <<latch, ctx, reply, noFlow>>)
    BY <1>9 DEF KeyButton, send_public_key_confirm, DeclineKey, UserDeclines, review_choice, StatusPageCloses,
           ui_menu_main, CallbackThrow, send_user_rejection
  <2>2. review_choice => reply # Owed
    BY DEF review_choice, AnswerInv, SessionReplyOwedIffReviewUp, ReviewShown
  <2> QED
    BY <2>1, <2>2, NotInMemo, StillInMemo DEF NONE, WITHMEMO, noFlow
<1>10. CASE ExportPacket
  <2>1. latch' \in {NONE, NEWKEYS, OLDKEYS}
    BY <1>10, Zenon DEF ExportPacket, handle_export_private_key_new_path,
           handle_export_private_key_legacy_path, Review, Throw
  <2> QED
    BY <2>1, NotInMemo DEF NONE, NEWKEYS, OLDKEYS, WITHMEMO
<1>11. CASE ExportButton
  <2>1. latch' = NONE
    BY <1>11, Zenon DEF ExportButton, sendPrivateKeysNewPath, rejectPrivateKeysNewPath, exportPrivateKey,
           DeclineLegacyExport, UserDeclines, send_user_rejection, send_success, CallbackThrow,
           ui_menu_main
  <2> QED
    BY <2>1, NotInMemo DEF NONE, WITHMEMO
<1>12. CASE Shell(SessionInss)
  <2>1. \/ latch' = NONE
        \/ reply # Owed /\ UNCHANGED <<latch, ctx, noFlow>>
        \/ ctx' = Union /\ latch = NONE
        \/ reply # Owed /\ ctx' = Union /\ latch # NONE /\ UNCHANGED <<latch, noFlow>>
    BY <1>12 DEF Shell, BadCommand, SwitchGuard, RefusedByDispatcher, AppInfo, UnknownInstruction,
           AboutBack, send_rejection, ui_menu_main, Enters, Delivered
  <2>2. (latch = NONE => Union = Wiped) /\ (latch # NONE => Union = ctx)
    BY DEF Union, IsInitialCall
  <2> QED
    BY <2>1, <2>2, NotInMemo, StillInMemo DEF NONE, WITHMEMO, noFlow
<1>13. CASE SessionRestart
  BY <1>13, NotInMemo DEF SessionRestart, Restart, NONE, WITHMEMO
<1> QED
  BY <1>1, <1>2, <1>3, <1>4, <1>5, <1>6, <1>7, <1>8, <1>9, <1>10, <1>11, <1>12, <1>13
     DEF SessionNext, TransferPacket

\* The one packet of a plain transfer.
LEMMA TransferOnScreen ==
    ASSUME FlowTypes, handle_sign_transfer, Draws("sign") PROVE SignOnScreen'
<1>1. ~Throw
  BY Answers DEF Throw, Draws
<1>2. PICK h \in Headers, p \in Paths, r \in Vals, a \in Vals :
         /\ hashAccountTransactionHeaderAndKind(h, p, TransferFields(r, a))
         /\ screen' = startTransferDisplay([TransferUnion EXCEPT !.to = r, !.amount = a],
                                           AccountSender(h, p), FALSE)
  BY <1>1, Zenon DEF handle_sign_transfer, TransferFields, Review, HeaderThrows
<1> DEFINE items == TransferFields(r, a)
           c     == [TransferUnion EXCEPT !.to = r, !.amount = a]
<1>3. items \in Seq(TransferItem) /\ <<"header", h>> \in TransferItem
  BY FieldsKnown, TransferItems
<1>4. /\ Len(items) = 3 /\ items[1] = <<"kind", TRANSFER>> /\ items[2] = <<"to", r>>
      /\ items[3] = <<"amount", a>>
  BY DEF TransferFields
<1>5. c.to = r /\ c.amount = a
  <2>1. TransferUnion \in TransferContexts
    BY TransferUnionKnown, MemoFields DEF FlowTypes
  <2> QED
    BY <2>1 DEF TransferContexts
<1> HIDE DEF items, c
<1>6. hashAccountTransactionHeaderAndKind(h, p, items)
  BY <1>2 DEF items
<1>7. /\ hash' \in Seq(TransferItem) /\ Len(hash') = Len(items) + 1
      /\ hash'[1] = <<"header", h>>
      /\ \A i \in 1 .. Len(items) : hash'[i + 1] = items[i]
  BY <1>3, <1>6, HeadTypes
<1>8. /\ Len(hash') = 4 /\ DOMAIN hash' = 1 .. 4
      /\ hash'[1] = <<"header", h>> /\ hash'[2] = <<"kind", TRANSFER>>
      /\ hash'[3] = <<"to", r>> /\ hash'[4] = <<"amount", a>>
  <2>1. 1 \in 1 .. Len(items) /\ 2 \in 1 .. Len(items) /\ 3 \in 1 .. Len(items)
    BY <1>4
  <2>2. hash'[1 + 1] = items[1] /\ hash'[2 + 1] = items[2] /\ hash'[3 + 1] = items[3]
    BY <1>7, <2>1
  <2> QED
    BY <1>4, <1>7, <2>2
<1>9. IsTransfer(hash')
  BY <1>8 DEF IsTransfer
<1>10. \A i \in DOMAIN hash' : i = 1 \/ i = 2 \/ i = 3 \/ i = 4
  BY <1>8
<1>11. \A i \in DOMAIN hash' : ~IsCbor(hash'[i])
  BY <1>8, <1>10 DEF IsCbor
<1>12. TransferRows(hash') \subseteq {<<"header", h>>, <<"to", r>>, <<"amount", a>>}
  <2>1. ASSUME NEW x \in ItemsOf(hash'), x[1] \in {"header", "to", "amount"}
        PROVE  x \in {<<"header", h>>, <<"to", r>>, <<"amount", a>>}
    <3>1. PICK i \in DOMAIN hash' : x = hash'[i]
      BY DEF ItemsOf
    <3> QED
      BY <1>8, <1>10, <2>1, <3>1
  <2> QED
    BY <1>11, <2>1 DEF TransferRows
<1>13. screen' = startTransferDisplay(c, AccountSender(h, p), FALSE)
  BY <1>2 DEF c
<1>14. {<<"header", h>>, <<"to", r>>, <<"amount", a>>, <<"network", NetworkOf(p)>>} \subseteq screen'.items
  BY <1>5, <1>13 DEF startTransferDisplay, HeaderPairs, AccountSender
<1>15. path' = p
  BY <1>2 DEF hashAccountTransactionHeaderAndKind
<1> QED
  BY <1>9, <1>12, <1>14, <1>15 DEF SignOnScreen

\* The amount that completes a transfer with a memo.
LEMMA AmountOnScreen ==
    ASSUME Gated, FlowTypes, MemoInFlight, TransferAmount, Draws("sign") PROVE SignOnScreen'
<1>1. ~Throw
  BY Answers DEF Throw, Draws
<1>2. PICK a \in Vals :
         /\ InMemo /\ ctx.state = "AMOUNT" /\ ctx \in Memos
         /\ UNCHANGED txConst
         /\ Feed(<<<<"amount", a>>>>)
         /\ screen' = startTransferDisplay([ctx EXCEPT !.amount = a], account, TRUE)
  BY <1>1, AmountParts, Zenon DEF FlowTypes, Review
<1> DEFINE item == <<"amount", a>>
           c    == [ctx EXCEPT !.amount = a]
<1>3. c.to = ctx.to /\ c.amount = a /\ c.cbor = ctx.cbor
  BY <1>2, MemoFields DEF TransferContexts
<1>4. item \in TransferItem /\ hash \in Seq(TransferItem) /\ ~IsCbor(item) /\ item[1] = "amount"
  BY TransferItems DEF FlowTypes, IsCbor
<1> HIDE DEF item, c
<1>5. Feed(<<item>>) /\ screen' = startTransferDisplay(c, account, TRUE)
  BY <1>2 DEF item, c
<1>6. /\ hash' = Append(hash, item) /\ Len(hash') = Len(hash) + 1 /\ hash' \in Seq(TransferItem)
      /\ hash'[Len(hash) + 1] = item
      /\ \A i \in 1 .. Len(hash) : hash'[i] = hash[i]
  BY <1>4, <1>5, FeedOne
<1>7. Received = ctx.cbor.buf /\ ctx.cbor.length = 0 /\ BufLen(ctx.cbor.buf) <= CborMax
      /\ BufLen(ctx.cbor.buf) \in Nat
  <2>1. ctx.cbor.buf \in Seq(Vals \X (1 .. CborChunkMax))
    BY <1>2, MemoFields
  <2>2. BufLen(ctx.cbor.buf) \in Nat
    <3>1. 1 .. CborChunkMax \subseteq Nat
      BY CborAssumption
    <3>2. Vals \X (1 .. CborChunkMax) \subseteq Vals \X Nat
      BY <3>1
    <3>3. ctx.cbor.buf \in Seq(Vals \X Nat)
      BY <2>1, <3>2
    <3> QED
      BY <3>3, BufLenNat
  <2> QED
    BY <1>2, <2>2, MemoFields DEF MemoInFlight, Received
<1>8. /\ Len(hash) \in Nat /\ Len(hash) > 4
      /\ hash[1] = <<"header", account.header>>
      /\ hash[2] = <<"kind", WITHMEMO>>
      /\ hash[3] = <<"to", ctx.to>>
      /\ hash[4] = <<"cborLength", BufLen(ctx.cbor.buf)>>
      /\ \A i \in 5 .. Len(hash) : IsCbor(hash[i])
      /\ account.network = NetworkOf(path)
      /\ BlobOf(hash) = ctx.cbor.buf
      /\ BufLen(ctx.cbor.buf) > 0
  BY <1>2, <1>4, <1>7 DEF MemoInFlight
<1>9. /\ hash'[1] = hash[1] /\ hash'[2] = hash[2] /\ hash'[3] = hash[3] /\ hash'[4] = hash[4]
      /\ \A i \in 5 .. Len(hash') - 1 : IsCbor(hash'[i])
  BY <1>6, <1>8
<1>10. BlobOf(hash') = ctx.cbor.buf
  <2>1. BlobOf(hash') = BlobStep(BlobOf(hash), item)
    BY <1>4, <1>6, BlobOfAppend
  <2> QED
    BY <1>4, <1>8, <2>1 DEF BlobStep
<1>11. IsTransfer(hash')
  BY <1>4, <1>6, <1>7, <1>8, <1>9, <1>10 DEF IsTransfer
<1> DEFINE rows == {<<"header", account.header>>, <<"to", ctx.to>>, item}
<1>12. ASSUME NEW x \in ItemsOf(hash'), x[1] \in {"header", "to", "amount"} PROVE x \in rows
  <2>1. PICK i \in 1 .. Len(hash') : x = hash'[i]
    BY <1>6 DEF ItemsOf
  <2>2. i = 1 \/ i = 2 \/ i = 3 \/ i = 4 \/ i \in 5 .. Len(hash') - 1 \/ i = Len(hash) + 1
    BY <1>6, <1>8
  <2>3. CASE i \in 5 .. Len(hash') - 1
    BY <1>9, <1>12, <2>1, <2>3 DEF IsCbor
  <2>4. CASE i = 2 \/ i = 4
    BY <1>8, <1>9, <1>12, <2>1, <2>4
  <2> QED
    BY <1>6, <1>8, <1>9, <2>1, <2>2, <2>3, <2>4
<1>13. TransferRows(hash') \subseteq rows \cup {<<"blob", ctx.cbor.buf>>}
  BY <1>10, <1>12 DEF TransferRows
<1>14. rows \cup {<<"blob", ctx.cbor.buf>>, <<"network", account.network>>} \subseteq screen'.items
  BY <1>3, <1>5 DEF startTransferDisplay, HeaderPairs, CborRows, item
<1>15. path' = path
  BY <1>2 DEF txConst
<1> QED
  BY <1>8, <1>11, <1>13, <1>14, <1>15 DEF SignOnScreen

LEMMA SignOnScreenStep ==
    ASSUME Gated, AnswerInv, FlowTypes, MemoInFlight, SignOnScreen, [SessionNext]_keyVars
    PROVE  SignOnScreen'
<1>1. CASE UNCHANGED keyVars
  BY <1>1 DEF keyVars, deviceVars, SignOnScreen
<1>2. CASE Quiet
  BY <1>2 DEF Quiet, SignOnScreen, AnswerInv, SessionReplyOwedIffReviewUp, ReviewShown
<1>3. CASE Settles \/ Signs \/ Draws("key") \/ Draws("export") \/ Draws("exportLegacy")
  BY <1>3 DEF Settles, Signs, Draws, Home, SignOnScreen
<1>4. CASE (handle_sign_transfer \/ TransferAmount) /\ Draws("sign")
  BY <1>4, TransferOnScreen, AmountOnScreen
<1> QED
  BY <1>1, <1>2, <1>3, <1>4, Shapes

SignedInv == TransferSignedWasReviewed /\ TransferSignedIsComplete

LEMMA NoSignatureIsEnough == ASSUME NoSignature(reply') PROVE SignedInv'
  BY DEF NoSignature, SignedInv, TransferSignedWasReviewed, TransferSignedIsComplete, HasSignature

LEMMA SignedInvStep ==
    ASSUME Gated, AnswerInv, SignOnScreen, SignedInv, [SessionNext]_keyVars PROVE SignedInv'
<1>1. CASE UNCHANGED <<reply, approved>>
  BY <1>1 DEF SignedInv, TransferSignedWasReviewed, TransferSignedIsComplete, HasSignature,
         SignedItems, SigningPath
<1>2. CASE NoSignature(reply')
  BY <1>2, NoSignatureIsEnough
<1>3. CASE Signs
  <2>1. SignedItems' = hash /\ SigningPath' = path
    BY <1>3 DEF Signs, SignedItems, SigningPath, Success
  <2>2. screen.items \subseteq approved'
    BY <1>3 DEF Signs
  <2> QED
    BY <1>3, <2>1, <2>2 DEF Signs, SignOnScreen, SignedInv, TransferSignedWasReviewed,
           TransferSignedIsComplete
<1>4. \/ UNCHANGED <<reply, approved>> \/ NoSignature(reply') \/ Signs
  <2>1. CASE UNCHANGED keyVars
    BY <2>1 DEF keyVars, deviceVars
  <2>2. CASE Quiet \/ Settles
    BY <2>2, Answers DEF Quiet, Settles
  <2>3. ASSUME NEW cb, Draws(cb) PROVE NoSignature(reply')
    BY <2>3, Answers DEF Draws
  <2> QED
    BY <2>1, <2>2, <2>3, Shapes
<1> QED
  BY <1>1, <1>2, <1>3, <1>4

SessionInv == ConsentInv /\ MemoInFlight /\ SignOnScreen /\ SignedInv

LEMMA SessionInvStep == ASSUME Gated, SessionInv, [SessionNext]_keyVars PROVE SessionInv'
  BY ConsentInvStep, MemoInFlightStep, SignOnScreenStep, SignedInvStep DEF SessionInv, ConsentInv

LEMMA SessionInvInit == SessionInit => SessionInv
<1> SUFFICES ASSUME SessionInit PROVE SessionInv
  OBVIOUS
<1>1. latch = NONE /\ screen = Home /\ reply = Idle
  BY DEF SessionInit, DeviceInit
<1>2. MemoInFlight /\ SignOnScreen
  BY <1>1 DEF MemoInFlight, InMemo, SignOnScreen, NONE, WITHMEMO, Home
<1>3. SignedInv
  BY <1>1 DEF SignedInv, TransferSignedWasReviewed, TransferSignedIsComplete, HasSignature, Idle
<1> QED
  BY <1>2, <1>3, ConsentInvInit DEF SessionInv

\* What you see is what you sign: every field of a signed transfer, its memo as
\* one whole, and the network of the key that signed it, were on the screen that
\* was accepted, whatever key requests, refusals, reviews and restarts came
\* between its packets.
THEOREM SignedTransferWasReviewed ==
    ASSUME Gated
    PROVE  SessionSpec => []TransferSignedWasReviewed
<1>1. SessionInv => TransferSignedWasReviewed
  BY DEF SessionInv, SignedInv
<1>2. SessionInv /\ [SessionNext]_keyVars => SessionInv'
  BY SessionInvStep
<1> QED
  BY <1>1, <1>2, SessionInvInit, PTL DEF SessionSpec

\* Only a whole transfer is ever signed, with as many bytes of memo as its
\* length field, which was hashed first, announced.
THEOREM SignedTransferIsComplete ==
    ASSUME Gated
    PROVE  SessionSpec => []TransferSignedIsComplete
<1>1. SessionInv => TransferSignedIsComplete
  BY DEF SessionInv, SignedInv
<1>2. SessionInv /\ [SessionNext]_keyVars => SessionInv'
  BY SessionInvStep
<1> QED
  BY <1>1, <1>2, SessionInvInit, PTL DEF SessionSpec
=============================================================================
