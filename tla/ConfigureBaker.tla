--------------------------- MODULE ConfigureBaker ---------------------------
(***************************************************************************)
(* INS_CONFIGURE_BAKER: the longest staged signing flow.  The first packet *)
(* carries a bitmap of the fields that follow; each later packet feeds the *)
(* transaction hash and, when it completes a stage, parks the flow in      *)
(* AWAITING_CONFIRM behind a review of what was just hashed.               *)
(***************************************************************************)
EXTENDS Device

CONSTANTS
    Bitmaps,   \* the bitmaps a host sends: sets of field names
    UrlMax,    \* longest metadata URL (2048)
    ChunkMax   \* most URL bytes in one packet (255)

BAKER == "CONFIGURE_BAKER"

FirstFields == {"capital", "restakeEarnings", "openForDelegation", "keys"}
Commissions == {"transactionFee", "bakingReward", "finalizationReward"}
Fields      == FirstFields \cup {"metadataUrl"} \cup Commissions \cup {"suspended"}

ASSUME BakerAssumption ==
    /\ Bitmaps \subseteq SUBSET Fields
    /\ UrlMax \in Nat
    /\ ChunkMax \in Nat \ {0}

BakerStates == {"zero", "INITIAL", "FIRST", "AGGREGATION_KEY", "URL_LENGTH", "URL",
                "COMMISSION_RATES", "SUSPENDED", "END", "AWAITING_CONFIRM"}

-----------------------------------------------------------------------------
(* signConfigureBaker_t.  blob is the inner union of display texts: the     *)
(* stage that last wrote it owns it.                                       *)

BakerZero == [view |-> BAKER, state |-> "zero", pendingState |-> "zero",
              has |-> {}, firstDisplay |-> FALSE, blob |-> << >>,
              keysHash |-> << >>, urlLength |-> 0]

\* The union read as signConfigureBaker_t on entry to the handler.
BakerView ==
    IF IsInitialCall THEN [BakerZero EXCEPT !.state = "INITIAL"]
    ELSE IF ctx = Wiped THEN BakerZero ELSE ctx

hasCommissionRate(c) == c.has \cap Commissions # {}

\* The stage that follows the URL, the first batch, and the bitmap.
AfterUrl_ForgetsSuspended(c) == IF hasCommissionRate(c) THEN "COMMISSION_RATES" ELSE "END"
AfterUrl(c) == IF hasCommissionRate(c) THEN "COMMISSION_RATES"
               ELSE IF "suspended" \in c.has THEN "SUSPENDED" ELSE "END"
AfterFirst(c) == IF "metadataUrl" \in c.has THEN "URL_LENGTH" ELSE AfterUrl(c)
AfterBitmap(c) == IF c.has \cap FirstFields # {} THEN "FIRST"
                  ELSE IF AfterFirst(c) = "END" THEN "INITIAL" ELSE AfterFirst(c)

\* Parking in a state no packet matches, and what the code did before it.
awaitConfigureBakerConfirm_AdvancesAtOnce(c, next) ==
    [c EXCEPT !.pendingState = next, !.state = next]
awaitConfigureBakerConfirm(c, next) ==
    [c EXCEPT !.pendingState = next, !.state = "AWAITING_CONFIRM"]

-----------------------------------------------------------------------------
(* Screens: what a stage shows, and whether it offers Continue or Sign.    *)

HeaderOnFirstDisplay_Never(c) == {}
HeaderOnFirstDisplay(c) == IF c.firstDisplay THEN addAccountHeaderPairs ELSE {}

BakerScreen(continues, items) ==
    [cb |-> IF continues THEN "continue" ELSE "sign", items |-> items]

startConfigureBakerDisplay_HidesKeys(c) ==
    BakerScreen("metadataUrl" \in c.has \/ hasCommissionRate(c) \/ "suspended" \in c.has,
                addAccountHeaderPairs \cup ItemsOf(c.blob))

startConfigureBakerDisplay(c) ==
    BakerScreen("metadataUrl" \in c.has \/ hasCommissionRate(c) \/ "suspended" \in c.has,
                addAccountHeaderPairs \cup ItemsOf(c.blob) \cup ItemsOf(c.keysHash))

startConfigureBakerUrlDisplay_IgnoresLastPage(c, lastUrlPage) ==
    BakerScreen(hasCommissionRate(c) \/ "suspended" \in c.has,
                HeaderOnFirstDisplay(c) \cup
                IF lastUrlPage /\ c.urlLength = 0 THEN {<<"urlLength", 0>>}
                ELSE ItemsOf(c.blob))

startConfigureBakerUrlDisplay(c, lastUrlPage) ==
    BakerScreen(~lastUrlPage \/ hasCommissionRate(c) \/ "suspended" \in c.has,
                HeaderOnFirstDisplay(c) \cup
                IF lastUrlPage /\ c.urlLength = 0 THEN {<<"urlLength", 0>>}
                ELSE ItemsOf(c.blob))

startConfigureBakerCommissionDisplay(c) ==
    BakerScreen("suspended" \in c.has, HeaderOnFirstDisplay(c) \cup ItemsOf(c.blob))

startConfigureBakerSuspendedDisplay(c) ==
    BakerScreen(FALSE, HeaderOnFirstDisplay(c) \cup ItemsOf(c.blob))

-----------------------------------------------------------------------------
(* Packets. *)

\* The field as it is hashed, when the bitmap declares it.
Declared(c, field, v) == IF field \in c.has THEN <<<<field, v>>>> ELSE << >>

\* Draw the review of a stage and park the flow behind it.
ReviewStage(d, next, s) ==
    Review(BAKER, awaitConfigureBakerConfirm([d EXCEPT !.firstDisplay = FALSE], next), s)

\* P1_INITIAL
BakerInitial ==
    \E h \in Headers, p \in Paths, has \in Bitmaps :
        LET c    == [BakerView EXCEPT !.has = has, !.firstDisplay = TRUE, !.keysHash = << >>]
            head == <<<<"kind", BAKER>>, <<"bitmap", has>>>>
        IN  /\ Enters(BAKER)
            /\ BakerView.state = "INITIAL"
            /\ \/ /\ hashAccountTransactionHeaderAndKind(h, p, head)
                  /\ Ack(BAKER, [c EXCEPT !.state = AfterBitmap(c)])
               \/ HeaderThrows(h, p, head)

\* P1_FIRST_BATCH
DisplayedFirst(c, v) ==
    Declared(c, "capital", v) \o Declared(c, "restakeEarnings", v)
      \o Declared(c, "openForDelegation", v)

FirstBatchItems(c, v, k) ==
    DisplayedFirst(c, v) \o
    IF "keys" \in c.has
    THEN <<<<"electionKey", k>>, <<"electionProof", k>>,
           <<"signatureKey", k>>, <<"signatureProof", k>>>>
    ELSE << >>

BakerFirstBatch ==
    \E v, k \in Vals :
        LET c == BakerView
            d == [c EXCEPT !.blob = DisplayedFirst(c, v)]
        IN  /\ Enters(BAKER)
            /\ c.state = "FIRST"
            /\ UNCHANGED txConst
            /\ \/ /\ "keys" \in c.has
                  /\ Feed(FirstBatchItems(c, v, k))
                  /\ Ack(BAKER, [d EXCEPT
                         !.state = "AGGREGATION_KEY",
                         !.keysHash = @ \o <<<<"electionKey", k>>, <<"signatureKey", k>>>>])
               \/ /\ "keys" \notin c.has
                  /\ Feed(FirstBatchItems(c, v, k))
                  /\ ReviewStage(d, AfterFirst(c), startConfigureBakerDisplay(d))
               \/ ThrowAfterPrefix(FirstBatchItems(c, v, k))

\* P1_AGGREGATION_KEY
BakerAggregationKey ==
    \E k \in Vals :
        LET c == BakerView
            d == [c EXCEPT !.keysHash = Append(@, <<"aggregationKey", k>>)]
        IN  /\ Enters(BAKER)
            /\ c.state = "AGGREGATION_KEY"
            /\ UNCHANGED txConst
            /\ \/ /\ Feed(<<<<"aggregationKey", k>>, <<"aggregationProof", k>>>>)
                  /\ ReviewStage(d, AfterFirst(c), startConfigureBakerDisplay(d))
               \/ Throw /\ UNCHANGED hash

\* P1_URL_LENGTH
UrlLengthFits_OffByOne(n) == n <= UrlMax + 1
UrlLengthFits(n) == n <= UrlMax

BakerUrlLength ==
    \E n \in 0 .. UrlMax + 1 :
        LET c == BakerView
            d == [c EXCEPT !.urlLength = n, !.blob = << >>]
        IN  /\ Enters(BAKER)
            /\ c.state = "URL_LENGTH"
            /\ UNCHANGED txConst
            /\ \/ /\ ~UrlLengthFits(n)
                  /\ Throw
                  /\ UNCHANGED hash
               \/ /\ n = 0
                  /\ Feed(<<<<"urlLength", 0>>>>)
                  /\ ReviewStage(d, AfterUrl(c), startConfigureBakerUrlDisplay(d, TRUE))
               \/ /\ n > 0 /\ UrlLengthFits(n)
                  /\ Feed(<<<<"urlLength", n>>>>)
                  /\ Ack(BAKER, [d EXCEPT !.state = "URL"])

\* P1_URL: a chunk of n bytes, refused when it cannot be rendered.
BakerUrl ==
    \E n \in 1 .. ChunkMax, v \in Vals :
        LET c    == BakerView
            last == c.urlLength = n
            d    == [c EXCEPT !.blob = <<<<"url", v, n>>>>,
                              !.urlLength = IF last THEN @ ELSE @ - n]
        IN  /\ Enters(BAKER)
            /\ c.state = "URL"
            /\ UNCHANGED txConst
            /\ \/ /\ c.urlLength < n
                  /\ Throw
                  /\ UNCHANGED hash
               \/ /\ c.urlLength >= n
                  /\ send_rejection(c)
                  /\ UNCHANGED hash
               \/ /\ c.urlLength >= n
                  /\ Feed(<<<<"url", v, n>>>>)
                  /\ ReviewStage(d, IF last THEN AfterUrl(c) ELSE "URL",
                                 startConfigureBakerUrlDisplay(d, last))

\* P1_COMMISSION_RATES
CommissionItems(c, v) ==
    Declared(c, "transactionFee", v) \o Declared(c, "bakingReward", v)
      \o Declared(c, "finalizationReward", v)

handleCommissionRates ==
    \E v \in Vals :
        LET c == BakerView
            d == [c EXCEPT !.blob = CommissionItems(c, v)]
        IN  /\ Enters(BAKER)
            /\ c.state = "COMMISSION_RATES"
            /\ UNCHANGED txConst
            /\ \/ /\ Feed(CommissionItems(c, v))
                  /\ ReviewStage(d, IF "suspended" \in c.has THEN "SUSPENDED" ELSE "END",
                                 startConfigureBakerCommissionDisplay(d))
               \/ ThrowAfterPrefix(CommissionItems(c, v))

\* P1_SUSPENDED
BakerSuspended ==
    \E v \in Vals :
        LET c == BakerView
            d == [c EXCEPT !.blob = <<<<"suspended", v>>>>]
        IN  /\ Enters(BAKER)
            /\ c.state = "SUSPENDED"
            /\ UNCHANGED txConst
            /\ \/ /\ Feed(<<<<"suspended", v>>>>)
                  /\ ReviewStage(d, "END", startConfigureBakerSuspendedDisplay(d))
               \/ ThrowAfterPrefix(<<<<"suspended", v>>>>)

\* A packet whose P1 does not match the state: ERROR_INVALID_STATE.
BakerWrongState ==
    /\ Enters(BAKER)
    /\ Throw
    /\ UNCHANGED <<hash, path, account, approved>>

\* The Continue button of a stage.
confirmConfigureBakerStage ==
    /\ screen.cb = "continue"
    /\ LET c == IF ctx = Wiped THEN BakerZero ELSE ctx
       IN  ctx' = [c EXCEPT !.state = c.pendingState]
    /\ reply' = Success(<< >>)
    /\ approved' = approved \cup screen.items
    /\ screen' = [cb |-> "stale", items |-> {}]
    /\ UNCHANGED <<latch, keyPending, hash, path, account>>

BakerPacket ==
    \/ BakerInitial \/ BakerFirstBatch \/ BakerAggregationKey
    \/ BakerUrlLength \/ BakerUrl \/ handleCommissionRates \/ BakerSuspended
    \/ BakerWrongState

BakerButton ==
    \/ confirmConfigureBakerStage \/ buildAndSignTransactionHash \/ SigningFails \/ Decline

-----------------------------------------------------------------------------
(* The flow, in the application around it. *)

BakerNext ==
    \/ BakerPacket
    \/ BakerButton
    \/ Shell({BAKER})
    \/ Restart

BakerSpec == DeviceInit /\ [][BakerNext]_deviceVars

-----------------------------------------------------------------------------
(* Properties. *)

ValueTags == {"capital", "restakeEarnings", "openForDelegation",
              "electionKey", "electionProof", "signatureKey", "signatureProof",
              "aggregationKey", "aggregationProof",
              "transactionFee", "bakingReward", "finalizationReward", "suspended"}

BakerItem ==
    UNION {{"header"} \X Headers, {<<"kind", BAKER>>}, {"bitmap"} \X Bitmaps,
           ValueTags \X Vals, {"urlLength"} \X (0 .. UrlMax),
           {"url"} \X Vals \X (1 .. ChunkMax)}

ShownItem == BakerItem \cup ({"header"} \X {"none"}) \cup ({"network"} \X Networks)

BakerContext ==
    [view : {BAKER}, state : BakerStates, pendingState : BakerStates,
     has : SUBSET Fields, firstDisplay : BOOLEAN, blob : Seq(BakerItem),
     keysHash : Seq(BakerItem), urlLength : 0 .. UrlMax]

BakerReply ==
    {Owed, Idle, Refused, Declined} \cup
    [sw : {"success"},
     body : {<< >>} \cup ({"signature"} \X Seq(BakerItem) \X (Paths \cup {NoPath}))]

ShellTypes ==
    /\ latch \in {NONE, BAKER, "GET_APP_NAME"}
    /\ ctx \in BakerContext \cup {Wiped}
    /\ screen \in [cb : {"home", "stale", "continue", "sign"}, items : SUBSET ShownItem]
    /\ reply \in BakerReply
    /\ keyPending = FALSE

TranscriptTypes ==
    /\ hash \in Seq(BakerItem)
    /\ path \in Paths \cup {NoPath}
    /\ account \in [header : Headers \cup {"none"}, network : Networks]
    /\ approved \subseteq ShownItem

\* Every variable keeps its type; in particular the URL length stored in the
\* context never leaves 0 .. 2048 (it is decremented, unsigned, by P1_URL).
TypeOK == ShellTypes /\ TranscriptTypes

\* Items that are signed without a line of their own on any screen: the kind
\* and the bitmap (implied by which fields are shown), the key proofs (left
\* out of the displayed digest on purpose) and a non-zero URL length.
Unshown(item) ==
    \/ item[1] \in {"kind", "bitmap", "electionProof", "signatureProof", "aggregationProof"}
    \/ item[1] = "urlLength" /\ item # <<"urlLength", 0>>

NeedsReview(s) == {item \in ItemsOf(s) : ~Unshown(item)}

\* What you see is what you sign: every visible item of the transcript that
\* was signed stood on a screen the user accepted since the transaction was
\* begun, and so did the network of the signing key's path.
SignedWasReviewed ==
    HasSignature => /\ NeedsReview(SignedItems) \subseteq approved
                    /\ <<"network", NetworkOf(SigningPath)>> \in approved

\* The serialization of an account transaction with bitmap has, by the tags of
\* its items: the declared fields, each once, in wire order, with u chunks of URL
\* behind its length.
Told(has, field, tags) == IF field \in has THEN tags ELSE << >>

DisplayWire(has) ==
    Told(has, "capital", <<"capital">>) \o Told(has, "restakeEarnings", <<"restakeEarnings">>)
      \o Told(has, "openForDelegation", <<"openForDelegation">>)
FirstWire(has) ==
    DisplayWire(has) \o
    Told(has, "keys", <<"electionKey", "electionProof", "signatureKey", "signatureProof",
                        "aggregationKey", "aggregationProof">>)
UrlWire(has, u) == Told(has, "metadataUrl", <<"urlLength">> \o [i \in 1 .. u |-> "url"])
CommissionWire(has) ==
    Told(has, "transactionFee", <<"transactionFee">>)
      \o Told(has, "bakingReward", <<"bakingReward">>)
      \o Told(has, "finalizationReward", <<"finalizationReward">>)
Wire(has, u) ==
    FirstWire(has) \o UrlWire(has, u) \o CommissionWire(has)
      \o Told(has, "suspended", <<"suspended">>)

Tags(s) == [i \in DOMAIN s |-> s[i][1]]

IsUrl(item) == item[1] = "url"

\* The bytes of the URL items among the first i items of s.
UrlBytes(s) ==
    LET sum[i \in 0 .. Len(s)] ==
            IF i = 0 THEN 0 ELSE sum[i - 1] + IF IsUrl(s[i]) THEN s[i][3] ELSE 0
    IN  sum[Len(s)]

\* No URL byte is missing or in excess.
UrlTold(s, left) ==
    \A i \in DOMAIN s :
        s[i][1] = "urlLength" => s[i][2] = UrlBytes(s) + left /\ s[i][2] <= UrlMax

IsComplete(s) ==
    /\ Len(s) > 3 /\ s[2] = <<"kind", BAKER>>
    /\ \E u \in 0 .. Len(s) : Tags(s) = <<"header", "kind", "bitmap">> \o Wire(s[3][2], u)
    /\ UrlTold(s, 0)

\* A signature is only ever made over a whole transaction: no stage skipped,
\* repeated or cut short, whatever packets, refusals and key presses led there.
SignedIsComplete == HasSignature => IsComplete(SignedItems)

\* Items already hashed that the flow still holds back for its next screen.
Awaiting(c) ==
    HeaderOnFirstDisplay(c) \cup
    IF c.state = "AGGREGATION_KEY" THEN ItemsOf(c.blob) \cup ItemsOf(c.keysHash) ELSE {}

OpenStages == {"FIRST", "AGGREGATION_KEY", "URL_LENGTH", "URL", "COMMISSION_RATES", "SUSPENDED"}

Open == latch = BAKER /\ ctx # Wiped /\ ctx.state \in OpenStages

\* What the transcript so far obliges the application to show.
MustShow == NeedsReview(hash) \cup {<<"network", NetworkOf(path)>>}

\* The review, not the packet, drives the flow: while a stage accepts packets,
\* everything hashed before it was accepted on screen or will be on the next
\* one.  This does not lean on the SDK holding commands back; parking each
\* stage in AWAITING_CONFIRM is what gives it.
OpenStageWasReviewed == Open => MustShow \subseteq approved \cup Awaiting(ctx)

InBakerFlow == latch = BAKER /\ ctx # Wiped
Parked      == InBakerFlow /\ ctx.state = "AWAITING_CONFIRM"
ReviewUp    == screen.cb \in {"sign", "continue"}

LaterStages == {"URL_LENGTH", "URL", "COMMISSION_RATES", "SUSPENDED", "END"}

\* A parked flow has on screen all it has hashed and not had accepted.
ParkedIsOnScreen ==
    Parked => /\ ReviewUp
              /\ MustShow \subseteq approved \cup screen.items
              /\ ~ctx.firstDisplay
              /\ ctx.pendingState \in LaterStages

\* A Continue button left over from an abandoned flow leads a new one nowhere.
StaleContinueIsInert ==
    InBakerFlow /\ ~Parked /\ (screen.cb = "continue" \/ ctx.state = "INITIAL")
        => ctx.pendingState = "zero"

\* The inductive invariant behind OpenStageWasReviewed: parked stages are on
\* screen, and only the Continue button of that very screen resumes them.
ReviewInv == OpenStageWasReviewed /\ ParkedIsOnScreen /\ StaleContinueIsInert

\* A command is left unanswered exactly while a review that will answer it
\* is on screen: the host is never left waiting on nothing.
ReplyOwedIffReviewUp == reply = Owed <=> ReviewUp

\* The inductive invariant behind SignedWasReviewed when the SDK holds commands
\* back while an answer is owed: the review on screen is then always the one
\* the flow is parked behind.
AnswerInv == ReplyOwedIffReviewUp /\ (ReviewUp => Parked) /\ SignedWasReviewed

\* A host that sends well-formed packets of a non-empty transaction, starting
\* over when it is refused, and a user who accepts.
HonestStep ==
    /\ BakerPacket \/ SwitchGuard(BAKER) \/ confirmConfigureBakerStage
           \/ buildAndSignTransactionHash
    /\ Open \/ IsInitialCall => reply' # Refused
    /\ ctx' # Wiped => ctx'.has # {}

\* Whatever came before (refusals, aborted flows, a latch left claimed), such a
\* host and user, if they do not give up and nobody else interferes any more,
\* end up with a signature: nothing wedges the flow.
HonestHostGetsSignature ==
    WF_deviceVars(HonestStep) /\ <>[][HonestStep]_deviceVars => []<>HasSignature

\* The flow implements the contract every signing instruction owes its user.
Contract == INSTANCE SigningContract
                WITH collected <- hash, answer <- reply, Visible <- NeedsReview

\* Read as what it has hashed, what was accepted and what it answered, the
\* flow only takes steps the contract allows: in particular nothing is hashed
\* between the drawing of a review and its answer.
ImplementsContract == Contract!ContractSpec
=============================================================================
