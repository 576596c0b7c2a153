------------------------- MODULE ScheduledTransfer --------------------------
(***************************************************************************)
(* INS_SIGN_TRANSFER_WITH_SCHEDULE and ..._AND_MEMO.  After a review of    *)
(* sender and recipient (and memo) the releases arrive, up to fifteen to a *)
(* packet; they are buffered, and hashed and reviewed one at a time, the   *)
(* user's Continue pulling the next one out of the buffer.                 *)
(***************************************************************************)
EXTENDS Device, CborBlob, FiniteSets

CONSTANTS
    CountMax,    \* most releases a transfer announces (255)
    PacketMax    \* releases in a full packet (15)

ASSUME ScheduleAssumption == CountMax \in Nat /\ PacketMax \in Nat \ {0}

PLAIN == "SIGN_TRANSFER_WITH_SCHEDULE"
MEMO  == "SIGN_TRANSFER_WITH_SCHEDULE_AND_MEMO"

ScheduleStates == {"zero", "INITIAL", "AWAITING_INITIAL_CONFIRM", "TRANSFER_PAIRS",
                   "MEMO_START", "MEMO"}

\* signTransferWithScheduleContext_t and the cborContext_t beside it.  buffer
\* holds the releases from pos on, inPacket of which belong to the transfer.
ScheduleZero == [view |-> "schedule", state |-> "zero", to |-> "none", remaining |-> 0,
                 inPacket |-> 0, buffer |-> << >>, cbor |-> CborZero]

ScheduleUnion == IF Union = Wiped THEN ScheduleZero ELSE Union
ScheduleView ==
    IF IsInitialCall THEN [ScheduleUnion EXCEPT !.state = "INITIAL"] ELSE ScheduleUnion

-----------------------------------------------------------------------------
(* Screens. *)

startInitialScheduledTransferDisplay_NoMemo(c, sender, displayMemo) ==
    [cb |-> "initial", items |-> HeaderPairs(sender) \cup {<<"to", c.to>>}]
startInitialScheduledTransferDisplay(c, sender, displayMemo) ==
    [cb |-> "initial",
     items |-> HeaderPairs(sender) \cup {<<"to", c.to>>}
                   \cup IF displayMemo THEN CborRows(c.cbor) ELSE {}]

uiSignScheduledTransferPairFlowDisplay(release) == [cb |-> "next", items |-> release]
uiSignScheduledTransferPairFlowSignDisplay(release) == [cb |-> "sign", items |-> release]

-----------------------------------------------------------------------------
(* Packets. *)

\* P1_INITIAL_PACKET
ScheduleInitial ==
    \E h \in Headers, p \in Paths, r \in Vals, n \in 0 .. CountMax :
        LET c     == ScheduleView
            d     == [c EXCEPT !.to = r, !.remaining = n, !.state = "AWAITING_INITIAL_CONFIRM"]
            items == <<<<"kind", PLAIN>>, <<"to", r>>, <<"count", n>>>>
        IN  /\ Enters(PLAIN)
            /\ c.state = "INITIAL"
            /\ \/ /\ hashAccountTransactionHeaderAndKind(h, p, items)
                  /\ Review(PLAIN, d, startInitialScheduledTransferDisplay(
                                          d, AccountSender(h, p), FALSE))
               \/ HeaderThrows(h, p, SubSeq(items, 1, 2))

\* P1_INITIAL_WITH_MEMO: the count is read now and hashed after the memo.
ScheduleInitialWithMemo ==
    \E h \in Headers, p \in Paths, r \in Vals, n \in 0 .. CountMax, m \in 0 .. CborMax + 1 :
        LET c     == ScheduleView
            items == <<<<"kind", MEMO>>, <<"to", r>>, <<"cborLength", m>>>>
        IN  /\ Enters(MEMO)
            /\ c.state = "INITIAL"
            /\ \/ /\ CborLengthFits(m)
                  /\ hashAccountTransactionHeaderAndKind(h, p, items)
                  /\ Ack(MEMO, [c EXCEPT !.to = r, !.remaining = n, !.cbor.length = m,
                                         !.state = "MEMO_START"])
               \/ HeaderThrows(h, p, SubSeq(items, 1, 2))

\* finish_memo_scheduled: the flow is open for releases before the review.
finish_memo_scheduled(d) ==
    Review(MEMO, [d EXCEPT !.state = "TRANSFER_PAIRS"],
           startInitialScheduledTransferDisplay(d, account, TRUE))

\* P1_MEMO
ScheduleMemo ==
    \E v \in Vals, n \in 1 .. CborChunkMax :
        LET c     == ScheduleView
            first == c.state = "MEMO_START"
            read  == IF first THEN readCborInitial(c.cbor, v, n) ELSE readCborContent(c.cbor, v, n)
            fits  == IF first THEN ChunkFits(c.cbor, n) ELSE ContentFits(c.cbor, n)
            d     == [c EXCEPT !.cbor = read, !.state = "MEMO"]
            chunk == <<CborItem(v, n)>>
        IN  /\ Enters(MEMO)
            /\ c.state \in {"MEMO_START", "MEMO"}
            /\ UNCHANGED txConst
            /\ \/ ~fits /\ Feed(chunk) /\ Throw
               \/ fits /\ read.length = 0 /\ Feed(chunk) /\ send_rejection([c EXCEPT !.cbor = read])
               \/ fits /\ read.length > 0 /\ Feed(chunk) /\ Ack(MEMO, d)
               \/ /\ fits /\ read.length = 0
                  /\ Feed(chunk \o <<<<"count", c.remaining>>>>)
                  /\ finish_memo_scheduled(d)

\* The ordinal tells releases of equal time and amount apart.
AmountsIn(s) == {i \in DOMAIN s : s[i][1] = "amount"}
NextOrdinal == 1 + Cardinality(AmountsIn(hash))

\* Hash and show the next release of the buffer, or ask for more; the time may
\* be one that cannot be shown.  ins and thrown are those of the caller.
LastRelease_IgnoresRemaining(c, d) == d.inPacket = 0
LastRelease_BeforeCount(c, d) == c.remaining = 0 /\ c.inPacket = 0
LastRelease(c, d) == c.remaining = 0 /\ d.inPacket = 0

processNextScheduledAmount(ins, c, thrown) ==
    \/ /\ c.inPacket = 0
       /\ Ack(ins, c)
       /\ UNCHANGED hash
    \/ /\ c.inPacket > 0
       /\ LET v       == Head(c.buffer)
              d       == [c EXCEPT !.inPacket = @ - 1, !.buffer = Tail(@)]
              time    == <<"time", NextOrdinal, v>>
              amount  == <<"amount", NextOrdinal, v>>
          IN  \/ Feed(<<time>>) /\ thrown
              \/ /\ Feed(<<time, amount>>)
                 /\ Review(ins, d, IF LastRelease(c, d)
                                   THEN uiSignScheduledTransferPairFlowSignDisplay({time, amount})
                                   ELSE uiSignScheduledTransferPairFlowDisplay({time, amount}))

\* How many releases the next packet holds.
PairsInPacket(c) == IF c.remaining <= PacketMax THEN c.remaining ELSE PacketMax

\* P1_SCHEDULED_TRANSFER_PAIRS: releases beyond those announced are ignored.
handle_transfer_pairs(ins) ==
    \E pairs \in UNION {[1 .. n -> Vals] : n \in 0 .. PacketMax} :
        LET c == ScheduleView
            n == PairsInPacket(c)
        IN  /\ Enters(ins)
            /\ c.state = "TRANSFER_PAIRS"
            /\ UNCHANGED txConst
            /\ \/ Len(pairs) < n /\ Throw /\ UNCHANGED hash
               \/ /\ Len(pairs) = n
                  /\ processNextScheduledAmount(
                         ins, [c EXCEPT !.inPacket = n, !.remaining = @ - n, !.buffer = pairs],
                         Throw)

ScheduleWrongState ==
    /\ \E ins \in {PLAIN, MEMO} : Enters(ins)
    /\ Throw
    /\ UNCHANGED noFlow

SchedulePacket ==
    \/ ScheduleInitial \/ ScheduleInitialWithMemo \/ ScheduleMemo
    \/ \E ins \in {PLAIN, MEMO} : handle_transfer_pairs(ins)
    \/ ScheduleWrongState

-----------------------------------------------------------------------------
(* Buttons. *)

Accepted == approved' = approved \cup screen.items

ContextOnScreen == IF ctx = Wiped THEN ScheduleZero ELSE ctx

\* Continue on the first screen.
confirmInitialScheduledTransfer ==
    /\ screen.cb = "initial"
    /\ ctx' = [ContextOnScreen EXCEPT !.state = "TRANSFER_PAIRS"]
    /\ reply' = Success(<< >>)
    /\ screen' = [cb |-> "stale", items |-> {}]
    /\ Accepted
    /\ UNCHANGED <<latch, keyPending, hash, path, account>>

\* Continue on a release: the screen is left up when there is none to follow.
processNextScheduledAmountContinue ==
    /\ screen.cb = "next"
    /\ Accepted
    /\ UNCHANGED <<path, account>>
    /\ IF ContextOnScreen.inPacket = 0
       THEN /\ reply' = Success(<< >>)
            /\ screen' = [cb |-> "stale", items |-> {}]
            /\ UNCHANGED <<latch, ctx, keyPending, hash>>
       ELSE processNextScheduledAmount(latch, ContextOnScreen, CallbackThrow)

\* NBGL lets every one of these screens be declined, BAGL the last one.
DeclineSchedule ==
    /\ screen.cb \in IF Bagl THEN {"sign"} ELSE {"initial", "next", "sign"}
    /\ UserDeclines

ScheduleButton ==
    \/ confirmInitialScheduledTransfer \/ processNextScheduledAmountContinue
    \/ buildAndSignTransactionHash \/ SigningFails \/ DeclineSchedule

ScheduleNext ==
    \/ SchedulePacket
    \/ ScheduleButton
    \/ Shell({PLAIN, MEMO})
    \/ Restart

ScheduleSpec == DeviceInit /\ [][ScheduleNext]_deviceVars

-----------------------------------------------------------------------------
(* Properties. *)

ScheduleItem ==
    UNION {{"header"} \X Headers, {"kind"} \X {PLAIN, MEMO}, {"to"} \X Vals,
           {"count"} \X (0 .. CountMax), {"cborLength"} \X (0 .. CborMax),
           {"cbor"} \X Vals \X (1 .. CborChunkMax),
           {"time", "amount"} \X (1 .. CountMax) \X Vals}

ScheduleContext ==
    [view : {"schedule"}, state : ScheduleStates, to : Vals \cup {"none"},
     remaining : 0 .. CountMax, inPacket : 0 .. PacketMax, buffer : Seq(Vals),
     cbor : [length : 0 .. CborMax, buf : Seq(Vals \X (1 .. CborChunkMax))]]

\* Every variable keeps its type; the counters of releases stay in range and
\* the buffer always holds the releases that are still to be taken from it.
ScheduleTypeOK ==
    /\ latch \in {NONE, PLAIN, MEMO, "GET_APP_NAME"}
    /\ ctx \in ScheduleContext \cup {Wiped}
    /\ ctx # Wiped => Len(ctx.buffer) = ctx.inPacket /\ BufLen(ctx.cbor.buf) <= CborMax
    /\ hash \in Seq(ScheduleItem)
    /\ path \in Paths \cup {NoPath}
    /\ account \in [header : Headers \cup {"none"}, network : Networks]
    /\ screen.cb \in {"home", "stale", "initial", "next", "sign"}
    /\ keyPending = FALSE

HeadRows(s) == {item \in ItemsOf(s) : item[1] \in {"header", "to"}}

\* What has a row: not the kind, nor the counts, which the rows imply.
ScheduleRows(s) ==
    HeadRows(s) \cup {item \in ItemsOf(s) : item[1] \in {"time", "amount"}}
        \cup IF \E i \in DOMAIN s : IsCbor(s[i]) THEN {<<"blob", BlobOf(s)>>} ELSE {}

\* What you see is what you sign: sender, energy, recipient, memo and every
\* single release of the signed transfer were on screens that were accepted.
ScheduleSignedWasReviewed ==
    HasSignature => /\ ScheduleRows(SignedItems) \subseteq approved
                    /\ <<"network", NetworkOf(SigningPath)>> \in approved

\* The serialization of a scheduled transfer: exactly as many releases as were
\* announced, in order, each with its time and its amount.
IsReleases(s, n) ==
    /\ n > 0 /\ Len(s) = 2 * n
    /\ \A k \in 1 .. n : /\ s[2 * k - 1] = <<"time", k, s[2 * k][3]>>
                         /\ s[2 * k][1] = "amount"

IsSchedule(s) ==
    /\ Len(s) > 4 /\ s[1][1] = "header" /\ s[3][1] = "to"
    /\ \/ /\ s[2] = <<"kind", PLAIN>> /\ s[4][1] = "count"
          /\ IsReleases(SubSeq(s, 5, Len(s)), s[4][2])
       \/ LET k == 5 + Len(BlobOf(s))
          IN  /\ s[2] = <<"kind", MEMO>> /\ s[4][1] = "cborLength"
              /\ s[4][2] = BufLen(BlobOf(s)) /\ s[4][2] > 0
              /\ \A i \in 5 .. k - 1 : IsCbor(s[i])
              /\ Len(s) > k /\ s[k][1] = "count"
              /\ IsReleases(SubSeq(s, k + 1, Len(s)), s[k][2])

\* A signature is only ever made over a whole scheduled transfer: no release
\* is dropped, repeated or left for later, at any split into packets.
ScheduleSignedIsComplete == HasSignature => IsSchedule(SignedItems)

\* A command is left unanswered exactly while a review that answers it is up.
ScheduleReplyOwedIffReviewUp == reply = Owed <=> screen.cb \in {"initial", "next", "sign"}

\* A host that sends well-formed packets of a transfer with releases in it,
\* starting over when it is refused, and a user who accepts.
MidSchedule ==
    /\ latch \in {PLAIN, MEMO} /\ ctx # Wiped
    /\ \/ ctx.state = "MEMO"
       \/ ctx.state = "MEMO_START" /\ ctx.cbor.length > 0
       \/ ctx.state = "TRANSFER_PAIRS" /\ ctx.remaining > 0

ScheduleHonestStep ==
    /\ \/ SchedulePacket \/ confirmInitialScheduledTransfer
       \/ processNextScheduledAmountContinue \/ buildAndSignTransactionHash
       \/ SwitchGuard(PLAIN)
    /\ screen.cb = "next" => reply' # Refused
    /\ MidSchedule \/ IsInitialCall => reply' # Refused
    /\ ctx' # Wiped /\ ctx'.state \in {"AWAITING_INITIAL_CONFIRM", "MEMO_START"} =>
           ctx'.remaining > 0 /\ (ctx'.state = "MEMO_START" => ctx'.cbor.length > 0)
    /\ ~MidSchedule /\ ~IsInitialCall /\ reply # Owed => reply' = Refused

\* Whatever came before, a host and user who do not give up end up with a
\* signature, over any number of packets and releases.
ScheduleHostGetsSignature ==
    WF_deviceVars(ScheduleHonestStep) /\ <>[][ScheduleHonestStep]_deviceVars => []<>HasSignature

ScheduleContract == INSTANCE SigningContract
                        WITH collected <- hash, answer <- reply, Visible <- ScheduleRows

\* The flow implements the contract of a signing instruction: here Continue
\* moves the transcript on, by the next release of the packet that is buffered.
ScheduleImplementsContract == ScheduleContract!ContractSpec
=============================================================================
