---------------------------- MODULE ScheduleProofs ----------------------------
(***************************************************************************)
(* Proofs about ScheduledTransfer, for every set of headers, paths and     *)
(* values, every number of releases, every size of packet and of memo, on  *)
(* either screen technology, with the SDK holding commands back while an   *)
(* answer is owed.                                                         *)
(***************************************************************************)
EXTENDS ScheduledTransfer, FiniteSetTheorems, FlowLemmas

-----------------------------------------------------------------------------
(* The inductive invariant. *)

AnswerInv ==
    /\ screen.cb \in {"home", "stale", "initial", "next", "sign"}
    /\ keyPending = FALSE
    /\ ScheduleReplyOwedIffReviewUp
    /\ reply = Owed \/ reply.sw # "owed"

\* The union holds as many releases as it says, and a memo that fits.
Loaded == {c \in ScheduleContext : Len(c.buffer) = c.inPacket /\ BufLen(c.cbor.buf) <= CborMax}

AccountTexts == [header : Headers \cup {"none"}, network : Networks]

FlowTypes ==
    /\ latch \in {NONE, PLAIN, MEMO, "GET_APP_NAME"}
    /\ ctx \in Loaded \cup {Wiped}
    /\ hash \in Seq(ScheduleItem)
    /\ path \in Paths \cup {NoPath}
    /\ account \in AccountTexts

ReviewUp == screen.cb \in {"initial", "next", "sign"}

\* While a memo is received, the transcript is the one that the union and the
\* account texts describe, and nothing of it was accepted yet.
InMemo == latch = MEMO /\ ctx # Wiped /\ ctx.state \in {"MEMO_START", "MEMO"}

Received(c) == IF c.state = "MEMO_START" THEN << >> ELSE c.cbor.buf

MemoInFlight ==
    InMemo =>
        /\ Len(hash) = 4 + Len(Received(ctx))
        /\ hash[1] = <<"header", account.header>>
        /\ hash[2] = <<"kind", MEMO>>
        /\ hash[3] = <<"to", ctx.to>>
        /\ hash[4] = <<"cborLength", ctx.cbor.length + BufLen(Received(ctx))>>
        /\ \A i \in 5 .. Len(hash) : IsCbor(hash[i])
        /\ BlobOf(hash) = Received(ctx)
        /\ account.network = NetworkOf(path)
        /\ ctx.inPacket = 0
        /\ approved = {}

\* Once the number of releases is hashed, the transcript is a head that ends
\* with that number, followed by the releases taken so far.
InReleases ==
    /\ latch \in {PLAIN, MEMO} /\ ctx # Wiped
    /\ ctx.state \in {"AWAITING_INITIAL_CONFIRM", "TRANSFER_PAIRS"}

\* Where the head ends.
Base(ins, c) == IF ins = PLAIN THEN 4 ELSE 5 + Len(c.cbor.buf)

HeadIn(s, b, ins, c) ==
    /\ b \in Nat /\ 4 <= b /\ b <= Len(s)
    /\ s[1][1] = "header" /\ s[2] = <<"kind", ins>> /\ s[3][1] = "to" /\ s[b][1] = "count"
    /\ ins = MEMO => /\ s[4] = <<"cborLength", BufLen(c.cbor.buf)>>
                     /\ BufLen(c.cbor.buf) > 0
                     /\ \A i \in 5 .. b - 1 : IsCbor(s[i])

ReleasesIn(s, b, n) ==
    /\ n \in Nat /\ Len(s) = b + 2 * n
    /\ \A k \in 1 .. n : \E v \in Vals :
           s[b + 2 * k - 1] = <<"time", k, v>> /\ s[b + 2 * k] = <<"amount", k, v>>

Taken == Cardinality(AmountsIn(hash))

\* The releases taken, those in the buffer and those not yet sent add up to
\* the number that was hashed.
Accounted(ins, c) ==
    /\ HeadIn(hash, Base(ins, c), ins, c)
    /\ ReleasesIn(hash, Base(ins, c), Taken)
    /\ Taken + c.inPacket + c.remaining = hash[Base(ins, c)][2]
    /\ BlobOf(hash) = IF ins = MEMO THEN c.cbor.buf ELSE << >>

ReleasesInv ==
    InReleases =>
        /\ Accounted(latch, ctx)
        /\ ctx.inPacket > 0 => screen.cb = "next"

\* A review on screen is one of the open flow, and shows what of the transcript
\* was not accepted before.
OnScreen ==
    /\ ReviewUp => InReleases
    /\ ~ReviewUp => screen.items = {}
    /\ InReleases => /\ ScheduleRows(hash) \subseteq approved \cup screen.items
                     /\ <<"network", NetworkOf(path)>> \in approved \cup screen.items
    /\ screen.cb = "sign" => ctx.remaining = 0 /\ ctx.inPacket = 0 /\ Taken > 0

\* No release that is still to be accepted was accepted before.
Shown == IF screen.cb \in {"next", "sign"} THEN Taken - 1 ELSE Taken

AmountsUpTo(S, n) == \A k \in Nat, v \in Vals : <<"amount", k, v>> \in S => k <= n

FreshReleases ==
    InReleases =>
        /\ AmountsUpTo(approved, Shown)
        /\ AmountsUpTo(screen.items, Taken)
        /\ screen.cb \in {"next", "sign"} => \E v \in Vals : <<"amount", Taken, v>> \in screen.items

NeverInitial == ctx # Wiped => ctx.state # "INITIAL"

FlowInv == MemoInFlight /\ ReleasesInv /\ OnScreen /\ FreshReleases

-----------------------------------------------------------------------------
(* Items and contexts. *)

LEMMA ScheduleItems ==
    /\ \A h \in Headers : <<"header", h>> \in ScheduleItem
    /\ \A k \in {PLAIN, MEMO} : <<"kind", k>> \in ScheduleItem
    /\ \A v \in Vals : <<"to", v>> \in ScheduleItem
    /\ \A n \in 0 .. CountMax : <<"count", n>> \in ScheduleItem
    /\ \A n \in 0 .. CborMax : <<"cborLength", n>> \in ScheduleItem
    /\ \A v \in Vals, n \in 1 .. CborChunkMax : CborItem(v, n) \in ScheduleItem
    /\ \A k \in 1 .. CountMax, v \in Vals :
          <<"time", k, v>> \in ScheduleItem /\ <<"amount", k, v>> \in ScheduleItem
<1>1. ASSUME NEW h \in Headers PROVE <<"header", h>> \in ScheduleItem
  <2>1. <<"header", h>> \in {"header"} \X Headers
    OBVIOUS
  <2> QED
    BY <2>1, Zenon DEF ScheduleItem
<1>2. ASSUME NEW k \in {PLAIN, MEMO} PROVE <<"kind", k>> \in ScheduleItem
  <2>1. <<"kind", k>> \in {"kind"} \X {PLAIN, MEMO}
    OBVIOUS
  <2> QED
    BY <2>1, Zenon DEF ScheduleItem
<1>3. ASSUME NEW v \in Vals PROVE <<"to", v>> \in ScheduleItem
  <2>1. <<"to", v>> \in {"to"} \X Vals
    OBVIOUS
  <2> QED
    BY <2>1, Zenon DEF ScheduleItem
<1>4. ASSUME NEW n \in 0 .. CountMax PROVE <<"count", n>> \in ScheduleItem
  <2>1. <<"count", n>> \in {"count"} \X (0 .. CountMax)
    OBVIOUS
  <2> QED
    BY <2>1, Zenon DEF ScheduleItem
<1>5. ASSUME NEW n \in 0 .. CborMax PROVE <<"cborLength", n>> \in ScheduleItem
  <2>1. <<"cborLength", n>> \in {"cborLength"} \X (0 .. CborMax)
    OBVIOUS
  <2> QED
    BY <2>1, Zenon DEF ScheduleItem
<1>6. ASSUME NEW v \in Vals, NEW n \in 1 .. CborChunkMax PROVE CborItem(v, n) \in ScheduleItem
  <2>1. CborItem(v, n) \in {"cbor"} \X Vals \X (1 .. CborChunkMax)
    BY DEF CborItem
  <2> QED
    BY <2>1, Zenon DEF ScheduleItem
<1>7. ASSUME NEW k \in 1 .. CountMax, NEW v \in Vals
      PROVE  <<"time", k, v>> \in ScheduleItem /\ <<"amount", k, v>> \in ScheduleItem
  <2>1. /\ <<"time", k, v>> \in {"time", "amount"} \X (1 .. CountMax) \X Vals
        /\ <<"amount", k, v>> \in {"time", "amount"} \X (1 .. CountMax) \X Vals
    OBVIOUS
  <2> QED
    BY <2>1, Zenon DEF ScheduleItem
<1> QED
  BY <1>1, <1>2, <1>3, <1>4, <1>5, <1>6, <1>7

LEMMA CountIsBounded ==
    ASSUME NEW x \in ScheduleItem, x[1] = "count"
    PROVE  x[2] \in 0 .. CountMax
  BY DEF ScheduleItem

LEMMA LoadedFields ==
    ASSUME NEW c \in Loaded
    PROVE  /\ c \in ScheduleContext /\ c # Wiped
           /\ Len(c.buffer) = c.inPacket /\ BufLen(c.cbor.buf) <= CborMax
           /\ c.state \in ScheduleStates /\ c.to \in Vals \cup {"none"}
           /\ c.remaining \in 0 .. CountMax /\ c.inPacket \in 0 .. PacketMax
           /\ c.buffer \in Seq(Vals)
           /\ c.cbor \in [length : 0 .. CborMax, buf : Seq(Vals \X (1 .. CborChunkMax))]
  BY DEF Loaded, ScheduleContext, Wiped

LEMMA ZeroLoaded == ScheduleZero \in Loaded
<1>1. CborZero \in [length : 0 .. CborMax, buf : Seq(Vals \X (1 .. CborChunkMax))]
  BY CborAssumption DEF CborZero
<1>2. << >> \in Seq(Vals) /\ Len(<< >>) = 0
  OBVIOUS
<1>3. ScheduleZero \in ScheduleContext
  BY <1>1, <1>2, ScheduleAssumption DEF ScheduleZero, ScheduleContext, ScheduleStates
<1>4. BufLen(ScheduleZero.cbor.buf) <= CborMax
  BY BufLenEmpty, CborAssumption DEF ScheduleZero, CborZero
<1>5. Len(ScheduleZero.buffer) = ScheduleZero.inPacket
  BY <1>2 DEF ScheduleZero
<1> QED
  BY <1>3, <1>4, <1>5 DEF Loaded

\* A context whose buffer and memo are left alone.
LEMMA StillLoaded ==
    ASSUME NEW c \in Loaded, NEW d \in ScheduleContext,
           d.buffer = c.buffer, d.inPacket = c.inPacket, d.cbor.buf = c.cbor.buf
    PROVE  d \in Loaded
  BY LoadedFields DEF Loaded

LEMMA ViewKnown ==
    ASSUME ctx \in Loaded \cup {Wiped}
    PROVE  ScheduleUnion \in Loaded /\ ScheduleView \in Loaded
<1>1. ScheduleUnion \in Loaded
  BY ZeroLoaded DEF ScheduleUnion, Union, Wiped
<1> DEFINE c == ScheduleUnion
           d == [c EXCEPT !.state = "INITIAL"]
<1>2. c \in Loaded /\ c \in ScheduleContext
  BY <1>1, LoadedFields
<1> HIDE DEF c
<1>3. d \in ScheduleContext /\ d.buffer = c.buffer /\ d.inPacket = c.inPacket /\ d.cbor.buf = c.cbor.buf
  BY <1>2 DEF ScheduleContext, ScheduleStates
<1>4. d \in Loaded
  BY <1>2, <1>3, StillLoaded
<1> QED
  BY <1>1, <1>4 DEF ScheduleView, c

\* Only a free latch opens a flow: it finds the zeroed union.
LEMMA FreshView ==
    ASSUME ctx \in Loaded \cup {Wiped}, NeverInitial, ScheduleView.state = "INITIAL"
    PROVE  latch = NONE /\ ScheduleView = [ScheduleZero EXCEPT !.state = "INITIAL"]
<1>1. latch = NONE
  <2> SUFFICES ASSUME latch # NONE PROVE FALSE
    OBVIOUS
  <2>1. ScheduleView = IF ctx = Wiped THEN ScheduleZero ELSE ctx
    BY DEF ScheduleView, ScheduleUnion, Union, IsInitialCall
  <2> QED
    BY <2>1 DEF NeverInitial, ScheduleZero
<1> QED
  BY <1>1 DEF ScheduleView, ScheduleUnion, Union, IsInitialCall

\* Any later packet finds the union that its flow left.
LEMMA OpenView ==
    ASSUME Gated, ctx \in Loaded \cup {Wiped}, NEW ins, Enters(ins),
           ScheduleView.state \notin {"zero", "INITIAL"}
    PROVE  /\ latch = ins /\ latch # NONE /\ reply # Owed
           /\ ctx # Wiped /\ ScheduleView = ctx /\ ctx \in Loaded
<1>1. latch # NONE
  <2> SUFFICES ASSUME latch = NONE PROVE FALSE
    OBVIOUS
  <2>1. ScheduleView = [ScheduleZero EXCEPT !.state = "INITIAL"]
    BY DEF ScheduleView, ScheduleUnion, Union, IsInitialCall
  <2> QED
    BY <2>1 DEF ScheduleZero
<1>2. ScheduleView = IF ctx = Wiped THEN ScheduleZero ELSE ctx
  BY <1>1 DEF ScheduleView, ScheduleUnion, Union, IsInitialCall
<1>3. ctx # Wiped /\ ScheduleView = ctx
  BY <1>2 DEF ScheduleZero
<1> QED
  BY <1>1, <1>3 DEF Enters, Delivered

-----------------------------------------------------------------------------
(* What each operation does, in terms of the context it finds. *)

PlainFields(r, n)  == <<<<"kind", PLAIN>>, <<"to", r>>, <<"count", n>>>>
MemoFieldsOf(r, m) == <<<<"kind", MEMO>>, <<"to", r>>, <<"cborLength", m>>>>

LEMMA FieldsKnown ==
    /\ \A r \in Vals, n \in 0 .. CountMax : PlainFields(r, n) \in Seq(ScheduleItem)
    /\ \A r \in Vals, m \in 0 .. CborMax : MemoFieldsOf(r, m) \in Seq(ScheduleItem)
    /\ \A r \in Vals : \A n : SubSeq(PlainFields(r, n), 1, 2) \in Seq(ScheduleItem)
    /\ \A r \in Vals : \A m : SubSeq(MemoFieldsOf(r, m), 1, 2) \in Seq(ScheduleItem)
<1>1. ASSUME NEW r \in Vals
      PROVE  /\ <<"kind", PLAIN>> \in ScheduleItem /\ <<"kind", MEMO>> \in ScheduleItem
             /\ <<"to", r>> \in ScheduleItem
  BY ScheduleItems
<1>2. ASSUME NEW r \in Vals, NEW n \in 0 .. CountMax PROVE PlainFields(r, n) \in Seq(ScheduleItem)
  BY <1>1, Triple, ScheduleItems DEF PlainFields
<1>3. ASSUME NEW r \in Vals, NEW m \in 0 .. CborMax PROVE MemoFieldsOf(r, m) \in Seq(ScheduleItem)
  BY <1>1, Triple, ScheduleItems DEF MemoFieldsOf
<1>4. ASSUME NEW r \in Vals, NEW n PROVE SubSeq(PlainFields(r, n), 1, 2) \in Seq(ScheduleItem)
  BY <1>1, FirstTwo DEF PlainFields
<1>5. ASSUME NEW r \in Vals, NEW m PROVE SubSeq(MemoFieldsOf(r, m), 1, 2) \in Seq(ScheduleItem)
  BY <1>1, FirstTwo DEF MemoFieldsOf
<1> QED
  BY <1>2, <1>3, <1>4, <1>5

Opened(r, n) ==
    [ScheduleZero EXCEPT !.to = r, !.remaining = n, !.state = "AWAITING_INITIAL_CONFIRM"]

Opens(h, p, r, n) ==
    /\ hashAccountTransactionHeaderAndKind(h, p, PlainFields(r, n))
    /\ Review(PLAIN, Opened(r, n),
              startInitialScheduledTransferDisplay(Opened(r, n), AccountSender(h, p), FALSE))

LEMMA InitialParts ==
    ASSUME Gated, ctx \in Loaded \cup {Wiped}, NeverInitial, ScheduleInitial
    PROVE  /\ reply # Owed
           /\ \E h \in Headers, p \in Paths, r \in Vals, n \in 0 .. CountMax :
                 Opens(h, p, r, n) \/ HeaderThrows(h, p, SubSeq(PlainFields(r, n), 1, 2))
<1>1. Enters(PLAIN) /\ ScheduleView.state = "INITIAL"
  BY Zenon DEF ScheduleInitial
<1>2. ScheduleView = [ScheduleZero EXCEPT !.state = "INITIAL"]
  BY <1>1, FreshView
<1>3. ASSUME NEW r, NEW n
      PROVE  [ScheduleView EXCEPT !.to = r, !.remaining = n, !.state = "AWAITING_INITIAL_CONFIRM"]
               = Opened(r, n)
  BY <1>2 DEF Opened, ScheduleZero
<1>4. PICK h \in Headers, p \in Paths, r \in Vals, n \in 0 .. CountMax :
         \/ /\ hashAccountTransactionHeaderAndKind(h, p, PlainFields(r, n))
            /\ Review(PLAIN,
                   [ScheduleView EXCEPT !.to = r, !.remaining = n, !.state = "AWAITING_INITIAL_CONFIRM"],
                   startInitialScheduledTransferDisplay(
                       [ScheduleView EXCEPT !.to = r, !.remaining = n,
                                            !.state = "AWAITING_INITIAL_CONFIRM"],
                       AccountSender(h, p), FALSE))
         \/ HeaderThrows(h, p, SubSeq(PlainFields(r, n), 1, 2))
  BY Zenon DEF ScheduleInitial, PlainFields
<1>5. Opens(h, p, r, n) \/ HeaderThrows(h, p, SubSeq(PlainFields(r, n), 1, 2))
  BY <1>3, <1>4, Zenon DEF Opens
<1> QED
  BY <1>1, <1>5 DEF Enters, Delivered

Announced(r, n, m) ==
    [ScheduleZero EXCEPT !.to = r, !.remaining = n, !.cbor.length = m, !.state = "MEMO_START"]

Announces(h, p, r, n, m) ==
    /\ hashAccountTransactionHeaderAndKind(h, p, MemoFieldsOf(r, m))
    /\ Ack(MEMO, Announced(r, n, m))

LEMMA WithMemoParts ==
    ASSUME Gated, ctx \in Loaded \cup {Wiped}, NeverInitial, ScheduleInitialWithMemo
    PROVE  /\ reply # Owed
           /\ \E h \in Headers, p \in Paths, r \in Vals, n \in 0 .. CountMax, m \in Nat :
                 \/ m \in 0 .. CborMax /\ Announces(h, p, r, n, m)
                 \/ HeaderThrows(h, p, SubSeq(MemoFieldsOf(r, m), 1, 2))
<1>1. Enters(MEMO) /\ ScheduleView.state = "INITIAL"
  BY Zenon DEF ScheduleInitialWithMemo
<1>2. ScheduleView = [ScheduleZero EXCEPT !.state = "INITIAL"]
  BY <1>1, FreshView
<1>3. ASSUME NEW r, NEW n, NEW m
      PROVE  [ScheduleView EXCEPT !.to = r, !.remaining = n, !.cbor.length = m, !.state = "MEMO_START"]
               = Announced(r, n, m)
  BY <1>2 DEF Announced, ScheduleZero
<1>4. PICK h \in Headers, p \in Paths, r \in Vals, n \in 0 .. CountMax, m \in 0 .. CborMax + 1 :
         \/ /\ CborLengthFits(m)
            /\ hashAccountTransactionHeaderAndKind(h, p, MemoFieldsOf(r, m))
            /\ Ack(MEMO, [ScheduleView EXCEPT !.to = r, !.remaining = n, !.cbor.length = m,
                                              !.state = "MEMO_START"])
         \/ HeaderThrows(h, p, SubSeq(MemoFieldsOf(r, m), 1, 2))
  BY Zenon DEF ScheduleInitialWithMemo, MemoFieldsOf
<1>5. m \in Nat /\ (CborLengthFits(m) => m \in 0 .. CborMax)
  BY CborAssumption DEF CborLengthFits
<1>6. \/ m \in 0 .. CborMax /\ Announces(h, p, r, n, m)
      \/ HeaderThrows(h, p, SubSeq(MemoFieldsOf(r, m), 1, 2))
  BY <1>3, <1>4, <1>5, Zenon DEF Announces
<1> QED
  BY <1>1, <1>5, <1>6, Zenon DEF Enters, Delivered

Read(c, v, n)  == ReadChunk(c.state = "MEMO_START", c.cbor, v, n)
Fits(c, n)     == FitsChunk(c.state = "MEMO_START", c.cbor, n)
After(c, v, n) == [c EXCEPT !.cbor = Read(c, v, n), !.state = "MEMO"]

GrowsMemo(v, n) ==
    /\ Fits(ctx, n) /\ Read(ctx, v, n).length > 0
    /\ Feed(<<CborItem(v, n)>>)
    /\ Ack(MEMO, After(ctx, v, n))

EndsMemo(v, n) ==
    /\ Fits(ctx, n) /\ Read(ctx, v, n).length = 0
    /\ Feed(<<CborItem(v, n)>> \o <<<<"count", ctx.remaining>>>>)
    /\ Review(MEMO, [After(ctx, v, n) EXCEPT !.state = "TRANSFER_PAIRS"],
              startInitialScheduledTransferDisplay(After(ctx, v, n), account, TRUE))

SpoilsMemo(v, n) ==
    /\ Feed(<<CborItem(v, n)>>)
    /\ Throw \/ (Fits(ctx, n) /\ send_rejection([ctx EXCEPT !.cbor = Read(ctx, v, n)]))

LEMMA MemoParts ==
    ASSUME Gated, ctx \in Loaded \cup {Wiped}, ScheduleMemo
    PROVE  /\ InMemo /\ reply # Owed /\ ctx \in Loaded
           /\ UNCHANGED txConst
           /\ \E v \in Vals, n \in 1 .. CborChunkMax :
                 GrowsMemo(v, n) \/ EndsMemo(v, n) \/ SpoilsMemo(v, n)
<1>1. Enters(MEMO) /\ ScheduleView.state \in {"MEMO_START", "MEMO"} /\ UNCHANGED txConst
  BY Zenon DEF ScheduleMemo
<1>2. latch = MEMO /\ reply # Owed /\ ctx # Wiped /\ ScheduleView = ctx /\ ctx \in Loaded
  BY <1>1, OpenView
<1>3. InMemo
  BY <1>1, <1>2 DEF InMemo
<1>4. PICK v \in Vals, n \in 1 .. CborChunkMax :
         \/ Feed(<<CborItem(v, n)>>) /\ Throw
         \/ /\ Fits(ScheduleView, n) /\ Feed(<<CborItem(v, n)>>)
            /\ send_rejection([ScheduleView EXCEPT !.cbor = Read(ScheduleView, v, n)])
         \/ /\ Fits(ScheduleView, n) /\ Read(ScheduleView, v, n).length > 0
            /\ Feed(<<CborItem(v, n)>>) /\ Ack(MEMO, After(ScheduleView, v, n))
         \/ /\ Fits(ScheduleView, n) /\ Read(ScheduleView, v, n).length = 0
            /\ Feed(<<CborItem(v, n)>> \o <<<<"count", ScheduleView.remaining>>>>)
            /\ Review(MEMO, [After(ScheduleView, v, n) EXCEPT !.state = "TRANSFER_PAIRS"],
                      startInitialScheduledTransferDisplay(After(ScheduleView, v, n), account, TRUE))
  BY ZenonT(40) DEF ScheduleMemo, finish_memo_scheduled, Fits, Read, FitsChunk, ReadChunk, After
<1>5. GrowsMemo(v, n) \/ EndsMemo(v, n) \/ SpoilsMemo(v, n)
  BY <1>2, <1>4, Zenon DEF GrowsMemo, EndsMemo, SpoilsMemo
<1> QED
  BY <1>1, <1>2, <1>3, <1>5

TimeOf(v)   == <<"time", NextOrdinal, v>>
AmountOf(v) == <<"amount", NextOrdinal, v>>
Pull(c)     == [c EXCEPT !.inPacket = @ - 1, !.buffer = Tail(@)]

ReleaseScreen(c) ==
    IF LastRelease(c, Pull(c))
    THEN uiSignScheduledTransferPairFlowSignDisplay({TimeOf(Head(c.buffer)), AmountOf(Head(c.buffer))})
    ELSE uiSignScheduledTransferPairFlowDisplay({TimeOf(Head(c.buffer)), AmountOf(Head(c.buffer))})

\* A release is taken from the buffer of c and drawn.
Takes(c) ==
    /\ c.inPacket > 0
    /\ Feed(<<TimeOf(Head(c.buffer)), AmountOf(Head(c.buffer))>>)
    /\ Review(latch, Pull(c), ReleaseScreen(c))

\* A release whose time cannot be shown.
Stumbles(c) == c.inPacket > 0 /\ Feed(<<TimeOf(Head(c.buffer))>>)

Refilled(c, pairs) ==
    [c EXCEPT !.inPacket = PairsInPacket(c), !.remaining = @ - PairsInPacket(c), !.buffer = pairs]

LEMMA PairsParts ==
    ASSUME Gated, ctx \in Loaded \cup {Wiped}, NEW ins \in {PLAIN, MEMO}, handle_transfer_pairs(ins)
    PROVE  /\ InReleases /\ reply # Owed /\ ctx \in Loaded /\ ctx.state = "TRANSFER_PAIRS"
           /\ UNCHANGED txConst
           /\ \/ Throw /\ UNCHANGED hash
              \/ \E pairs \in Seq(Vals) :
                    /\ Len(pairs) = PairsInPacket(ctx)
                    /\ \/ /\ Refilled(ctx, pairs).inPacket = 0
                          /\ Ack(latch, Refilled(ctx, pairs)) /\ UNCHANGED hash
                       \/ Stumbles(Refilled(ctx, pairs)) /\ Throw
                       \/ Takes(Refilled(ctx, pairs))
<1>1. Enters(ins) /\ ScheduleView.state = "TRANSFER_PAIRS" /\ UNCHANGED txConst
  BY Zenon DEF handle_transfer_pairs
<1>2. latch = ins /\ reply # Owed /\ ctx # Wiped /\ ScheduleView = ctx /\ ctx \in Loaded
  BY <1>1, OpenView
<1>3. InReleases
  BY <1>1, <1>2 DEF InReleases
<1>4. PICK pairs \in UNION {[1 .. n -> Vals] : n \in 0 .. PacketMax} :
         \/ Throw /\ UNCHANGED hash
         \/ /\ Len(pairs) = PairsInPacket(ScheduleView)
            /\ processNextScheduledAmount(ins, Refilled(ScheduleView, pairs), Throw)
  BY Zenon DEF handle_transfer_pairs, Refilled
<1>5. pairs \in Seq(Vals)
  BY <1>4, ScheduleAssumption
<1>6. \/ Throw /\ UNCHANGED hash
      \/ /\ Len(pairs) = PairsInPacket(ctx)
         /\ processNextScheduledAmount(latch, Refilled(ctx, pairs), Throw)
  BY <1>2, <1>4, Zenon
<1>7. ASSUME NEW c, processNextScheduledAmount(latch, c, Throw)
      PROVE  \/ c.inPacket = 0 /\ Ack(latch, c) /\ UNCHANGED hash
             \/ Stumbles(c) /\ Throw
             \/ Takes(c)
  BY <1>7, Zenon DEF processNextScheduledAmount, Stumbles, Takes, Pull, ReleaseScreen, TimeOf, AmountOf
<1>8. \/ Throw /\ UNCHANGED hash
      \/ /\ Len(pairs) = PairsInPacket(ctx)
         /\ \/ /\ Refilled(ctx, pairs).inPacket = 0
               /\ Ack(latch, Refilled(ctx, pairs)) /\ UNCHANGED hash
            \/ Stumbles(Refilled(ctx, pairs)) /\ Throw
            \/ Takes(Refilled(ctx, pairs))
  BY <1>6, <1>7
<1> QED
  BY <1>1, <1>2, <1>3, <1>5, <1>8

\* Continue on a release: the next one, or none.
LEMMA ContinueParts ==
    ASSUME OnScreen, processNextScheduledAmountContinue
    PROVE  /\ InReleases /\ screen.cb = "next"
           /\ Accepted /\ UNCHANGED <<path, account>>
           /\ \/ /\ ctx.inPacket = 0 /\ reply' = Success(<< >>) /\ screen' = Stale
                 /\ UNCHANGED <<latch, ctx, keyPending, hash>>
              \/ Stumbles(ctx) /\ CallbackThrow
              \/ Takes(ctx)
<1>1. screen.cb = "next" /\ Accepted /\ UNCHANGED <<path, account>>
  BY DEF processNextScheduledAmountContinue
<1>2. InReleases /\ ContextOnScreen = ctx
  BY <1>1 DEF OnScreen, ReviewUp, InReleases, ContextOnScreen
<1>3. \/ /\ ctx.inPacket = 0 /\ reply' = Success(<< >>) /\ screen' = Stale
         /\ UNCHANGED <<latch, ctx, keyPending, hash>>
      \/ ctx.inPacket # 0 /\ processNextScheduledAmount(latch, ctx, CallbackThrow)
  BY <1>2 DEF processNextScheduledAmountContinue, Stale
<1>4. ASSUME ctx.inPacket # 0, processNextScheduledAmount(latch, ctx, CallbackThrow)
      PROVE  (Stumbles(ctx) /\ CallbackThrow) \/ Takes(ctx)
  BY <1>4, Zenon DEF processNextScheduledAmount, Stumbles, Takes, Pull, ReleaseScreen, TimeOf, AmountOf
<1> QED
  BY <1>1, <1>2, <1>3, <1>4

\* Continue on the first screen.
LEMMA ConfirmParts ==
    ASSUME OnScreen, confirmInitialScheduledTransfer
    PROVE  /\ InReleases /\ screen.cb = "initial"
           /\ Accepted /\ UNCHANGED <<latch, hash, path, account, keyPending>>
           /\ ctx' = [ctx EXCEPT !.state = "TRANSFER_PAIRS"]
           /\ reply' = Success(<< >>) /\ screen' = Stale
<1>1. screen.cb = "initial"
  BY DEF confirmInitialScheduledTransfer
<1>2. InReleases /\ ContextOnScreen = ctx
  BY <1>1 DEF OnScreen, ReviewUp, InReleases, ContextOnScreen
<1> QED
  BY <1>1, <1>2 DEF confirmInitialScheduledTransfer, Stale

\* The other buttons all lead back to the menu.
LEMMA EndingParts ==
    ASSUME buildAndSignTransactionHash \/ SigningFails \/ DeclineSchedule
    PROVE  /\ screen.cb \in {"initial", "next", "sign"}
           /\ latch' = NONE /\ screen' = Home /\ keyPending' = FALSE
           /\ ctx' \in {ctx, Wiped} /\ UNCHANGED <<hash, path, account>>
           /\ approved' \in {approved, approved \cup screen.items}
           /\ \/ reply' \in {Refused, Declined}
              \/ /\ screen.cb = "sign" /\ approved' = approved \cup screen.items
                 /\ reply' = Success(<<"signature", hash, path>>)
<1>1. CASE buildAndSignTransactionHash
  BY <1>1 DEF buildAndSignTransactionHash, send_success, ui_menu_main
<1>2. CASE SigningFails
  BY <1>2 DEF SigningFails, CallbackThrow, ui_menu_main
<1>3. CASE DeclineSchedule
  BY <1>3 DEF DeclineSchedule, UserDeclines, send_user_rejection, ui_menu_main, noFlow
<1> QED
  BY <1>1, <1>2, <1>3

\* Steps around the flow keep it as it is, or leave it closed.
LEMMA ShellParts ==
    ASSUME Gated, AnswerInv, Shell({PLAIN, MEMO})
    PROVE  /\ reply # Owed
           /\ UNCHANGED noFlow /\ keyPending' = FALSE
           /\ screen' = screen
           /\ reply' \in {reply, Refused, Success(<< >>)}
           /\ \/ UNCHANGED <<latch, ctx>>
              \/ latch' \in {NONE, "GET_APP_NAME"} /\ ctx' \in {ctx, Wiped}
              \/ latch' \in {PLAIN, MEMO} /\ ctx' = Wiped
<1>1. (latch = NONE => Union = Wiped) /\ (latch # NONE => Union = ctx)
  BY DEF Union, IsInitialCall
<1>2. CASE AboutBack
  <2>1. screen = Home /\ screen.cb = "home"
    BY <1>2 DEF AboutBack, Home
  <2>2. reply # Owed
    BY <2>1 DEF AnswerInv, ScheduleReplyOwedIffReviewUp
  <2> QED
    BY <1>2, <2>1, <2>2 DEF AboutBack, ui_menu_main
<1>3. CASE ~AboutBack
  <2>1. /\ Delivered /\ UNCHANGED noFlow /\ UNCHANGED <<screen, keyPending>>
        /\ reply' \in {Refused, Success(<< >>)}
    BY <1>3 DEF Shell, BadCommand, SwitchGuard, RefusedByDispatcher, AppInfo, UnknownInstruction,
           send_rejection, Enters
  <2>2. \/ UNCHANGED <<latch, ctx>>
        \/ latch' = NONE /\ ctx' \in {ctx, Union}
        \/ \E ins \in {PLAIN, MEMO, "GET_APP_NAME"} :
              latch \in {NONE, ins} /\ latch' = ins /\ ctx' = Union
    BY <1>3 DEF Shell, BadCommand, SwitchGuard, RefusedByDispatcher, AppInfo, UnknownInstruction,
           send_rejection, Enters
  <2>3. ASSUME NEW ins \in {PLAIN, MEMO, "GET_APP_NAME"}, latch \in {NONE, ins}, latch' = ins, ctx' = Union
        PROVE  \/ UNCHANGED <<latch, ctx>>
               \/ latch' \in {NONE, "GET_APP_NAME"} /\ ctx' \in {ctx, Wiped}
               \/ latch' \in {PLAIN, MEMO} /\ ctx' = Wiped
    BY <1>1, <2>3
  <2>4. \/ UNCHANGED <<latch, ctx>>
        \/ latch' \in {NONE, "GET_APP_NAME"} /\ ctx' \in {ctx, Wiped}
        \/ latch' \in {PLAIN, MEMO} /\ ctx' = Wiped
    BY <1>1, <2>2, <2>3
  <2> QED
    BY <2>1, <2>4 DEF Delivered, AnswerInv
<1> QED
  BY <1>2, <1>3

-----------------------------------------------------------------------------
(* The contexts that operations leave. *)

LEMMA OpenedKnown ==
    ASSUME NEW r \in Vals, NEW n \in 0 .. CountMax
    PROVE  /\ Opened(r, n) \in Loaded
           /\ Opened(r, n).to = r /\ Opened(r, n).remaining = n /\ Opened(r, n).inPacket = 0
           /\ Opened(r, n).state = "AWAITING_INITIAL_CONFIRM"
<1> DEFINE c == ScheduleZero
           d == [c EXCEPT !.to = r, !.remaining = n, !.state = "AWAITING_INITIAL_CONFIRM"]
<1>1. c \in Loaded /\ c \in ScheduleContext /\ c.inPacket = 0
  BY ZeroLoaded, LoadedFields DEF ScheduleZero
<1> HIDE DEF c
<1>2. /\ d \in ScheduleContext /\ d.buffer = c.buffer /\ d.inPacket = c.inPacket
      /\ d.cbor.buf = c.cbor.buf /\ d.to = r /\ d.remaining = n
      /\ d.state = "AWAITING_INITIAL_CONFIRM"
  BY <1>1 DEF ScheduleContext, ScheduleStates
<1>3. d \in Loaded
  BY <1>1, <1>2, StillLoaded
<1> QED
  BY <1>1, <1>2, <1>3 DEF Opened, c

LEMMA AnnouncedKnown ==
    ASSUME NEW r \in Vals, NEW n \in 0 .. CountMax, NEW m \in 0 .. CborMax
    PROVE  /\ Announced(r, n, m) \in Loaded
           /\ Announced(r, n, m).to = r /\ Announced(r, n, m).cbor.length = m
           /\ Announced(r, n, m).inPacket = 0 /\ Announced(r, n, m).state = "MEMO_START"
<1> DEFINE c == ScheduleZero
           d == [c EXCEPT !.to = r, !.remaining = n, !.cbor.length = m, !.state = "MEMO_START"]
<1>1. c \in Loaded /\ c \in ScheduleContext /\ c.inPacket = 0
  BY ZeroLoaded, LoadedFields DEF ScheduleZero
<1> HIDE DEF c
<1>2. /\ d \in ScheduleContext /\ d.buffer = c.buffer /\ d.inPacket = c.inPacket
      /\ d.cbor.buf = c.cbor.buf /\ d.to = r /\ d.cbor.length = m /\ d.state = "MEMO_START"
  BY <1>1 DEF ScheduleContext, ScheduleStates
<1>3. d \in Loaded
  BY <1>1, <1>2, StillLoaded
<1> QED
  BY <1>1, <1>2, <1>3 DEF Announced, c

LEMMA ReadKnown ==
    ASSUME NEW c \in Loaded, NEW v \in Vals, NEW n \in 1 .. CborChunkMax, Fits(c, n)
    PROVE  /\ Read(c, v, n) \in [length : 0 .. CborMax, buf : Seq(Vals \X (1 .. CborChunkMax))]
           /\ Read(c, v, n).length = c.cbor.length - n
           /\ BufLen(Read(c, v, n).buf) <= CborMax
           /\ Read(c, v, n).buf = Append(Received(c), <<v, n>>)
<1> DEFINE first == c.state = "MEMO_START"
<1>1. c.cbor \in [length : 0 .. CborMax, buf : Seq(Vals \X (1 .. CborChunkMax))] /\ first \in BOOLEAN
  BY LoadedFields
<1>2. FitsChunk(first, c.cbor, n)
  BY DEF Fits
<1> HIDE DEF first
<1>3. /\ ReadChunk(first, c.cbor, v, n) \in [length : 0 .. CborMax, buf : Seq(Vals \X (1 .. CborChunkMax))]
      /\ ReadChunk(first, c.cbor, v, n).length = c.cbor.length - n
      /\ BufLen(ReadChunk(first, c.cbor, v, n).buf) <= CborMax
      /\ first => ReadChunk(first, c.cbor, v, n).buf = <<<<v, n>>>>
      /\ ~first => ReadChunk(first, c.cbor, v, n).buf = Append(c.cbor.buf, <<v, n>>)
  BY <1>1, <1>2, ReadChunkKnown
<1>4. Append(<< >>, <<v, n>>) = <<<<v, n>>>>
  OBVIOUS
<1> QED
  BY <1>3, <1>4 DEF Read, first, Received

LEMMA AfterKnown ==
    ASSUME NEW c \in Loaded, NEW v \in Vals, NEW n \in 1 .. CborChunkMax, Fits(c, n)
    PROVE  /\ After(c, v, n) \in Loaded /\ [c EXCEPT !.cbor = Read(c, v, n)] \in Loaded
           /\ [c EXCEPT !.cbor = Read(c, v, n)].state = c.state
           /\ After(c, v, n).cbor = Read(c, v, n) /\ After(c, v, n).to = c.to
           /\ After(c, v, n).state = "MEMO"
           /\ After(c, v, n).inPacket = c.inPacket /\ After(c, v, n).remaining = c.remaining
<1> DEFINE r == Read(c, v, n)
           d == [c EXCEPT !.cbor = r]
           e == [c EXCEPT !.cbor = r, !.state = "MEMO"]
<1>1. /\ r \in [length : 0 .. CborMax, buf : Seq(Vals \X (1 .. CborChunkMax))]
      /\ BufLen(r.buf) <= CborMax
  BY ReadKnown
<1>2. c \in ScheduleContext /\ Len(c.buffer) = c.inPacket
  BY LoadedFields
<1> HIDE DEF r
<1>3. d \in ScheduleContext /\ d.cbor = r /\ d.buffer = c.buffer /\ d.inPacket = c.inPacket
      /\ d.state = c.state
  BY <1>1, <1>2 DEF ScheduleContext
<1>4. /\ e \in ScheduleContext /\ e.cbor = r /\ e.buffer = c.buffer /\ e.inPacket = c.inPacket
      /\ e.to = c.to /\ e.remaining = c.remaining /\ e.state = "MEMO"
  BY <1>1, <1>2 DEF ScheduleContext, ScheduleStates
<1>5. d \in Loaded /\ e \in Loaded
  BY <1>1, <1>2, <1>3, <1>4 DEF Loaded
<1> QED
  BY <1>3, <1>4, <1>5 DEF r, After

LEMMA StateKnown ==
    ASSUME NEW c \in Loaded, NEW s \in ScheduleStates
    PROVE  /\ [c EXCEPT !.state = s] \in Loaded
           /\ [c EXCEPT !.state = s].state = s
           /\ [c EXCEPT !.state = s].to = c.to /\ [c EXCEPT !.state = s].cbor = c.cbor
           /\ [c EXCEPT !.state = s].inPacket = c.inPacket
           /\ [c EXCEPT !.state = s].remaining = c.remaining
<1> DEFINE d == [c EXCEPT !.state = s]
<1>1. /\ d \in ScheduleContext /\ d.buffer = c.buffer /\ d.inPacket = c.inPacket /\ d.cbor = c.cbor
      /\ d.state = s /\ d.to = c.to /\ d.remaining = c.remaining
  BY LoadedFields DEF ScheduleContext
<1> HIDE DEF d
<1>2. d \in Loaded
  BY <1>1, StillLoaded
<1> QED
  BY <1>1, <1>2 DEF d

\* The same transfer, with as many releases still to be taken.
Agrees(c) ==
    /\ c.cbor = ctx.cbor
    /\ c.inPacket + c.remaining = ctx.inPacket + ctx.remaining
    /\ c.state \in {"AWAITING_INITIAL_CONFIRM", "TRANSFER_PAIRS"}

LEMMA RefilledKnown ==
    ASSUME ctx \in Loaded, ctx.inPacket = 0, ctx.state = "TRANSFER_PAIRS",
           NEW pairs \in Seq(Vals), Len(pairs) = PairsInPacket(ctx)
    PROVE  Refilled(ctx, pairs) \in Loaded /\ Agrees(Refilled(ctx, pairs))
<1> DEFINE k == PairsInPacket(ctx)
           d == [ctx EXCEPT !.inPacket = k, !.remaining = @ - k, !.buffer = pairs]
<1>1. ctx \in ScheduleContext /\ ctx.remaining \in 0 .. CountMax /\ BufLen(ctx.cbor.buf) <= CborMax
  BY LoadedFields
<1>2. k \in 0 .. PacketMax /\ ctx.remaining - k \in 0 .. CountMax /\ Len(pairs) = k
  BY <1>1, ScheduleAssumption DEF PairsInPacket
<1> HIDE DEF k
<1>3. /\ d \in ScheduleContext /\ d.inPacket = k /\ d.remaining = ctx.remaining - k
      /\ d.buffer = pairs /\ d.to = ctx.to /\ d.cbor = ctx.cbor /\ d.state = ctx.state
  BY <1>1, <1>2 DEF ScheduleContext
<1>4. d \in Loaded
  BY <1>1, <1>2, <1>3 DEF Loaded
<1>5. d.inPacket + d.remaining = ctx.inPacket + ctx.remaining
  BY <1>1, <1>2, <1>3
<1> QED
  BY <1>3, <1>4, <1>5 DEF Refilled, Agrees, k

LEMMA PullKnown ==
    ASSUME NEW c \in Loaded, c.inPacket > 0
    PROVE  /\ Head(c.buffer) \in Vals
           /\ Pull(c) \in Loaded
           /\ Pull(c).to = c.to /\ Pull(c).cbor = c.cbor /\ Pull(c).state = c.state
           /\ Pull(c).remaining = c.remaining /\ Pull(c).inPacket = c.inPacket - 1
<1> DEFINE d == [c EXCEPT !.inPacket = c.inPacket - 1, !.buffer = Tail(c.buffer)]
<1>1. /\ c \in ScheduleContext /\ c.buffer \in Seq(Vals) /\ Len(c.buffer) = c.inPacket
      /\ c.inPacket \in 0 .. PacketMax /\ BufLen(c.cbor.buf) <= CborMax
  BY LoadedFields
<1>2. /\ Head(c.buffer) \in Vals /\ Tail(c.buffer) \in Seq(Vals)
      /\ Len(Tail(c.buffer)) = c.inPacket - 1 /\ c.inPacket - 1 \in 0 .. PacketMax
  BY <1>1, ScheduleAssumption
<1>3. /\ d \in ScheduleContext /\ d.inPacket = c.inPacket - 1 /\ d.buffer = Tail(c.buffer)
      /\ d.to = c.to /\ d.cbor = c.cbor /\ d.state = c.state /\ d.remaining = c.remaining
  BY <1>1, <1>2 DEF ScheduleContext
<1>4. d \in Loaded
  BY <1>1, <1>2, <1>3 DEF Loaded
<1> QED
  BY <1>2, <1>3, <1>4 DEF Pull

\* The ordinal of the next release is one of those announced.
LEMMA NextIsAnnounced ==
    ASSUME FlowTypes, ReleasesInv, InReleases, NEW c \in Loaded, Agrees(c), c.inPacket > 0
    PROVE  /\ Taken \in Nat /\ NextOrdinal = Taken + 1 /\ NextOrdinal \in 1 .. CountMax
<1> DEFINE b == Base(latch, ctx)
<1>1. /\ b \in Nat /\ 4 <= b /\ b <= Len(hash) /\ hash[b][1] = "count" /\ Taken \in Nat
      /\ Taken + ctx.inPacket + ctx.remaining = hash[b][2]
  BY DEF ReleasesInv, Accounted, HeadIn, ReleasesIn
<1> HIDE DEF b
<1>2. hash[b] \in ScheduleItem
  BY <1>1 DEF FlowTypes
<1>3. hash[b][2] \in 0 .. CountMax
  BY <1>1, <1>2, CountIsBounded
<1>4. ctx \in Loaded
  BY DEF FlowTypes, InReleases
<1>5. /\ c.inPacket \in Nat /\ c.remaining \in Nat /\ ctx.inPacket \in Nat /\ ctx.remaining \in Nat
  BY <1>4, LoadedFields, ScheduleAssumption
<1>6. c.inPacket + c.remaining = ctx.inPacket + ctx.remaining
  BY DEF Agrees
<1>7. NextOrdinal = Taken + 1
  BY <1>1 DEF NextOrdinal, Taken
<1>8. Taken + (c.inPacket + c.remaining) = hash[b][2]
  BY <1>1, <1>5, <1>6
<1>9. hash[b][2] \in Nat /\ hash[b][2] <= CountMax /\ CountMax \in Nat
  BY <1>3, ScheduleAssumption
<1>10. Taken + 1 <= CountMax
  BY <1>1, <1>5, <1>8, <1>9, SMTT(30)
<1> QED
  BY <1>1, <1>7, <1>9, <1>10

-----------------------------------------------------------------------------
(* Types. *)

Typed == FlowTypes /\ NeverInitial

LEMMA HeaderTexts ==
    ASSUME NEW h \in Headers, NEW p \in Paths
    PROVE  AccountSender(h, p) \in AccountTexts /\ p \in Paths \cup {NoPath}
  BY DEF AccountSender, AccountTexts, Networks

LEMMA ThrowKnown == ASSUME Throw \/ CallbackThrow PROVE latch' = NONE /\ ctx' = Wiped
  BY DEF Throw, CallbackThrow, ui_menu_main

LEMMA HeaderThrowKnown ==
    ASSUME Typed, NEW h \in Headers, NEW p \in Paths, NEW items \in Seq(ScheduleItem),
           HeaderThrows(h, p, items)
    PROVE  Typed'
<1>1. <<"header", h>> \in ScheduleItem /\ hash \in Seq(ScheduleItem)
  BY ScheduleItems DEF Typed, FlowTypes
<1>2. /\ hash' \in Seq(ScheduleItem) /\ path' \in {path, p}
      /\ account' \in {account, AccountSender(h, p)}
  BY <1>1, HeaderThrowsTypes
<1>3. AccountSender(h, p) \in AccountTexts /\ p \in Paths \cup {NoPath}
  BY HeaderTexts
<1>4. latch' = NONE /\ ctx' = Wiped
  BY ThrowKnown DEF HeaderThrows
<1> QED
  BY <1>2, <1>3, <1>4 DEF Typed, FlowTypes, NeverInitial

LEMMA HeadKnown ==
    ASSUME NEW h \in Headers, NEW p \in Paths, NEW items \in Seq(ScheduleItem),
           hashAccountTransactionHeaderAndKind(h, p, items),
           latch' \in {PLAIN, MEMO}, ctx' \in Loaded, ctx'.state # "INITIAL"
    PROVE  Typed'
<1>1. <<"header", h>> \in ScheduleItem
  BY ScheduleItems
<1>2. hash' \in Seq(ScheduleItem)
  BY <1>1, HeadTypes
<1>3. AccountSender(h, p) \in AccountTexts /\ p \in Paths \cup {NoPath}
  BY HeaderTexts
<1>4. path' = p /\ account' = AccountSender(h, p)
  BY DEF hashAccountTransactionHeaderAndKind
<1> QED
  BY <1>2, <1>3, <1>4 DEF Typed, FlowTypes, NeverInitial

LEMMA InitialKnown == ASSUME Gated, Typed, ScheduleInitial PROVE Typed'
<1>1. PICK h \in Headers, p \in Paths, r \in Vals, n \in 0 .. CountMax :
         Opens(h, p, r, n) \/ HeaderThrows(h, p, SubSeq(PlainFields(r, n), 1, 2))
  BY InitialParts DEF Typed, FlowTypes
<1> DEFINE all == PlainFields(r, n)
           two == SubSeq(PlainFields(r, n), 1, 2)
<1>2. all \in Seq(ScheduleItem) /\ two \in Seq(ScheduleItem)
  BY FieldsKnown
<1> HIDE DEF all, two
<1>3. CASE Opens(h, p, r, n)
  <2>1. /\ hashAccountTransactionHeaderAndKind(h, p, all)
        /\ latch' = PLAIN /\ ctx' = Opened(r, n)
    BY <1>3 DEF Opens, Review, all
  <2> QED
    BY <1>2, <2>1, OpenedKnown, HeadKnown
<1>4. CASE HeaderThrows(h, p, two)
  BY <1>2, <1>4, HeaderThrowKnown
<1> QED
  BY <1>1, <1>3, <1>4 DEF two

LEMMA WithMemoKnown == ASSUME Gated, Typed, ScheduleInitialWithMemo PROVE Typed'
<1>1. PICK h \in Headers, p \in Paths, r \in Vals, n \in 0 .. CountMax, m \in Nat :
         \/ m \in 0 .. CborMax /\ Announces(h, p, r, n, m)
         \/ HeaderThrows(h, p, SubSeq(MemoFieldsOf(r, m), 1, 2))
  BY WithMemoParts DEF Typed, FlowTypes
<1> DEFINE all == MemoFieldsOf(r, m)
           two == SubSeq(MemoFieldsOf(r, m), 1, 2)
<1>2. (m \in 0 .. CborMax => all \in Seq(ScheduleItem)) /\ two \in Seq(ScheduleItem)
  BY FieldsKnown
<1> HIDE DEF all, two
<1>3. CASE m \in 0 .. CborMax /\ Announces(h, p, r, n, m)
  <2>1. /\ hashAccountTransactionHeaderAndKind(h, p, all)
        /\ latch' = MEMO /\ ctx' = Announced(r, n, m)
    BY <1>3 DEF Announces, Ack, all
  <2> QED
    BY <1>2, <1>3, <2>1, AnnouncedKnown, HeadKnown
<1>4. CASE HeaderThrows(h, p, two)
  BY <1>2, <1>4, HeaderThrowKnown
<1> QED
  BY <1>1, <1>3, <1>4 DEF two

\* Feeding one or two items keeps the transcript one of items.
LEMMA FeedKnown ==
    ASSUME hash \in Seq(ScheduleItem)
    PROVE  /\ \A x \in ScheduleItem : Feed(<<x>>) => hash' \in Seq(ScheduleItem)
           /\ \A x, y \in ScheduleItem : Feed(<<x, y>>) => hash' \in Seq(ScheduleItem)
<1>1. ASSUME NEW x \in ScheduleItem, Feed(<<x>>) PROVE hash' \in Seq(ScheduleItem)
  BY <1>1, FeedOne
<1>2. ASSUME NEW x \in ScheduleItem, NEW y \in ScheduleItem, Feed(<<x, y>>)
      PROVE  hash' \in Seq(ScheduleItem)
  BY <1>2, FeedTwo
<1> QED
  BY <1>1, <1>2

LEMMA EndsFeedsTwo ==
    ASSUME NEW v, NEW n, EndsMemo(v, n)
    PROVE  Feed(<<CborItem(v, n), <<"count", ctx.remaining>>>>)
<1> DEFINE x == CborItem(v, n)
           y == <<"count", ctx.remaining>>
<1>1. x \in {x, y} /\ y \in {x, y}
  OBVIOUS
<1> HIDE DEF x, y
<1>2. <<x>> \o <<y>> = <<x, y>>
  BY <1>1, Pair, Zenon
<1>3. Feed(<<x>> \o <<y>>)
  BY DEF EndsMemo, x, y
<1>4. Feed(<<x, y>>)
  BY <1>2, <1>3, Zenon
<1> QED
  BY <1>4 DEF x, y

\* A later packet or button, in a flow that stays what it is.
LEMMA LaterKnown ==
    ASSUME Typed, UNCHANGED <<path, account>>, hash' \in Seq(ScheduleItem),
           latch' \in {latch, NONE, PLAIN, MEMO},
           (ctx' \in Loaded /\ ctx'.state # "INITIAL") \/ ctx' = Wiped
    PROVE  Typed'
  BY DEF Typed, FlowTypes, NeverInitial

LEMMA MemoKnown == ASSUME Gated, Typed, ScheduleMemo PROVE Typed'
<1>1. /\ InMemo /\ ctx \in Loaded /\ UNCHANGED txConst
      /\ \E v \in Vals, n \in 1 .. CborChunkMax :
            GrowsMemo(v, n) \/ EndsMemo(v, n) \/ SpoilsMemo(v, n)
  BY MemoParts DEF Typed, FlowTypes
<1>2. PICK v \in Vals, n \in 1 .. CborChunkMax :
         GrowsMemo(v, n) \/ EndsMemo(v, n) \/ SpoilsMemo(v, n)
  BY <1>1
<1> DEFINE x == CborItem(v, n)
           y == <<"count", ctx.remaining>>
<1>3. x \in ScheduleItem /\ y \in ScheduleItem /\ hash \in Seq(ScheduleItem)
  BY <1>1, LoadedFields, ScheduleItems DEF Typed, FlowTypes
<1> HIDE DEF x, y
<1>4. hash' \in Seq(ScheduleItem)
  <2>1. Feed(<<x>>) \/ Feed(<<x, y>>)
    BY <1>2, EndsFeedsTwo DEF GrowsMemo, SpoilsMemo, x, y
  <2> QED
    BY <1>3, <2>1, FeedKnown
<1>5. CASE GrowsMemo(v, n)
  <2>1. Fits(ctx, n) /\ latch' = MEMO /\ ctx' = After(ctx, v, n)
    BY <1>5 DEF GrowsMemo, Ack
  <2>2. ctx' \in Loaded /\ ctx'.state # "INITIAL"
    BY <1>1, <2>1, AfterKnown
  <2> QED
    BY <1>1, <1>4, <2>1, <2>2, LaterKnown DEF txConst
<1>6. CASE EndsMemo(v, n)
  <2>1. Fits(ctx, n) /\ latch' = MEMO /\ ctx' = [After(ctx, v, n) EXCEPT !.state = "TRANSFER_PAIRS"]
    BY <1>6 DEF EndsMemo, Review
  <2>2. After(ctx, v, n) \in Loaded /\ "TRANSFER_PAIRS" \in ScheduleStates
    BY <1>1, <2>1, AfterKnown DEF ScheduleStates
  <2>3. ctx' \in Loaded /\ ctx'.state # "INITIAL"
    BY <2>1, <2>2, StateKnown
  <2> QED
    BY <1>1, <1>4, <2>1, <2>3, LaterKnown DEF txConst
<1>7. CASE SpoilsMemo(v, n)
  <2>1. CASE Throw
    BY <1>1, <1>4, <2>1, ThrowKnown, LaterKnown DEF txConst
  <2>2. CASE Fits(ctx, n) /\ send_rejection([ctx EXCEPT !.cbor = Read(ctx, v, n)])
    <3>1. latch' = NONE /\ ctx' = [ctx EXCEPT !.cbor = Read(ctx, v, n)]
      BY <2>2 DEF send_rejection
    <3>2. ctx' \in Loaded /\ ctx'.state = ctx.state
      BY <1>1, <2>2, <3>1, AfterKnown
    <3>3. ctx.state # "INITIAL"
      BY <1>1 DEF InMemo
    <3> QED
      BY <1>1, <1>4, <3>1, <3>2, <3>3, LaterKnown DEF txConst
  <2> QED
    BY <1>7, <2>1, <2>2 DEF SpoilsMemo
<1> QED
  BY <1>2, <1>5, <1>6, <1>7

LEMMA TakesKnown ==
    ASSUME Typed, ReleasesInv, InReleases, NEW c \in Loaded, Agrees(c), UNCHANGED <<path, account>>,
           Takes(c) \/ (Stumbles(c) /\ (Throw \/ CallbackThrow))
    PROVE  Typed'
<1>1. c.inPacket > 0
  BY DEF Takes, Stumbles
<1>2. NextOrdinal \in 1 .. CountMax
  BY <1>1, NextIsAnnounced DEF Typed
<1> DEFINE x == TimeOf(Head(c.buffer))
           y == AmountOf(Head(c.buffer))
<1>3. x \in ScheduleItem /\ y \in ScheduleItem /\ hash \in Seq(ScheduleItem)
  BY <1>1, <1>2, PullKnown, ScheduleItems DEF TimeOf, AmountOf, Typed, FlowTypes
<1> HIDE DEF x, y
<1>4. hash' \in Seq(ScheduleItem)
  <2>1. Feed(<<x>>) \/ Feed(<<x, y>>)
    BY DEF Takes, Stumbles, x, y
  <2> QED
    BY <1>3, <2>1, FeedKnown
<1>5. CASE Takes(c)
  <2>1. latch' = latch /\ ctx' = Pull(c)
    BY <1>5 DEF Takes, Review
  <2>2. ctx' \in Loaded /\ ctx'.state # "INITIAL"
    BY <1>1, <2>1, PullKnown DEF Agrees
  <2> QED
    BY <1>4, <2>1, <2>2, LaterKnown
<1>6. CASE Throw \/ CallbackThrow
  BY <1>4, <1>6, ThrowKnown, LaterKnown
<1> QED
  BY <1>5, <1>6

\* Between packets the buffer is empty.
LEMMA NothingBuffered ==
    ASSUME AnswerInv, ReleasesInv, InReleases, ctx \in Loaded, reply # Owed
    PROVE  ctx.inPacket = 0
<1>1. screen.cb # "next"
  BY DEF AnswerInv, ScheduleReplyOwedIffReviewUp
<1>2. ctx.inPacket \in Nat
  BY LoadedFields, ScheduleAssumption
<1> QED
  BY <1>1, <1>2 DEF ReleasesInv

LEMMA PairsKnown ==
    ASSUME Gated, AnswerInv, Typed, ReleasesInv, NEW ins \in {PLAIN, MEMO}, handle_transfer_pairs(ins)
    PROVE  Typed'
<1>1. /\ InReleases /\ reply # Owed /\ ctx \in Loaded /\ ctx.state = "TRANSFER_PAIRS"
      /\ UNCHANGED txConst
      /\ \/ Throw /\ UNCHANGED hash
         \/ \E pairs \in Seq(Vals) :
               /\ Len(pairs) = PairsInPacket(ctx)
               /\ \/ /\ Refilled(ctx, pairs).inPacket = 0
                     /\ Ack(latch, Refilled(ctx, pairs)) /\ UNCHANGED hash
                  \/ Stumbles(Refilled(ctx, pairs)) /\ Throw
                  \/ Takes(Refilled(ctx, pairs))
  BY PairsParts DEF Typed, FlowTypes
<1>2. ctx.inPacket = 0
  BY <1>1, NothingBuffered
<1>3. CASE Throw /\ UNCHANGED hash
  BY <1>1, <1>3, ThrowKnown, LaterKnown DEF txConst, Typed, FlowTypes
<1>4. ASSUME NEW pairs \in Seq(Vals), Len(pairs) = PairsInPacket(ctx),
             \/ /\ Refilled(ctx, pairs).inPacket = 0
                /\ Ack(latch, Refilled(ctx, pairs)) /\ UNCHANGED hash
             \/ Stumbles(Refilled(ctx, pairs)) /\ Throw
             \/ Takes(Refilled(ctx, pairs))
      PROVE  Typed'
  <2> DEFINE c == Refilled(ctx, pairs)
  <2>1. c \in Loaded /\ Agrees(c)
    BY <1>1, <1>2, <1>4, RefilledKnown
  <2> HIDE DEF c
  <2>2. CASE Ack(latch, c) /\ UNCHANGED hash
    <3>1. latch' = latch /\ ctx' = c
      BY <2>2 DEF Ack
    <3>2. ctx' \in Loaded /\ ctx'.state # "INITIAL"
      BY <2>1, <3>1 DEF Agrees
    <3> QED
      BY <1>1, <2>2, <3>1, <3>2, LaterKnown DEF txConst, Typed, FlowTypes
  <2>3. CASE Takes(c) \/ (Stumbles(c) /\ Throw)
    BY <1>1, <2>1, <2>3, TakesKnown DEF txConst
  <2> QED
    BY <1>4, <2>2, <2>3 DEF c
<1> QED
  BY <1>1, <1>3, <1>4

LEMMA ItselfAgrees == ASSUME InReleases, ctx \in Loaded PROVE Agrees(ctx)
  BY DEF InReleases, Agrees

LEMMA InReleasesLoaded == ASSUME FlowTypes, InReleases PROVE ctx \in Loaded
  BY DEF FlowTypes, InReleases

LEMMA TypedStep ==
    ASSUME Gated, AnswerInv, Typed, FlowInv, [ScheduleNext]_deviceVars
    PROVE  Typed'
<1>1. CASE ScheduleInitial \/ ScheduleInitialWithMemo \/ ScheduleMemo
  BY <1>1, InitialKnown, WithMemoKnown, MemoKnown
<1>2. CASE \E ins \in {PLAIN, MEMO} : handle_transfer_pairs(ins)
  BY <1>2, PairsKnown DEF FlowInv
<1>3. CASE ScheduleWrongState
  BY <1>3, ThrowKnown, LaterKnown DEF ScheduleWrongState, noFlow, Typed, FlowTypes
<1>4. CASE confirmInitialScheduledTransfer
  <2>1. /\ InReleases /\ UNCHANGED <<latch, hash, path, account>>
        /\ ctx' = [ctx EXCEPT !.state = "TRANSFER_PAIRS"]
    BY <1>4, ConfirmParts DEF FlowInv
  <2>2. ctx \in Loaded /\ "TRANSFER_PAIRS" \in ScheduleStates
    BY <2>1, InReleasesLoaded DEF Typed, ScheduleStates
  <2>3. ctx' \in Loaded /\ ctx'.state # "INITIAL"
    BY <2>1, <2>2, StateKnown
  <2> QED
    BY <2>1, <2>3, LaterKnown DEF Typed, FlowTypes
<1>5. CASE processNextScheduledAmountContinue
  <2>1. /\ InReleases /\ UNCHANGED <<path, account>>
        /\ \/ UNCHANGED <<latch, ctx, hash>>
           \/ Stumbles(ctx) /\ CallbackThrow
           \/ Takes(ctx)
    BY <1>5, ContinueParts DEF FlowInv
  <2>2. ctx \in Loaded /\ Agrees(ctx)
    BY <2>1, InReleasesLoaded, ItselfAgrees DEF Typed
  <2>3. CASE UNCHANGED <<latch, ctx, hash>>
    BY <2>1, <2>3 DEF Typed, FlowTypes, NeverInitial
  <2>4. CASE Takes(ctx) \/ (Stumbles(ctx) /\ CallbackThrow)
    BY <2>1, <2>2, <2>4, TakesKnown DEF FlowInv
  <2> QED
    BY <2>1, <2>3, <2>4
<1>6. CASE buildAndSignTransactionHash \/ SigningFails \/ DeclineSchedule
  BY <1>6, EndingParts DEF Typed, FlowTypes, NeverInitial
<1>7. CASE Shell({PLAIN, MEMO})
  BY <1>7, ShellParts DEF Typed, FlowTypes, NeverInitial, noFlow
<1>8. CASE Restart
  <2>1. << >> \in Seq(ScheduleItem) /\ NoAccount \in AccountTexts
    BY DEF NoAccount, AccountTexts, Networks
  <2> QED
    BY <1>8, <2>1 DEF Restart, Typed, FlowTypes, NeverInitial
<1>9. CASE UNCHANGED deviceVars
  BY <1>9 DEF deviceVars, Typed, FlowTypes, NeverInitial
<1> QED
  BY <1>1, <1>2, <1>3, <1>4, <1>5, <1>6, <1>7, <1>8, <1>9 DEF ScheduleNext, SchedulePacket, ScheduleButton

-----------------------------------------------------------------------------
(* The transcript, step by step. *)

LEMMA ClosedFlow ==
    ASSUME latch' \notin {PLAIN, MEMO} \/ ctx' = Wiped,
           screen'.cb \in {"home", "stale"}, screen'.items = {}
    PROVE  FlowInv'
<1>1. ~InMemo' /\ ~InReleases' /\ ~ReviewUp'
  BY DEF InMemo, InReleases, ReviewUp
<1> QED
  BY <1>1 DEF FlowInv, MemoInFlight, ReleasesInv, OnScreen, FreshReleases

LEMMA SameFlow ==
    ASSUME FlowInv, UNCHANGED <<latch, ctx, hash, path, account, approved, screen>>
    PROVE  FlowInv'
<1>1. /\ InMemo' = InMemo /\ InReleases' = InReleases /\ ReviewUp' = ReviewUp
      /\ Taken' = Taken /\ Shown' = Shown
      /\ Accounted(latch, ctx)' = Accounted(latch, ctx)
  BY DEF InMemo, InReleases, ReviewUp, Taken, Shown, AmountsIn, Accounted, HeadIn, ReleasesIn, Base
<1> QED
  BY <1>1 DEF FlowInv, MemoInFlight, ReleasesInv, OnScreen, FreshReleases

LEMMA BetweenScreens ==
    ASSUME AnswerInv, OnScreen, reply # Owed
    PROVE  screen.cb \in {"home", "stale"} /\ screen.items = {} /\ ~ReviewUp
  BY DEF AnswerInv, ScheduleReplyOwedIffReviewUp, OnScreen, ReviewUp

LEMMA NoAmounts ==
    ASSUME NEW s \in Seq(ScheduleItem), \A i \in 1 .. Len(s) : s[i][1] # "amount"
    PROVE  Cardinality(AmountsIn(s)) = 0
<1>1. AmountsIn(s) = {}
  BY DEF AmountsIn
<1> QED
  BY <1>1, FS_EmptySet

\* The first packet of a transfer without a memo.
LEMMA OpensFlow ==
    ASSUME NEW h \in Headers, NEW p \in Paths, NEW r \in Vals, NEW n \in 0 .. CountMax,
           Opens(h, p, r, n)
    PROVE  FlowInv'
<1> DEFINE items == PlainFields(r, n)
           c     == Opened(r, n)
<1>1. items \in Seq(ScheduleItem) /\ <<"header", h>> \in ScheduleItem
  BY FieldsKnown, ScheduleItems
<1>2. /\ Len(items) = 3 /\ items[1] = <<"kind", PLAIN>> /\ items[2] = <<"to", r>>
      /\ items[3] = <<"count", n>>
  BY DEF PlainFields
<1>3. /\ c \in Loaded /\ c # Wiped /\ c.to = r /\ c.remaining = n /\ c.inPacket = 0
      /\ c.state = "AWAITING_INITIAL_CONFIRM"
  BY OpenedKnown, LoadedFields
<1> HIDE DEF items, c
<1>4. /\ hashAccountTransactionHeaderAndKind(h, p, items)
      /\ latch' = PLAIN /\ ctx' = c
      /\ screen' = startInitialScheduledTransferDisplay(c, AccountSender(h, p), FALSE)
  BY DEF Opens, Review, items, c
<1>5. /\ hash' \in Seq(ScheduleItem) /\ Len(hash') = Len(items) + 1
      /\ hash'[1] = <<"header", h>>
      /\ \A i \in 1 .. Len(items) : hash'[i + 1] = items[i]
  BY <1>1, <1>4, HeadTypes
<1>6. /\ Len(hash') = 4 /\ DOMAIN hash' = 1 .. 4
      /\ hash'[1] = <<"header", h>> /\ hash'[2] = <<"kind", PLAIN>>
      /\ hash'[3] = <<"to", r>> /\ hash'[4] = <<"count", n>>
  <2>1. 1 \in 1 .. Len(items) /\ 2 \in 1 .. Len(items) /\ 3 \in 1 .. Len(items)
    BY <1>2
  <2>2. hash'[1 + 1] = items[1] /\ hash'[2 + 1] = items[2] /\ hash'[3 + 1] = items[3]
    BY <1>5, <2>1
  <2> QED
    BY <1>2, <1>5, <2>2
<1>7. \A i \in DOMAIN hash' : i = 1 \/ i = 2 \/ i = 3 \/ i = 4
  BY <1>6
<1>8. \A i \in DOMAIN hash' : hash'[i][1] # "amount" /\ hash'[i][1] # "time" /\ ~IsCbor(hash'[i])
  BY <1>6, <1>7 DEF IsCbor
<1>9. Taken' = 0
  BY <1>5, <1>6, <1>8, NoAmounts DEF Taken
<1>10. BlobOf(hash') = << >>
  BY <1>5, <1>6, <1>8, BlobOfPlain
<1>11. path' = p /\ account' = AccountSender(h, p) /\ approved' = {}
  BY <1>4 DEF hashAccountTransactionHeaderAndKind
<1>13. /\ screen'.cb = "initial"
       /\ screen'.items = {<<"header", h>>, <<"network", NetworkOf(p)>>, <<"to", r>>}
  BY <1>3, <1>4 DEF startInitialScheduledTransferDisplay, HeaderPairs, AccountSender
<1>14. ~InMemo' /\ InReleases' /\ ReviewUp'
  BY <1>3, <1>4, <1>13 DEF InMemo, InReleases, ReviewUp
<1>15. Base(latch', ctx') = 4
  BY <1>4 DEF Base
<1>16. Accounted(latch, ctx)'
  <2>1. HeadIn(hash', 4, latch', ctx')
    <3>1. PLAIN # MEMO
      BY DEF PLAIN, MEMO
    <3> QED
      BY <1>4, <1>6, <3>1 DEF HeadIn
  <2>2. ReleasesIn(hash', 4, 0)
    BY <1>6 DEF ReleasesIn
  <2>3. 0 + c.inPacket + c.remaining = hash'[4][2]
    BY <1>3, <1>6, ScheduleAssumption
  <2> QED
    BY <1>4, <1>9, <1>10, <1>15, <2>1, <2>2, <2>3 DEF Accounted, PLAIN, MEMO
<1>17. ScheduleRows(hash') \subseteq screen'.items
  <2>1. ASSUME NEW x \in ItemsOf(hash'), x[1] \in {"header", "to", "time", "amount"}
        PROVE  x \in screen'.items
    <3>1. PICK i \in DOMAIN hash' : x = hash'[i]
      BY DEF ItemsOf
    <3> QED
      BY <1>6, <1>7, <1>13, <2>1, <3>1
  <2> QED
    BY <1>8, <2>1 DEF ScheduleRows, HeadRows
<1>18. AmountsUpTo(screen'.items, 0) /\ AmountsUpTo(approved', 0)
  BY <1>11, <1>13 DEF AmountsUpTo
<1>19. MemoInFlight' /\ ReleasesInv'
  <2>1. ~(ctx'.inPacket > 0)
    BY <1>3, <1>4
  <2> QED
    BY <1>14, <1>16, <2>1 DEF MemoInFlight, ReleasesInv
<1>20. OnScreen'
  BY <1>11, <1>13, <1>14, <1>17 DEF OnScreen
<1>21. FreshReleases'
  <2>1. Shown' = 0
    BY <1>9, <1>13 DEF Shown
  <2> QED
    BY <1>9, <1>13, <1>18, <2>1 DEF FreshReleases, AmountsUpTo
<1> QED
  BY <1>19, <1>20, <1>21 DEF FlowInv

\* The first packet of a transfer with a memo.
LEMMA AnnouncesFlow ==
    ASSUME AnswerInv, OnScreen, reply # Owed,
           NEW h \in Headers, NEW p \in Paths, NEW r \in Vals, NEW n \in 0 .. CountMax,
           NEW m \in 0 .. CborMax, Announces(h, p, r, n, m)
    PROVE  FlowInv'
<1> DEFINE items == MemoFieldsOf(r, m)
           c     == Announced(r, n, m)
<1>1. items \in Seq(ScheduleItem) /\ <<"header", h>> \in ScheduleItem
  BY FieldsKnown, ScheduleItems
<1>2. /\ Len(items) = 3 /\ items[1] = <<"kind", MEMO>> /\ items[2] = <<"to", r>>
      /\ items[3] = <<"cborLength", m>>
  BY DEF MemoFieldsOf
<1>3. /\ c \in Loaded /\ c # Wiped /\ c.to = r /\ c.cbor.length = m /\ c.inPacket = 0
      /\ c.state = "MEMO_START"
  BY AnnouncedKnown, LoadedFields
<1> HIDE DEF items, c
<1>4. /\ hashAccountTransactionHeaderAndKind(h, p, items)
      /\ latch' = MEMO /\ ctx' = c /\ screen' = screen
  BY DEF Announces, Ack, items, c
<1>5. /\ hash' \in Seq(ScheduleItem) /\ Len(hash') = Len(items) + 1
      /\ hash'[1] = <<"header", h>>
      /\ \A i \in 1 .. Len(items) : hash'[i + 1] = items[i]
  BY <1>1, <1>4, HeadTypes
<1>6. /\ Len(hash') = 4
      /\ hash'[1] = <<"header", h>> /\ hash'[2] = <<"kind", MEMO>>
      /\ hash'[3] = <<"to", r>> /\ hash'[4] = <<"cborLength", m>>
  <2>1. 1 \in 1 .. Len(items) /\ 2 \in 1 .. Len(items) /\ 3 \in 1 .. Len(items)
    BY <1>2
  <2>2. hash'[1 + 1] = items[1] /\ hash'[2 + 1] = items[2] /\ hash'[3 + 1] = items[3]
    BY <1>5, <2>1
  <2> QED
    BY <1>2, <1>5, <2>2
<1>7. BlobOf(hash') = << >>
  <2>1. \A i \in 1 .. Len(hash') : i = 1 \/ i = 2 \/ i = 3 \/ i = 4
    BY <1>6
  <2>2. \A i \in 1 .. Len(hash') : ~IsCbor(hash'[i])
    BY <1>6, <2>1 DEF IsCbor
  <2> QED
    BY <1>5, <2>2, BlobOfPlain
<1>8. path' = p /\ account' = AccountSender(h, p) /\ approved' = {}
  BY <1>4 DEF hashAccountTransactionHeaderAndKind
<1>9. account'.header = h /\ account'.network = NetworkOf(p)
  BY <1>8 DEF AccountSender
<1>10. Received(ctx') = << >> /\ Len(<< >>) = 0 /\ BufLen(<< >>) = 0
  BY <1>3, <1>4, BufLenEmpty DEF Received
<1>11. /\ Len(hash') = 4 + Len(Received(ctx'))
       /\ m = ctx'.cbor.length + BufLen(Received(ctx'))
  <2>1. m \in Nat
    BY CborAssumption
  <2> QED
    BY <1>3, <1>4, <1>6, <1>10, <2>1
<1>12. \A i \in 5 .. Len(hash') : IsCbor(hash'[i])
  BY <1>6
<1>13. MemoInFlight'
  <2>1. BlobOf(hash') = Received(ctx')
    BY <1>7, <1>10
  <2>2. hash'[4] = <<"cborLength", ctx'.cbor.length + BufLen(Received(ctx'))>>
    BY <1>6, <1>11
  <2>3. /\ hash'[1] = <<"header", account'.header>> /\ hash'[2] = <<"kind", MEMO>>
        /\ hash'[3] = <<"to", ctx'.to>>
        /\ account'.network = NetworkOf(path') /\ ctx'.inPacket = 0
    BY <1>3, <1>4, <1>6, <1>8, <1>9
  <2> QED
    BY <1>8, <1>11, <1>12, <2>1, <2>2, <2>3 DEF MemoInFlight
<1>14. ~InReleases' /\ ~ReviewUp' /\ screen'.items = {} /\ screen'.cb # "sign"
  BY <1>3, <1>4, BetweenScreens DEF InReleases, ReviewUp
<1> QED
  BY <1>13, <1>14 DEF FlowInv, ReleasesInv, OnScreen, FreshReleases

\* A chunk that fits, against the length that was announced.
LEMMA ChunkCounts ==
    ASSUME FlowTypes, MemoInFlight, InMemo, ctx \in Loaded,
           NEW v \in Vals, NEW n \in 1 .. CborChunkMax, Fits(ctx, n)
    PROVE  LET b == Append(Received(ctx), <<v, n>>)
               m == Read(ctx, v, n)
           IN  /\ m.buf = b /\ b \in Seq(Vals \X (1 .. CborChunkMax))
               /\ Len(b) = Len(Received(ctx)) + 1 /\ Len(Received(ctx)) \in Nat
               /\ BufLen(b) \in Nat /\ BufLen(b) > 0 /\ m.length \in 0 .. CborMax
               /\ m.length + BufLen(b) = ctx.cbor.length + BufLen(Received(ctx))
<1> DEFINE rec == Received(ctx)
           b == Append(rec, <<v, n>>)
           m == Read(ctx, v, n)
<1>1. rec \in Seq(Vals \X (1 .. CborChunkMax)) /\ ctx.cbor.length \in 0 .. CborMax
  <2>1. << >> \in Seq(Vals \X (1 .. CborChunkMax))
    OBVIOUS
  <2>2. ctx.cbor.buf \in Seq(Vals \X (1 .. CborChunkMax)) /\ ctx.cbor.length \in 0 .. CborMax
    BY LoadedFields
  <2> QED
    BY <2>1, <2>2 DEF Received
<1>2. m.length \in 0 .. CborMax /\ m.length = ctx.cbor.length - n /\ m.buf = b
  BY ReadKnown
<1> HIDE DEF rec, m
<1>3. b \in Seq(Vals \X (1 .. CborChunkMax)) /\ BufLen(rec) \in Nat /\ BufLen(b) = BufLen(rec) + n
  BY <1>1, BufGrows
<1>4. Len(b) = Len(rec) + 1 /\ Len(rec) \in Nat
  BY <1>1
<1>5. n \in Nat /\ n > 0 /\ CborMax \in Nat
  BY CborAssumption
<1> HIDE DEF b
<1>6. BufLen(b) \in Nat /\ BufLen(b) > 0 /\ m.length + BufLen(b) = ctx.cbor.length + BufLen(rec)
  BY <1>1, <1>2, <1>3, <1>5
<1> QED
  BY <1>2, <1>3, <1>4, <1>6 DEF rec, b, m

LEMMA ChunkInBlob ==
    ASSUME hash \in Seq(ScheduleItem), NEW v \in Vals, NEW n \in 1 .. CborChunkMax
    PROVE  BlobOf(Append(hash, CborItem(v, n))) = Append(BlobOf(hash), <<v, n>>)
<1> DEFINE item == CborItem(v, n)
<1>1. item \in ScheduleItem /\ IsCbor(item) /\ <<item[2], item[3]>> = <<v, n>>
  BY ScheduleItems DEF CborItem, IsCbor
<1> HIDE DEF item
<1>2. BlobOf(Append(hash, item)) = BlobStep(BlobOf(hash), item)
  BY <1>1, BlobOfAppend
<1> QED
  BY <1>1, <1>2 DEF BlobStep, item

LEMMA OthersNotInBlob ==
    ASSUME NEW s \in Seq(ScheduleItem), NEW x \in ScheduleItem, ~IsCbor(x)
    PROVE  BlobOf(Append(s, x)) = BlobOf(s)
  BY BlobOfAppend DEF BlobStep

\* A chunk of the memo with more to come.
LEMMA GrowsFlow ==
    ASSUME AnswerInv, FlowTypes, MemoInFlight, OnScreen, InMemo, ctx \in Loaded, reply # Owed,
           UNCHANGED txConst, NEW v \in Vals, NEW n \in 1 .. CborChunkMax, GrowsMemo(v, n)
    PROVE  FlowInv'
<1> DEFINE item == CborItem(v, n)
           rec  == Received(ctx)
           b    == Append(rec, <<v, n>>)
           m    == Read(ctx, v, n)
           c    == After(ctx, v, n)
<1>1. /\ Fits(ctx, n) /\ Feed(<<item>>) /\ latch' = MEMO /\ ctx' = c /\ screen' = screen
  BY DEF GrowsMemo, Ack
<1>2. /\ m.buf = b /\ Len(b) = Len(rec) + 1 /\ Len(rec) \in Nat
      /\ m.length + BufLen(b) = ctx.cbor.length + BufLen(rec)
  BY <1>1, ChunkCounts
<1>3. c \in Loaded /\ c.cbor = m /\ c.to = ctx.to /\ c.state = "MEMO" /\ c.inPacket = ctx.inPacket
  BY <1>1, AfterKnown
<1>4. item \in ScheduleItem /\ IsCbor(item) /\ hash \in Seq(ScheduleItem)
  BY ScheduleItems DEF FlowTypes, CborItem, IsCbor
<1>5. BlobOf(Append(hash, item)) = Append(BlobOf(hash), <<v, n>>)
  BY <1>4, ChunkInBlob
<1> HIDE DEF item, rec, b, m, c
<1>6. /\ hash' = Append(hash, item) /\ Len(hash') = Len(hash) + 1
      /\ hash'[Len(hash) + 1] = item /\ \A i \in 1 .. Len(hash) : hash'[i] = hash[i]
  BY <1>1, <1>4, FeedOne
<1>7. /\ Len(hash) = 4 + Len(rec)
      /\ hash[1] = <<"header", account.header>> /\ hash[2] = <<"kind", MEMO>>
      /\ hash[3] = <<"to", ctx.to>> /\ hash[4] = <<"cborLength", ctx.cbor.length + BufLen(rec)>>
      /\ \A i \in 5 .. Len(hash) : IsCbor(hash[i])
      /\ BlobOf(hash) = rec /\ account.network = NetworkOf(path) /\ ctx.inPacket = 0 /\ approved = {}
  BY DEF MemoInFlight, rec
<1>8. Received(ctx') = b
  BY <1>1, <1>2, <1>3 DEF Received
<1>9. BlobOf(hash') = b
  BY <1>5, <1>6, <1>7 DEF b
<1>10. Len(hash') = 4 + Len(b)
  BY <1>2, <1>6, <1>7
<1>11. hash'[1] = hash[1] /\ hash'[2] = hash[2] /\ hash'[3] = hash[3] /\ hash'[4] = hash[4]
  BY <1>2, <1>6, <1>7
<1>12. \A i \in 5 .. Len(hash') : IsCbor(hash'[i])
  <2> SUFFICES ASSUME NEW i \in 5 .. Len(hash') PROVE IsCbor(hash'[i])
    OBVIOUS
  <2>1. i = Len(hash) + 1 \/ i \in 5 .. Len(hash)
    BY <1>2, <1>6, <1>7
  <2>2. i \in 5 .. Len(hash) => i \in 1 .. Len(hash)
    BY <1>2, <1>7
  <2> QED
    BY <1>4, <1>6, <1>7, <2>1, <2>2
<1>13. path' = path /\ account' = account /\ approved' = approved
  BY DEF txConst
<1>14. ctx'.cbor.length + BufLen(b) = ctx.cbor.length + BufLen(rec)
  BY <1>1, <1>2, <1>3
<1>15. MemoInFlight'
  <2>1. hash'[4] = <<"cborLength", ctx'.cbor.length + BufLen(b)>>
    BY <1>7, <1>11, <1>14
  <2>2. ctx'.to = ctx.to /\ ctx'.inPacket = 0
    BY <1>1, <1>3, <1>7
  <2> QED
    BY <1>7, <1>8, <1>9, <1>10, <1>11, <1>12, <1>13, <2>1, <2>2 DEF MemoInFlight
<1>16. ~InReleases' /\ ~ReviewUp' /\ screen'.items = {} /\ screen'.cb # "sign"
  BY <1>1, <1>3, BetweenScreens DEF InReleases, ReviewUp
<1> QED
  BY <1>15, <1>16 DEF FlowInv, ReleasesInv, OnScreen, FreshReleases

\* The last chunk: the number of releases is hashed after it.
LEMMA EndsFlow ==
    ASSUME AnswerInv, FlowTypes, MemoInFlight, OnScreen, InMemo, ctx \in Loaded, reply # Owed,
           UNCHANGED txConst, NEW v \in Vals, NEW n \in 1 .. CborChunkMax, EndsMemo(v, n)
    PROVE  FlowInv'
<1> DEFINE x   == CborItem(v, n)
           y   == <<"count", ctx.remaining>>
           rec == Received(ctx)
           b   == Append(rec, <<v, n>>)
           m   == Read(ctx, v, n)
           c   == After(ctx, v, n)
           d   == [c EXCEPT !.state = "TRANSFER_PAIRS"]
<1>1. /\ Fits(ctx, n) /\ m.length = 0 /\ Feed(<<x, y>>) /\ latch' = MEMO /\ ctx' = d
      /\ screen' = startInitialScheduledTransferDisplay(c, account, TRUE)
  BY EndsFeedsTwo DEF EndsMemo, Review
<1>2. /\ m.buf = b /\ b \in Seq(Vals \X (1 .. CborChunkMax)) /\ Len(b) = Len(rec) + 1
      /\ Len(rec) \in Nat /\ BufLen(b) \in Nat /\ BufLen(b) > 0
      /\ m.length + BufLen(b) = ctx.cbor.length + BufLen(rec)
  BY <1>1, ChunkCounts
<1>3. /\ c \in Loaded /\ c.cbor = m /\ c.to = ctx.to /\ c.inPacket = ctx.inPacket
      /\ c.remaining = ctx.remaining
  BY <1>1, AfterKnown
<1>4. /\ d \in Loaded /\ d # Wiped /\ d.cbor = m /\ d.state = "TRANSFER_PAIRS"
      /\ d.inPacket = ctx.inPacket /\ d.remaining = ctx.remaining
  <2>1. "TRANSFER_PAIRS" \in ScheduleStates
    BY DEF ScheduleStates
  <2> HIDE DEF c, m
  <2> QED
    BY <1>3, <2>1, StateKnown, LoadedFields
<1>5. /\ x \in ScheduleItem /\ IsCbor(x) /\ x[1] = "cbor" /\ hash \in Seq(ScheduleItem)
      /\ y \in ScheduleItem /\ ~IsCbor(y) /\ y[1] = "count" /\ y[2] = ctx.remaining
      /\ ctx.remaining \in Nat
  <2>1. ctx.remaining \in 0 .. CountMax /\ ctx.remaining \in Nat
    BY LoadedFields, ScheduleAssumption
  <2>2. x \in ScheduleItem /\ y \in ScheduleItem
    BY <2>1, ScheduleItems
  <2> QED
    BY <2>1, <2>2 DEF FlowTypes, CborItem, IsCbor
<1>6. BlobOf(Append(hash, x)) = Append(BlobOf(hash), <<v, n>>)
  BY <1>5, ChunkInBlob
<1> HIDE DEF x, y, rec, b, m, c, d
<1>7. BlobOf(Append(Append(hash, x), y)) = BlobOf(Append(hash, x))
  <2>1. Append(hash, x) \in Seq(ScheduleItem)
    BY <1>5
  <2> QED
    BY <1>5, <2>1, OthersNotInBlob
<1>8. /\ hash' = Append(Append(hash, x), y) /\ Len(hash') = Len(hash) + 2 /\ hash' \in Seq(ScheduleItem)
      /\ hash'[Len(hash) + 1] = x /\ hash'[Len(hash) + 2] = y
      /\ \A i \in 1 .. Len(hash) : hash'[i] = hash[i]
  BY <1>1, <1>5, FeedTwo
<1>9. /\ Len(hash) = 4 + Len(rec)
      /\ hash[1] = <<"header", account.header>> /\ hash[2] = <<"kind", MEMO>>
      /\ hash[3] = <<"to", ctx.to>> /\ hash[4] = <<"cborLength", ctx.cbor.length + BufLen(rec)>>
      /\ \A i \in 5 .. Len(hash) : IsCbor(hash[i])
      /\ BlobOf(hash) = rec /\ account.network = NetworkOf(path) /\ ctx.inPacket = 0 /\ approved = {}
  BY DEF MemoInFlight, rec
<1>10. BlobOf(hash') = b
  BY <1>6, <1>7, <1>8, <1>9 DEF b
<1>11. hash'[1] = hash[1] /\ hash'[2] = hash[2] /\ hash'[3] = hash[3] /\ hash'[4] = hash[4]
  BY <1>2, <1>8, <1>9
<1>12. \A i \in 5 .. Len(hash) + 1 : IsCbor(hash'[i]) /\ hash'[i][1] = "cbor"
  <2> SUFFICES ASSUME NEW i \in 5 .. Len(hash) + 1 PROVE IsCbor(hash'[i])
    BY DEF IsCbor
  <2>1. i = Len(hash) + 1 \/ i \in 5 .. Len(hash)
    BY <1>2, <1>9, SMTT(30)
  <2>2. i \in 5 .. Len(hash) => i \in 1 .. Len(hash)
    BY <1>2, <1>9
  <2> QED
    BY <1>5, <1>8, <1>9, <2>1, <2>2
<1>13. path' = path /\ account' = account /\ approved' = {}
  BY <1>9 DEF txConst
<1>14. \A i \in DOMAIN hash' : \/ i = 1 \/ i = 2 \/ i = 3 \/ i = 4
                               \/ i \in 5 .. Len(hash) + 1 \/ i = Len(hash) + 2
  BY <1>2, <1>8, <1>9, SMTT(30)
<1>15. Taken' = 0
  <2>1. \A i \in 1 .. Len(hash') : hash'[i][1] # "amount"
    BY <1>5, <1>8, <1>9, <1>11, <1>12, <1>14
  <2> QED
    BY <1>8, <2>1, NoAmounts DEF Taken
<1> DEFINE e == Len(hash) + 2
<1>16. Base(latch', ctx') = e /\ e = 5 + Len(b) /\ e \in Nat
  BY <1>1, <1>2, <1>4, <1>9 DEF Base, PLAIN, MEMO
<1>17. Accounted(latch, ctx)'
  <2>1. hash'[4] = <<"cborLength", BufLen(b)>>
    BY <1>1, <1>2, <1>9, <1>11
  <2>2. ctx'.cbor.buf = b
    BY <1>1, <1>2, <1>4
  <2>3. HeadIn(hash', e, latch', ctx')
    <3>1. 4 <= e /\ e <= Len(hash') /\ e - 1 = Len(hash) + 1
      BY <1>2, <1>8, <1>9
    <3>2. \A i \in 5 .. e - 1 : IsCbor(hash'[i])
      BY <1>12, <3>1
    <3>3. /\ hash'[1][1] = "header" /\ hash'[2] = <<"kind", MEMO>> /\ hash'[3][1] = "to"
          /\ hash'[e][1] = "count"
      BY <1>5, <1>8, <1>9, <1>11
    <3> QED
      BY <1>1, <1>2, <1>16, <2>1, <2>2, <3>1, <3>2, <3>3 DEF HeadIn
  <2>4. ReleasesIn(hash', e, 0)
    BY <1>8, <1>16 DEF ReleasesIn
  <2>5. 0 + ctx'.inPacket + ctx'.remaining = hash'[e][2]
    BY <1>1, <1>4, <1>5, <1>8, <1>9
  <2> HIDE DEF e
  <2> QED
    BY <1>1, <1>10, <1>15, <1>16, <2>2, <2>3, <2>4, <2>5 DEF Accounted
<1>18. /\ screen'.cb = "initial"
       /\ screen'.items = {<<"header", account.header>>, <<"network", account.network>>,
                           <<"to", ctx.to>>, <<"blob", b>>}
  BY <1>1, <1>2, <1>3 DEF startInitialScheduledTransferDisplay, HeaderPairs, CborRows
<1>19. ~InMemo' /\ InReleases' /\ ReviewUp'
  BY <1>1, <1>4, <1>18 DEF InMemo, InReleases, ReviewUp
<1>20. ScheduleRows(hash') \subseteq screen'.items
  <2>1. ASSUME NEW z \in ItemsOf(hash'), z[1] \in {"header", "to", "time", "amount"}
        PROVE  z \in screen'.items
    <3>1. PICK i \in DOMAIN hash' : z = hash'[i]
      BY DEF ItemsOf
    <3>2. CASE i \in 5 .. Len(hash) + 1 \/ i = Len(hash) + 2
      BY <1>5, <1>8, <1>12, <2>1, <3>1, <3>2
    <3>3. CASE i = 2 \/ i = 4
      BY <1>9, <1>11, <2>1, <3>1, <3>3
    <3> QED
      BY <1>9, <1>11, <1>14, <1>18, <3>1, <3>2, <3>3
  <2>2. <<"blob", BlobOf(hash')>> \in screen'.items
    BY <1>10, <1>18
  <2> QED
    BY <2>1, <2>2 DEF ScheduleRows, HeadRows
<1>21. AmountsUpTo(screen'.items, 0) /\ AmountsUpTo(approved', 0)
  BY <1>13, <1>18 DEF AmountsUpTo
<1>22. MemoInFlight' /\ ReleasesInv'
  <2>1. ~(ctx'.inPacket > 0)
    BY <1>1, <1>4, <1>9
  <2> QED
    BY <1>17, <1>19, <2>1 DEF MemoInFlight, ReleasesInv
<1>23. OnScreen'
  BY <1>9, <1>13, <1>18, <1>19, <1>20 DEF OnScreen
<1>24. FreshReleases'
  <2>1. Shown' = 0
    BY <1>15, <1>18 DEF Shown
  <2> QED
    BY <1>15, <1>18, <1>21, <2>1 DEF FreshReleases, AmountsUpTo
<1> QED
  BY <1>22, <1>23, <1>24 DEF FlowInv

\* The flow waits for the next packet: everything taken so far is accepted.
LEMMA WaitsFlow ==
    ASSUME FlowTypes, FlowInv, InReleases, UNCHANGED <<latch, hash, path>>, Accepted,
           ctx' \in Loaded, Agrees(ctx'), ctx'.inPacket = 0,
           screen'.cb \in {"home", "stale"}, screen'.items = {}
    PROVE  FlowInv'
<1>1. ctx \in Loaded /\ ctx.inPacket \in Nat /\ ctx.remaining \in Nat /\ ctx'.remaining \in Nat
  BY InReleasesLoaded, LoadedFields, ScheduleAssumption
<1>2. Taken' = Taken /\ Taken \in Nat
  BY DEF Taken, FlowInv, ReleasesInv, Accounted, ReleasesIn
<1>3. ctx'.cbor = ctx.cbor /\ ctx'.inPacket + ctx'.remaining = ctx.inPacket + ctx.remaining
  BY DEF Agrees
<1>4. ~InMemo' /\ InReleases' /\ ~ReviewUp'
  BY LoadedFields DEF Agrees, InMemo, InReleases, ReviewUp
<1>5. Accounted(latch, ctx)'
  <2> DEFINE b == Base(latch, ctx)
  <2>1. Base(latch', ctx') = b
    BY <1>3 DEF Base
  <2>2. /\ HeadIn(hash, b, latch, ctx) /\ ReleasesIn(hash, b, Taken)
        /\ Taken + ctx.inPacket + ctx.remaining = hash[b][2]
        /\ BlobOf(hash) = IF latch = MEMO THEN ctx.cbor.buf ELSE << >>
    BY DEF FlowInv, ReleasesInv, Accounted
  <2> HIDE DEF b
  <2>3. HeadIn(hash', b, latch', ctx') /\ ReleasesIn(hash', b, Taken')
    BY <1>2, <1>3, <2>2 DEF HeadIn
  <2>4. Taken' + ctx'.inPacket + ctx'.remaining = hash'[b][2]
    <3>1. Taken + (ctx'.inPacket + ctx'.remaining) = hash[b][2]
      BY <1>1, <1>2, <1>3, <2>2
    <3> QED
      BY <1>1, <1>2, <3>1
  <2> QED
    BY <1>3, <2>1, <2>2, <2>3, <2>4 DEF Accounted
<1>6. approved' = approved \cup screen.items
  BY DEF Accepted
<1>7. MemoInFlight' /\ ReleasesInv'
  BY <1>4, <1>5 DEF MemoInFlight, ReleasesInv
<1>8. OnScreen'
  BY <1>4, <1>6 DEF FlowInv, OnScreen
<1>9. FreshReleases'
  <2>1. Shown' = Taken
    BY <1>2 DEF Shown
  <2>2. AmountsUpTo(approved', Taken)
    <3>1. AmountsUpTo(approved, Shown) /\ AmountsUpTo(screen.items, Taken) /\ Shown <= Taken
          /\ (Shown = Taken \/ Shown = Taken - 1)
      BY <1>2 DEF FlowInv, FreshReleases, Shown
    <3> QED
      BY <1>2, <1>6, <3>1 DEF AmountsUpTo
  <2>3. AmountsUpTo(screen'.items, Taken)
    BY DEF AmountsUpTo
  <2> QED
    BY <1>2, <2>1, <2>2, <2>3 DEF FreshReleases, AmountsUpTo
<1> QED
  BY <1>7, <1>8, <1>9 DEF FlowInv

\* What a release adds to the transcript.
LEMMA TakesFeeds ==
    ASSUME FlowTypes, ReleasesInv, InReleases, NEW c \in Loaded, Agrees(c), Takes(c)
    PROVE  \E v \in Vals, x \in ScheduleItem, y \in ScheduleItem :
              /\ x = <<"time", Taken + 1, v>> /\ y = <<"amount", Taken + 1, v>>
              /\ Taken \in Nat /\ Feed(<<x, y>>)
              /\ screen'.items = {x, y}
<1>1. c.inPacket > 0
  BY DEF Takes
<1>2. Taken \in Nat /\ NextOrdinal = Taken + 1 /\ NextOrdinal \in 1 .. CountMax
  BY <1>1, NextIsAnnounced
<1> DEFINE v == Head(c.buffer)
           x == TimeOf(v)
           y == AmountOf(v)
<1>3. v \in Vals
  BY <1>1, PullKnown
<1> HIDE DEF v
<1>4. x \in ScheduleItem /\ y \in ScheduleItem
  BY <1>2, <1>3, ScheduleItems DEF TimeOf, AmountOf
<1>5. x = <<"time", Taken + 1, v>> /\ y = <<"amount", Taken + 1, v>>
  BY <1>2 DEF TimeOf, AmountOf
<1> HIDE DEF x, y
<1>6. Feed(<<x, y>>)
  BY DEF Takes, x, y, v
<1>7. screen'.items = {x, y}
  BY DEF Takes, Review, ReleaseScreen, uiSignScheduledTransferPairFlowSignDisplay,
         uiSignScheduledTransferPairFlowDisplay, x, y, v
<1> QED
  BY <1>2, <1>3, <1>4, <1>5, <1>6, <1>7

\* Which of the two screens a release is drawn on.
LEMMA TakesDraws ==
    ASSUME NEW c \in Loaded, Takes(c)
    PROVE  /\ screen'.cb \in {"next", "sign"}
           /\ screen'.cb = "sign" <=> (ctx'.remaining = 0 /\ ctx'.inPacket = 0)
<1>1. c.inPacket > 0 /\ ctx' = Pull(c) /\ screen' = ReleaseScreen(c)
  BY DEF Takes, Review
<1>2. Pull(c).remaining = c.remaining
  BY <1>1, PullKnown
<1> QED
  BY <1>1, <1>2 DEF ReleaseScreen, LastRelease, uiSignScheduledTransferPairFlowSignDisplay,
     uiSignScheduledTransferPairFlowDisplay

\* One more amount in the transcript.
LEMMA OneMoreAmount ==
    ASSUME NEW s \in Seq(ScheduleItem), NEW t, Len(t) = Len(s) + 2, DOMAIN t = 1 .. Len(t),
           \A i \in 1 .. Len(s) : t[i] = s[i],
           t[Len(s) + 1][1] = "time", t[Len(s) + 2][1] = "amount"
    PROVE  Cardinality(AmountsIn(t)) = Cardinality(AmountsIn(s)) + 1
<1>1. Len(s) \in Nat /\ AmountsIn(s) \subseteq 1 .. Len(s)
  BY DEF AmountsIn
<1>2. AmountsIn(t) = AmountsIn(s) \cup {Len(s) + 2}
  <2>1. DOMAIN s = 1 .. Len(s) /\ DOMAIN t = 1 .. Len(s) + 2
    OBVIOUS
  <2>2. \A i \in DOMAIN t : i \in DOMAIN s \/ i = Len(s) + 1 \/ i = Len(s) + 2
    BY <1>1, <2>1
  <2>3. ASSUME NEW i \in AmountsIn(t) PROVE i \in AmountsIn(s) \cup {Len(s) + 2}
    BY <2>1, <2>2, <2>3 DEF AmountsIn
  <2>4. ASSUME NEW i \in AmountsIn(s) PROVE i \in AmountsIn(t)
    BY <1>1, <2>1, <2>4 DEF AmountsIn
  <2>5. Len(s) + 2 \in AmountsIn(t)
    BY <1>1, <2>1 DEF AmountsIn
  <2> QED
    BY <2>3, <2>4, <2>5
<1>3. IsFiniteSet(AmountsIn(s))
  <2>1. IsFiniteSet(1 .. Len(s))
    BY <1>1, FS_Interval
  <2> QED
    BY <1>1, <2>1, FS_Subset
<1>4. Len(s) + 2 \notin AmountsIn(s)
  BY <1>1
<1> QED
  BY <1>2, <1>3, <1>4, FS_AddElement

\* A release taken from the buffer, by a packet or by Continue.
LEMMA TakesFlow ==
    ASSUME FlowTypes, FlowInv, InReleases, NEW c \in Loaded, Agrees(c), Takes(c),
           Accepted, UNCHANGED path
    PROVE  FlowInv'
<1>1. PICK v \in Vals, x \in ScheduleItem, y \in ScheduleItem :
         /\ x = <<"time", Taken + 1, v>> /\ y = <<"amount", Taken + 1, v>>
         /\ Taken \in Nat /\ Feed(<<x, y>>)
         /\ screen'.items = {x, y}
  BY TakesFeeds DEF FlowInv
<1>2. /\ x[1] = "time" /\ y[1] = "amount" /\ ~IsCbor(x) /\ ~IsCbor(y)
  BY <1>1 DEF IsCbor
<1>3. /\ latch' = latch /\ ctx' = Pull(c) /\ c.inPacket > 0
  BY DEF Takes, Review
<1>4. /\ ctx' \in Loaded /\ ctx' # Wiped /\ ctx'.cbor = c.cbor /\ ctx'.state = c.state
      /\ ctx'.remaining = c.remaining /\ ctx'.inPacket = c.inPacket - 1
  BY <1>3, PullKnown, LoadedFields
<1>5. hash \in Seq(ScheduleItem)
  BY DEF FlowTypes
<1>6. /\ hash' = Append(Append(hash, x), y) /\ Len(hash') = Len(hash) + 2 /\ hash' \in Seq(ScheduleItem)
      /\ hash'[Len(hash) + 1] = x /\ hash'[Len(hash) + 2] = y
      /\ \A i \in 1 .. Len(hash) : hash'[i] = hash[i]
  <2>1. Feed(<<x, y>>)
    BY <1>1
  <2> QED
    BY <1>5, <2>1, FeedTwo
<1>7. BlobOf(hash') = BlobOf(hash)
  <2>1. Append(hash, x) \in Seq(ScheduleItem)
    BY <1>5
  <2> QED
    BY <1>2, <1>5, <1>6, <2>1, OthersNotInBlob
<1>8. DOMAIN hash' = 1 .. Len(hash')
  BY <1>6
<1>9. Taken' = Taken + 1
  <2> DEFINE t == hash'
  <2>1. /\ Len(t) = Len(hash) + 2 /\ DOMAIN t = 1 .. Len(t)
        /\ \A i \in 1 .. Len(hash) : t[i] = hash[i]
        /\ t[Len(hash) + 1][1] = "time" /\ t[Len(hash) + 2][1] = "amount"
    BY <1>2, <1>6, <1>8
  <2> HIDE DEF t
  <2>2. Cardinality(AmountsIn(t)) = Cardinality(AmountsIn(hash)) + 1
    BY <1>5, <2>1, OneMoreAmount
  <2> QED
    BY <2>2 DEF t, Taken
<1> DEFINE b == Base(latch, ctx)
<1>10. /\ HeadIn(hash, b, latch, ctx) /\ ReleasesIn(hash, b, Taken)
       /\ Taken + ctx.inPacket + ctx.remaining = hash[b][2]
       /\ BlobOf(hash) = IF latch = MEMO THEN ctx.cbor.buf ELSE << >>
  BY DEF FlowInv, ReleasesInv, Accounted
<1>11. ctx'.cbor = ctx.cbor /\ c.inPacket + c.remaining = ctx.inPacket + ctx.remaining
  BY <1>4 DEF Agrees
<1>12. Base(latch', ctx') = b
  BY <1>3, <1>11 DEF Base
<1> HIDE DEF b
<1>13. b \in Nat /\ 4 <= b /\ b <= Len(hash) /\ Len(hash) = b + 2 * Taken /\ Len(hash) \in Nat
  BY <1>5, <1>10 DEF HeadIn, ReleasesIn
<1>14. HeadIn(hash', b, latch', ctx')
  <2>1. hash'[1] = hash[1] /\ hash'[2] = hash[2] /\ hash'[3] = hash[3] /\ hash'[4] = hash[4]
        /\ hash'[b] = hash[b]
    BY <1>6, <1>13
  <2>2. \A i \in 5 .. b - 1 : hash'[i] = hash[i]
    BY <1>6, <1>13
  <2> QED
    BY <1>3, <1>6, <1>10, <1>11, <1>13, <2>1, <2>2 DEF HeadIn
<1>15. ReleasesIn(hash', b, Taken + 1)
  <2>1. Taken + 1 \in Nat /\ Len(hash') = b + 2 * (Taken + 1)
    BY <1>1, <1>6, <1>13
  <2>2. ASSUME NEW k \in 1 .. Taken + 1
        PROVE  \E w \in Vals : /\ hash'[b + 2 * k - 1] = <<"time", k, w>>
                               /\ hash'[b + 2 * k] = <<"amount", k, w>>
    <3>1. CASE k = Taken + 1
      <4>1. b + 2 * k - 1 = Len(hash) + 1 /\ b + 2 * k = Len(hash) + 2
        BY <1>1, <1>13, <3>1
      <4> QED
        BY <1>1, <1>6, <3>1, <4>1
    <3>2. CASE k \in 1 .. Taken
      <4>1. PICK w \in Vals : /\ hash[b + 2 * k - 1] = <<"time", k, w>>
                              /\ hash[b + 2 * k] = <<"amount", k, w>>
        BY <1>10, <3>2 DEF ReleasesIn
      <4>2. b + 2 * k - 1 \in 1 .. Len(hash) /\ b + 2 * k \in 1 .. Len(hash)
        BY <1>1, <1>13, <3>2
      <4> QED
        BY <1>6, <4>1, <4>2
    <3> QED
      BY <1>1, <3>1, <3>2
  <2> QED
    BY <2>1, <2>2 DEF ReleasesIn
<1>16. (Taken + 1) + ctx'.inPacket + ctx'.remaining = hash'[b][2]
  <2>1. /\ c.inPacket \in Nat /\ c.remaining \in Nat /\ ctx.inPacket \in Nat /\ ctx.remaining \in Nat
    BY InReleasesLoaded, LoadedFields, ScheduleAssumption
  <2>2. hash'[b] = hash[b]
    BY <1>6, <1>13
  <2>3. Taken + (c.inPacket + c.remaining) = hash[b][2]
    BY <1>1, <1>10, <1>11, <2>1
  <2>4. (Taken + 1) + (c.inPacket - 1) + c.remaining = Taken + (c.inPacket + c.remaining)
    BY <1>1, <1>3, <2>1
  <2> QED
    BY <1>4, <2>2, <2>3, <2>4
<1>17. Accounted(latch, ctx)'
  BY <1>3, <1>7, <1>9, <1>10, <1>11, <1>12, <1>14, <1>15, <1>16 DEF Accounted
<1>18. /\ screen'.cb \in {"next", "sign"}
       /\ screen'.cb = "sign" <=> (ctx'.remaining = 0 /\ ctx'.inPacket = 0)
  BY TakesDraws
<1>19. ~InMemo' /\ InReleases' /\ ReviewUp'
  BY <1>3, <1>4, <1>18 DEF Agrees, InMemo, InReleases, ReviewUp
<1>20. approved' = approved \cup screen.items
  BY DEF Accepted
<1>21. ScheduleRows(hash') \subseteq ScheduleRows(hash) \cup {x, y}
  <2>1. \A i \in DOMAIN hash' : i \in DOMAIN hash \/ i = Len(hash) + 1 \/ i = Len(hash) + 2
    BY <1>5, <1>6, <1>8
  <2>2. \A i \in DOMAIN hash : hash'[i] = hash[i]
    BY <1>5, <1>6
  <2>3. ItemsOf(hash') \subseteq ItemsOf(hash) \cup {x, y}
    BY <1>6, <2>1, <2>2 DEF ItemsOf
  <2>4. (\E i \in DOMAIN hash' : IsCbor(hash'[i])) => \E i \in DOMAIN hash : IsCbor(hash[i])
    BY <1>2, <1>6, <2>1, <2>2
  <2> QED
    BY <1>7, <2>3, <2>4 DEF ScheduleRows, HeadRows
<1>22. MemoInFlight' /\ ReleasesInv'
  BY <1>17, <1>18, <1>19 DEF MemoInFlight, ReleasesInv
<1>23. OnScreen'
  <2>1. ScheduleRows(hash) \subseteq approved' /\ <<"network", NetworkOf(path)>> \in approved'
    BY <1>20 DEF FlowInv, OnScreen
  <2>2. ScheduleRows(hash') \subseteq approved' \cup screen'.items
    BY <1>1, <1>21, <2>1
  <2> QED
    BY <1>1, <1>9, <1>18, <1>19, <2>1, <2>2 DEF OnScreen
<1>24. FreshReleases'
  <2>1. Shown' = Taken
    BY <1>1, <1>9, <1>18 DEF Shown
  <2>2. AmountsUpTo(approved', Taken)
    <3>1. AmountsUpTo(approved, Shown) /\ AmountsUpTo(screen.items, Taken)
          /\ (Shown = Taken \/ Shown = Taken - 1)
      BY DEF FlowInv, FreshReleases, Shown
    <3> QED
      BY <1>1, <1>20, <3>1 DEF AmountsUpTo
  <2>3. AmountsUpTo(screen'.items, Taken + 1)
    <3> SUFFICES ASSUME NEW k \in Nat, NEW w \in Vals, <<"amount", k, w>> \in {x, y}
                 PROVE  k <= Taken + 1
      BY <1>1 DEF AmountsUpTo
    <3>1. <<"amount", k, w>> = y
      BY <1>2
    <3> QED
      BY <1>1, <3>1
  <2>4. <<"amount", Taken + 1, v>> \in screen'.items
    BY <1>1
  <2> QED
    BY <1>9, <1>18, <2>1, <2>2, <2>3, <2>4 DEF FreshReleases, AmountsUpTo
<1> QED
  BY <1>22, <1>23, <1>24 DEF FlowInv

LEMMA FlowInvStep ==
    ASSUME Gated, AnswerInv, Typed, FlowInv, [ScheduleNext]_deviceVars
    PROVE  FlowInv'
<1>0. FlowTypes /\ NeverInitial /\ OnScreen /\ ctx \in Loaded \cup {Wiped}
  BY DEF Typed, FlowTypes, FlowInv
<1>1. ASSUME Throw, reply # Owed PROVE FlowInv'
  <2>1. ctx' = Wiped /\ screen' = screen
    BY <1>1 DEF Throw
  <2> QED
    BY <1>0, <1>1, <2>1, BetweenScreens, ClosedFlow
<1>2. CASE ScheduleInitial
  <2>1. PICK h \in Headers, p \in Paths, r \in Vals, n \in 0 .. CountMax :
           reply # Owed /\ (Opens(h, p, r, n) \/ Throw)
    BY <1>0, <1>2, InitialParts DEF HeaderThrows
  <2> QED
    BY <1>1, <2>1, OpensFlow
<1>3. CASE ScheduleInitialWithMemo
  <2>1. PICK h \in Headers, p \in Paths, r \in Vals, n \in 0 .. CountMax, m \in Nat :
           reply # Owed /\ ((m \in 0 .. CborMax /\ Announces(h, p, r, n, m)) \/ Throw)
    BY <1>0, <1>3, WithMemoParts DEF HeaderThrows
  <2> QED
    BY <1>0, <1>1, <2>1, AnnouncesFlow
<1>4. CASE ScheduleMemo
  <2>1. InMemo /\ reply # Owed /\ ctx \in Loaded /\ UNCHANGED txConst
    BY <1>0, <1>4, MemoParts
  <2>2. PICK v \in Vals, n \in 1 .. CborChunkMax :
           GrowsMemo(v, n) \/ EndsMemo(v, n) \/ SpoilsMemo(v, n)
    BY <1>0, <1>4, MemoParts
  <2>3. CASE SpoilsMemo(v, n)
    <3>1. CASE Throw
      BY <1>1, <2>1, <3>1
    <3>2. CASE \E d : send_rejection(d)
      <4>1. latch' = NONE /\ screen' = screen
        BY <3>2 DEF send_rejection
      <4> QED
        BY <1>0, <2>1, <4>1, BetweenScreens, ClosedFlow DEF NONE, PLAIN, MEMO
    <3> QED
      BY <2>3, <3>1, <3>2 DEF SpoilsMemo
  <2> QED
    BY <1>0, <2>1, <2>2, <2>3, GrowsFlow, EndsFlow DEF FlowInv
<1>5. ASSUME NEW ins \in {PLAIN, MEMO}, handle_transfer_pairs(ins) PROVE FlowInv'
  <2>1. InReleases /\ reply # Owed /\ ctx \in Loaded /\ ctx.state = "TRANSFER_PAIRS" /\ UNCHANGED txConst
    BY <1>0, <1>5, PairsParts
  <2>2. ctx.inPacket = 0 /\ screen.cb \in {"home", "stale"} /\ screen.items = {}
    BY <1>0, <2>1, NothingBuffered, BetweenScreens DEF FlowInv
  <2>3. Accepted /\ path' = path
    BY <2>1, <2>2 DEF Accepted, txConst
  <2>4. ASSUME NEW pairs \in Seq(Vals), Len(pairs) = PairsInPacket(ctx),
               \/ /\ Refilled(ctx, pairs).inPacket = 0
                  /\ Ack(latch, Refilled(ctx, pairs)) /\ UNCHANGED hash
               \/ Takes(Refilled(ctx, pairs))
        PROVE  FlowInv'
    <3> DEFINE c == Refilled(ctx, pairs)
    <3>1. c \in Loaded /\ Agrees(c)
      BY <2>1, <2>2, <2>4, RefilledKnown
    <3> HIDE DEF c
    <3>2. CASE c.inPacket = 0 /\ Ack(latch, c) /\ UNCHANGED hash
      <4>1. latch' = latch /\ ctx' = c /\ screen' = screen /\ hash' = hash
        BY <3>2 DEF Ack
      <4>2. ctx' \in Loaded /\ Agrees(ctx') /\ ctx'.inPacket = 0
        BY <3>1, <3>2, <4>1
      <4>3. screen'.cb \in {"home", "stale"} /\ screen'.items = {}
        BY <2>2, <4>1
      <4> QED
        BY <1>0, <2>1, <2>3, <4>1, <4>2, <4>3, WaitsFlow
    <3>3. CASE Takes(c)
      BY <1>0, <2>1, <2>3, <3>1, <3>3, TakesFlow
    <3> QED
      BY <2>4, <3>2, <3>3 DEF c
  <2>5. \/ Throw
        \/ \E pairs \in Seq(Vals) :
              /\ Len(pairs) = PairsInPacket(ctx)
              /\ \/ /\ Refilled(ctx, pairs).inPacket = 0
                    /\ Ack(latch, Refilled(ctx, pairs)) /\ UNCHANGED hash
                 \/ Takes(Refilled(ctx, pairs))
    BY <1>0, <1>5, PairsParts
  <2> QED
    BY <1>1, <2>1, <2>4, <2>5
<1>6. CASE ScheduleWrongState
  BY <1>1, <1>6 DEF ScheduleWrongState, Enters, Delivered
<1>7. CASE confirmInitialScheduledTransfer
  <2>1. /\ InReleases /\ screen.cb = "initial"
        /\ Accepted /\ UNCHANGED <<latch, hash, path>>
        /\ ctx' = [ctx EXCEPT !.state = "TRANSFER_PAIRS"] /\ screen' = Stale
    BY <1>0, <1>7, ConfirmParts
  <2>2. ctx \in Loaded /\ "TRANSFER_PAIRS" \in ScheduleStates
    BY <1>0, <2>1, InReleasesLoaded DEF ScheduleStates
  <2>3. ctx.inPacket = 0
    <3>1. ctx.inPacket \in Nat
      BY <2>2, LoadedFields, ScheduleAssumption
    <3> QED
      BY <2>1, <3>1 DEF FlowInv, ReleasesInv
  <2>4. /\ ctx' \in Loaded /\ ctx'.state = "TRANSFER_PAIRS" /\ ctx'.cbor = ctx.cbor
        /\ ctx'.inPacket = ctx.inPacket /\ ctx'.remaining = ctx.remaining
    BY <2>1, <2>2, StateKnown
  <2>5. Agrees(ctx')
    BY <2>4 DEF Agrees
  <2>6. screen'.cb \in {"home", "stale"} /\ screen'.items = {}
    BY <2>1 DEF Stale
  <2> QED
    BY <1>0, <2>1, <2>3, <2>4, <2>5, <2>6, WaitsFlow
<1>8. CASE processNextScheduledAmountContinue
  <2>1. InReleases /\ Accepted /\ path' = path
    BY <1>0, <1>8, ContinueParts
  <2>2. ctx \in Loaded /\ Agrees(ctx)
    BY <1>0, <2>1, InReleasesLoaded, ItselfAgrees
  <2>3. CASE ctx.inPacket = 0 /\ screen' = Stale /\ UNCHANGED <<latch, ctx, hash>>
    <3>1. screen'.cb \in {"home", "stale"} /\ screen'.items = {}
      BY <2>3 DEF Stale
    <3>2. ctx' \in Loaded /\ Agrees(ctx') /\ ctx'.inPacket = 0
      BY <2>2, <2>3
    <3> QED
      BY <1>0, <2>1, <2>3, <3>1, <3>2, WaitsFlow
  <2>4. CASE CallbackThrow
    BY <2>4, ClosedFlow DEF CallbackThrow, ui_menu_main, Home
  <2>5. CASE Takes(ctx)
    BY <1>0, <2>1, <2>2, <2>5, TakesFlow
  <2> QED
    BY <1>0, <1>8, <2>3, <2>4, <2>5, ContinueParts
<1>9. CASE buildAndSignTransactionHash \/ SigningFails \/ DeclineSchedule
  <2>1. latch' = NONE /\ screen' = Home
    BY <1>9, EndingParts
  <2> QED
    BY <2>1, ClosedFlow DEF Home, NONE, PLAIN, MEMO
<1>10. CASE Shell({PLAIN, MEMO})
  <2>1. /\ reply # Owed /\ UNCHANGED noFlow /\ screen' = screen
        /\ \/ UNCHANGED <<latch, ctx>>
           \/ latch' \in {NONE, "GET_APP_NAME"}
           \/ ctx' = Wiped
    BY <1>10, ShellParts
  <2>2. CASE UNCHANGED <<latch, ctx>>
    BY <2>1, <2>2, SameFlow DEF noFlow
  <2>3. CASE latch' \in {NONE, "GET_APP_NAME"} \/ ctx' = Wiped
    <3>1. latch' \notin {PLAIN, MEMO} \/ ctx' = Wiped
      BY <2>3 DEF NONE, PLAIN, MEMO
    <3> QED
      BY <1>0, <2>1, <3>1, BetweenScreens, ClosedFlow
  <2> QED
    BY <2>1, <2>2, <2>3
<1>11. CASE Restart
  BY <1>11, ClosedFlow DEF Restart, Home
<1>12. CASE UNCHANGED deviceVars
  BY <1>12, SameFlow DEF deviceVars
<1> QED
  BY <1>2, <1>3, <1>4, <1>5, <1>6, <1>7, <1>8, <1>9, <1>10, <1>11, <1>12
     DEF ScheduleNext, SchedulePacket, ScheduleButton

-----------------------------------------------------------------------------
(* Answers.  A step answers a command at once, draws a review, settles one, *)
(* or signs.                                                               *)

Quiet ==
    /\ reply # Owed
    /\ screen' = screen /\ keyPending' = FALSE
    /\ reply' \in {Refused, Success(<< >>)} \/ UNCHANGED <<reply, approved>>

Draws ==
    /\ reply' = Owed
    /\ screen'.cb \in {"initial", "next", "sign"} /\ keyPending' = FALSE

Settles ==
    /\ reply' \in PlainAnswers
    /\ screen'.cb \in {"home", "stale"} /\ keyPending' = FALSE

Signs ==
    /\ screen.cb = "sign"
    /\ screen' = Home /\ keyPending' = FALSE
    /\ reply' = Success(<<"signature", hash, path>>)
    /\ approved' = approved \cup screen.items

LEMMA TakesIsDrawn ==
    ASSUME AnswerInv, NEW c \in Loaded, Takes(c)
    PROVE  Draws
<1>1. reply' = Owed /\ keyPending' = FALSE
  BY DEF Takes, Review, AnswerInv
<1> QED
  BY <1>1, TakesDraws DEF Draws

LEMMA Shapes ==
    ASSUME Gated, AnswerInv, Typed, FlowInv, ScheduleNext
    PROVE  Quiet \/ Draws \/ Settles \/ Signs
<1>0. FlowTypes /\ NeverInitial /\ OnScreen /\ ctx \in Loaded \cup {Wiped} /\ keyPending = FALSE
  BY DEF Typed, FlowTypes, FlowInv, AnswerInv
<1>1. ASSUME reply # Owed, Throw \/ (\E d : send_rejection(d)) \/ (\E ins, c : Ack(ins, c)) PROVE Quiet
  <2>1. screen' = screen /\ keyPending' = keyPending /\ reply' \in {Refused, Success(<< >>)}
    BY <1>1, Zenon DEF Throw, send_rejection, Ack
  <2> QED
    BY <1>0, <1>1, <2>1 DEF Quiet
<1>2. ASSUME NEW ins, NEW c, NEW d, NEW s, NEW m,
             Review(ins, c, startInitialScheduledTransferDisplay(d, s, m)) PROVE Draws
  BY <1>0, <1>2 DEF Review, startInitialScheduledTransferDisplay, Draws
<1>3. CASE ScheduleInitial
  <2>1. PICK h \in Headers, p \in Paths, r \in Vals, n \in 0 .. CountMax :
           reply # Owed /\ (Opens(h, p, r, n) \/ Throw)
    BY <1>0, <1>3, InitialParts DEF HeaderThrows
  <2> QED
    BY <1>1, <1>2, <2>1 DEF Opens
<1>4. CASE ScheduleInitialWithMemo
  <2>1. PICK h, p, r, n, m : reply # Owed /\ (Announces(h, p, r, n, m) \/ Throw)
    BY <1>0, <1>4, WithMemoParts DEF HeaderThrows
  <2> QED
    BY <1>1, <2>1 DEF Announces
<1>5. CASE ScheduleMemo
  <2>1. PICK v, n : reply # Owed /\ (GrowsMemo(v, n) \/ EndsMemo(v, n) \/ SpoilsMemo(v, n))
    BY <1>0, <1>5, MemoParts
  <2> QED
    BY <1>1, <1>2, <2>1 DEF GrowsMemo, EndsMemo, SpoilsMemo
<1>6. ASSUME NEW ins \in {PLAIN, MEMO}, handle_transfer_pairs(ins) PROVE Quiet \/ Draws
  <2>1. InReleases /\ reply # Owed /\ ctx \in Loaded /\ ctx.state = "TRANSFER_PAIRS"
    BY <1>0, <1>6, PairsParts
  <2>2. ctx.inPacket = 0
    BY <2>1, NothingBuffered DEF FlowInv
  <2>3. CASE Throw \/ \E c : Ack(latch, c)
    BY <1>1, <2>1, <2>3
  <2>4. ASSUME NEW pairs \in Seq(Vals), Len(pairs) = PairsInPacket(ctx), Takes(Refilled(ctx, pairs))
        PROVE  Draws
    BY <2>1, <2>2, <2>4, RefilledKnown, TakesIsDrawn
  <2> QED
    BY <1>0, <1>6, <2>3, <2>4, PairsParts
<1>7. CASE ScheduleWrongState
  BY <1>1, <1>7 DEF ScheduleWrongState, Enters, Delivered
<1>8. CASE confirmInitialScheduledTransfer
  BY <1>0, <1>8, ConfirmParts DEF Settles, Stale, PlainAnswers
<1>9. CASE processNextScheduledAmountContinue
  <2>1. CASE reply' = Success(<< >>) /\ screen' = Stale /\ UNCHANGED keyPending
    BY <1>0, <2>1 DEF Settles, Stale, PlainAnswers
  <2>2. CASE CallbackThrow
    BY <2>2 DEF CallbackThrow, ui_menu_main, Home, Settles, PlainAnswers
  <2>3. CASE InReleases /\ Takes(ctx)
    BY <1>0, <2>3, InReleasesLoaded, TakesIsDrawn
  <2> QED
    BY <1>0, <1>9, <2>1, <2>2, <2>3, ContinueParts
<1>10. CASE buildAndSignTransactionHash \/ SigningFails \/ DeclineSchedule
  <2>1. /\ screen' = Home /\ keyPending' = FALSE
        /\ \/ reply' \in {Refused, Declined}
           \/ /\ screen.cb = "sign" /\ approved' = approved \cup screen.items
              /\ reply' = Success(<<"signature", hash, path>>)
    BY <1>10, EndingParts
  <2> QED
    BY <2>1 DEF Home, Settles, Signs, PlainAnswers
<1>11. CASE Shell({PLAIN, MEMO})
  BY <1>11, ShellParts DEF Quiet, noFlow
<1>12. CASE Restart
  BY <1>12 DEF Restart, Settles, Home, PlainAnswers
<1> QED
  BY <1>3, <1>4, <1>5, <1>6, <1>7, <1>8, <1>9, <1>10, <1>11, <1>12
     DEF ScheduleNext, SchedulePacket, ScheduleButton

LEMMA AnswerInvStep ==
    ASSUME Gated, AnswerInv, Typed, FlowInv, [ScheduleNext]_deviceVars
    PROVE  AnswerInv'
<1>1. Refused # Owed /\ Refused.sw # "owed" /\ Success(<< >>) # Owed /\ Success(<< >>).sw # "owed"
  BY PlainAnswer DEF PlainAnswers
<1>2. CASE UNCHANGED deviceVars
  BY <1>2 DEF deviceVars, AnswerInv, ScheduleReplyOwedIffReviewUp
<1>3. CASE Quiet
  <2>1. reply' # Owed /\ reply'.sw # "owed" /\ screen' = screen /\ keyPending' = FALSE
    BY <1>1, <1>3 DEF Quiet, AnswerInv
  <2> QED
    BY <1>3, <2>1 DEF Quiet, AnswerInv, ScheduleReplyOwedIffReviewUp
<1>4. CASE Draws
  BY <1>4 DEF Draws, AnswerInv, ScheduleReplyOwedIffReviewUp
<1>5. CASE Settles
  <2>1. reply' # Owed /\ reply'.sw # "owed"
    BY <1>5, PlainAnswer DEF Settles
  <2> QED
    BY <1>5, <2>1 DEF Settles, AnswerInv, ScheduleReplyOwedIffReviewUp
<1>6. CASE Signs
  <2>1. reply' # Owed /\ reply'.sw = "success" /\ screen'.cb = "home" /\ keyPending' = FALSE
    BY <1>6, SignatureAnswer DEF Signs, Home
  <2> QED
    BY <2>1 DEF AnswerInv, ScheduleReplyOwedIffReviewUp
<1> QED
  BY <1>2, <1>3, <1>4, <1>5, <1>6, Shapes

-----------------------------------------------------------------------------
(* What is signed. *)

SignedInv == ScheduleSignedWasReviewed /\ ScheduleSignedIsComplete

LEMMA ReleasesFollow ==
    ASSUME NEW s \in Seq(ScheduleItem), NEW b \in Nat, NEW n \in Nat, n > 0, ReleasesIn(s, b, n)
    PROVE  IsReleases(SubSeq(s, b + 1, Len(s)), n)
<1> DEFINE t == SubSeq(s, b + 1, Len(s))
<1>1. Len(s) = b + 2 * n /\ Len(s) \in Nat
  BY DEF ReleasesIn
<1>2. Len(t) = 2 * n /\ \A i \in 1 .. 2 * n : t[i] = s[b + i]
  BY <1>1
<1> HIDE DEF t
<1>3. ASSUME NEW k \in 1 .. n
      PROVE  t[2 * k - 1] = <<"time", k, t[2 * k][3]>> /\ t[2 * k][1] = "amount"
  <2>1. PICK v \in Vals : s[b + 2 * k - 1] = <<"time", k, v>> /\ s[b + 2 * k] = <<"amount", k, v>>
    BY DEF ReleasesIn
  <2>2. 2 * k - 1 \in 1 .. 2 * n /\ 2 * k \in 1 .. 2 * n /\ b + (2 * k - 1) = b + 2 * k - 1
    OBVIOUS
  <2>3. t[2 * k - 1] = s[b + 2 * k - 1] /\ t[2 * k] = s[b + 2 * k]
    BY <1>2, <2>2
  <2> QED
    BY <2>1, <2>3
<1> QED
  BY <1>2, <1>3 DEF IsReleases, t

\* With nothing left in the buffer or to be sent, the transcript is whole.
LEMMA AllTakenIsWhole ==
    ASSUME hash \in Seq(ScheduleItem), NEW ins \in {PLAIN, MEMO}, NEW c \in Loaded, Accounted(ins, c),
           c.inPacket = 0, c.remaining = 0, Taken > 0
    PROVE  IsSchedule(hash)
<1> DEFINE b == Base(ins, c)
<1>1. /\ HeadIn(hash, b, ins, c) /\ ReleasesIn(hash, b, Taken)
      /\ Taken + 0 + 0 = hash[b][2]
      /\ BlobOf(hash) = IF ins = MEMO THEN c.cbor.buf ELSE << >>
  BY DEF Accounted
<1>2. ins = PLAIN => b = 4
  BY DEF Base
<1>3. ins = MEMO => b = 5 + Len(c.cbor.buf)
  BY DEF Base, PLAIN, MEMO
<1> HIDE DEF b
<1>4. /\ b \in Nat /\ 4 <= b /\ Taken \in Nat /\ Len(hash) = b + 2 * Taken /\ hash[b][2] = Taken
      /\ hash[1][1] = "header" /\ hash[2] = <<"kind", ins>> /\ hash[3][1] = "to" /\ hash[b][1] = "count"
  BY <1>1 DEF HeadIn, ReleasesIn
<1>5. IsReleases(SubSeq(hash, b + 1, Len(hash)), hash[b][2])
  BY <1>1, <1>4, ReleasesFollow
<1>6. Len(hash) > 4 /\ Len(hash) > b
  BY <1>4
<1>7. CASE ins = PLAIN
  <2>1. b + 1 = 5
    BY <1>2, <1>7
  <2> QED
    BY <1>2, <1>4, <1>5, <1>6, <1>7, <2>1 DEF IsSchedule
<1>8. CASE ins = MEMO
  <2>1. BlobOf(hash) = c.cbor.buf /\ b = 5 + Len(BlobOf(hash))
    BY <1>1, <1>3, <1>8
  <2>2. /\ hash[4] = <<"cborLength", BufLen(BlobOf(hash))>> /\ BufLen(BlobOf(hash)) > 0
        /\ \A i \in 5 .. b - 1 : IsCbor(hash[i])
    BY <1>1, <1>8, <2>1 DEF HeadIn
  <2>3. hash[4][1] = "cborLength" /\ hash[4][2] = BufLen(BlobOf(hash)) /\ hash[4][2] > 0
    BY <2>2
  <2> QED
    BY <1>4, <1>5, <1>6, <1>8, <2>1, <2>2, <2>3 DEF IsSchedule
<1> QED
  BY <1>7, <1>8

LEMMA SignedInvStep ==
    ASSUME Gated, AnswerInv, Typed, FlowInv, SignedInv, [ScheduleNext]_deviceVars
    PROVE  SignedInv'
<1>1. CASE UNCHANGED <<reply, approved>>
  BY <1>1 DEF SignedInv, ScheduleSignedWasReviewed, ScheduleSignedIsComplete, HasSignature,
         SignedItems, SigningPath
<1>2. CASE NoSignature(reply')
  BY <1>2 DEF NoSignature, SignedInv, ScheduleSignedWasReviewed, ScheduleSignedIsComplete, HasSignature
<1>3. CASE Signs
  <2>1. SignedItems' = hash /\ SigningPath' = path /\ approved' = approved \cup screen.items
    BY <1>3 DEF Signs, SignedItems, SigningPath, Success
  <2>2. InReleases /\ ctx.remaining = 0 /\ ctx.inPacket = 0 /\ Taken > 0
    BY <1>3 DEF Signs, FlowInv, OnScreen, ReviewUp
  <2>3. Accounted(latch, ctx) /\ latch \in {PLAIN, MEMO} /\ ctx \in Loaded /\ hash \in Seq(ScheduleItem)
    BY <2>2, InReleasesLoaded DEF FlowInv, ReleasesInv, InReleases, Typed, FlowTypes
  <2>4. IsSchedule(hash)
    BY <2>2, <2>3, AllTakenIsWhole
  <2>5. ScheduleRows(hash) \subseteq approved' /\ <<"network", NetworkOf(path)>> \in approved'
    BY <2>1, <2>2 DEF FlowInv, OnScreen
  <2> QED
    BY <2>1, <2>4, <2>5 DEF SignedInv, ScheduleSignedWasReviewed, ScheduleSignedIsComplete
<1>4. UNCHANGED <<reply, approved>> \/ NoSignature(reply') \/ Signs
  <2>1. CASE UNCHANGED deviceVars
    BY <2>1 DEF deviceVars
  <2>2. NoSignature(Owed) /\ \A r \in PlainAnswers : NoSignature(r)
    BY PlainAnswer, OwedAnswer
  <2>3. CASE Quiet \/ Draws \/ Settles
    BY <2>2, <2>3 DEF Quiet, Draws, Settles, PlainAnswers
  <2> QED
    BY <2>1, <2>3, Shapes
<1> QED
  BY <1>1, <1>2, <1>3, <1>4

ScheduleInv == AnswerInv /\ Typed /\ FlowInv /\ SignedInv

LEMMA ScheduleInvStep ==
    ASSUME Gated, ScheduleInv, [ScheduleNext]_deviceVars PROVE ScheduleInv'
  BY AnswerInvStep, TypedStep, FlowInvStep, SignedInvStep DEF ScheduleInv

LEMMA ScheduleInvInit == ASSUME DeviceInit PROVE ScheduleInv
<1>1. /\ latch = NONE /\ ctx = Wiped /\ screen = Home /\ reply = Idle /\ keyPending = FALSE
      /\ hash = << >>
  BY DEF DeviceInit
<1>2. AnswerInv
  BY <1>1 DEF AnswerInv, ScheduleReplyOwedIffReviewUp, Home, Idle, Owed
<1>3. Typed
  BY <1>1 DEF DeviceInit, Typed, FlowTypes, NeverInitial, AccountTexts, NoAccount, Networks, NONE
<1>4. FlowInv
  <2>1. ~InMemo /\ ~InReleases /\ ~ReviewUp /\ screen.items = {} /\ screen.cb # "sign"
    BY <1>1 DEF InMemo, InReleases, ReviewUp, Home
  <2> QED
    BY <2>1 DEF FlowInv, MemoInFlight, ReleasesInv, OnScreen, FreshReleases
<1>5. SignedInv
  BY <1>1 DEF SignedInv, ScheduleSignedWasReviewed, ScheduleSignedIsComplete, HasSignature, Idle
<1> QED
  BY <1>2, <1>3, <1>4, <1>5 DEF ScheduleInv

LEMMA ScheduleInvHolds == ASSUME Gated PROVE ScheduleSpec => []ScheduleInv
<1>1. DeviceInit => ScheduleInv
  BY ScheduleInvInit
<1>2. ScheduleInv /\ [ScheduleNext]_deviceVars => ScheduleInv'
  BY ScheduleInvStep
<1> QED
  BY <1>1, <1>2, PTL DEF ScheduleSpec

\* The counters of releases stay in range, the buffer holds exactly the releases
\* that are still to be taken from it, and a memo never outgrows its buffer.
THEOREM ScheduleTypeCorrect == ASSUME Gated PROVE ScheduleSpec => []ScheduleTypeOK
<1>1. ScheduleInv => ScheduleTypeOK
  <2> SUFFICES ASSUME ScheduleInv PROVE ScheduleTypeOK
    OBVIOUS
  <2>1. FlowTypes /\ AnswerInv
    BY DEF ScheduleInv, Typed
  <2>2. ctx \in ScheduleContext \cup {Wiped}
    BY <2>1, LoadedFields DEF FlowTypes
  <2>3. ctx # Wiped => Len(ctx.buffer) = ctx.inPacket /\ BufLen(ctx.cbor.buf) <= CborMax
    BY <2>1, LoadedFields DEF FlowTypes
  <2> QED
    BY <2>1, <2>2, <2>3 DEF ScheduleTypeOK, FlowTypes, AnswerInv, AccountTexts
<1> QED
  BY <1>1, ScheduleInvHolds, PTL

\* A command is left unanswered exactly while a review that answers it is up.
THEOREM ScheduleAnswersMatchReviews ==
    ASSUME Gated PROVE ScheduleSpec => []ScheduleReplyOwedIffReviewUp
<1>1. ScheduleInv => ScheduleReplyOwedIffReviewUp
  BY DEF ScheduleInv, AnswerInv
<1> QED
  BY <1>1, ScheduleInvHolds, PTL

\* What you see is what you sign: sender, energy, recipient, memo and every
\* single release of a signed transfer were on screens that were accepted.
THEOREM SignedScheduleWasReviewed ==
    ASSUME Gated PROVE ScheduleSpec => []ScheduleSignedWasReviewed
<1>1. ScheduleInv => ScheduleSignedWasReviewed
  BY DEF ScheduleInv, SignedInv
<1> QED
  BY <1>1, ScheduleInvHolds, PTL

\* A signature is only ever made over exactly as many releases as were
\* announced, in order, none dropped, repeated or left for later, however the
\* host splits them into packets.
THEOREM SignedScheduleIsComplete ==
    ASSUME Gated PROVE ScheduleSpec => []ScheduleSignedIsComplete
<1>1. ScheduleInv => ScheduleSignedIsComplete
  BY DEF ScheduleInv, SignedInv
<1> QED
  BY <1>1, ScheduleInvHolds, PTL

-----------------------------------------------------------------------------
(* The flow implements the contract of a signing instruction. *)

Extended == Len(hash) <= Len(hash') /\ SubSeq(hash', 1, Len(hash)) = hash

LEMMA FeedExtends ==
    ASSUME hash \in Seq(ScheduleItem)
    PROVE  /\ UNCHANGED hash => Extended
           /\ \A x \in ScheduleItem : Feed(<<x>>) => Extended
           /\ \A x, y \in ScheduleItem : Feed(<<x, y>>) => Extended
<1>1. ASSUME hash' \in Seq(ScheduleItem), Len(hash) <= Len(hash'),
             \A i \in 1 .. Len(hash) : hash'[i] = hash[i]
      PROVE  Extended
  BY <1>1 DEF Extended
<1>2. ASSUME NEW x \in ScheduleItem, Feed(<<x>>) PROVE Extended
  <2>1. /\ hash' \in Seq(ScheduleItem) /\ Len(hash') = Len(hash) + 1
        /\ \A i \in 1 .. Len(hash) : hash'[i] = hash[i]
    BY <1>2, FeedOne
  <2> QED
    BY <1>1, <2>1
<1>3. ASSUME NEW x \in ScheduleItem, NEW y \in ScheduleItem, Feed(<<x, y>>) PROVE Extended
  <2>1. /\ hash' \in Seq(ScheduleItem) /\ Len(hash') = Len(hash) + 2
        /\ \A i \in 1 .. Len(hash) : hash'[i] = hash[i]
    BY <1>3, FeedTwo
  <2> QED
    BY <1>1, <2>1
<1> QED
  BY <1>1, <1>2, <1>3

LEMMA TakesExtends ==
    ASSUME Typed, ReleasesInv, InReleases, NEW c \in Loaded, Agrees(c), Takes(c) \/ Stumbles(c)
    PROVE  Extended
<1>1. c.inPacket > 0
  BY DEF Takes, Stumbles
<1>2. NextOrdinal \in 1 .. CountMax
  BY <1>1, NextIsAnnounced DEF Typed
<1> DEFINE x == TimeOf(Head(c.buffer))
           y == AmountOf(Head(c.buffer))
<1>3. x \in ScheduleItem /\ y \in ScheduleItem /\ hash \in Seq(ScheduleItem)
  BY <1>1, <1>2, PullKnown, ScheduleItems DEF TimeOf, AmountOf, Typed, FlowTypes
<1>4. Feed(<<x>>) \/ Feed(<<x, y>>)
  BY DEF Takes, Stumbles
<1> HIDE DEF x, y
<1> QED
  BY <1>3, <1>4, FeedExtends

\* A packet begins a transcript, or adds to the one there is.
LEMMA PacketMoves ==
    ASSUME Gated, AnswerInv, Typed, FlowInv, SchedulePacket
    PROVE  reply # Owed /\ (approved' = {} \/ (approved' = approved /\ Extended))
<1>0. /\ FlowTypes /\ NeverInitial /\ ctx \in Loaded \cup {Wiped} /\ hash \in Seq(ScheduleItem)
      /\ MemoInFlight /\ ReleasesInv
  BY DEF Typed, FlowTypes, FlowInv
<1>1. CASE ScheduleInitial
  BY <1>0, <1>1, InitialParts DEF HeaderThrows, Opens, hashAccountTransactionHeaderAndKind
<1>2. CASE ScheduleInitialWithMemo
  BY <1>0, <1>2, WithMemoParts DEF HeaderThrows, Announces, hashAccountTransactionHeaderAndKind
<1>3. CASE ScheduleMemo
  <2>1. reply # Owed /\ ctx \in Loaded /\ UNCHANGED txConst
    BY <1>0, <1>3, MemoParts
  <2>2. PICK v \in Vals, n \in 1 .. CborChunkMax :
           GrowsMemo(v, n) \/ EndsMemo(v, n) \/ SpoilsMemo(v, n)
    BY <1>0, <1>3, MemoParts
  <2> DEFINE x == CborItem(v, n)
             y == <<"count", ctx.remaining>>
  <2>3. x \in ScheduleItem /\ y \in ScheduleItem
    BY <2>1, LoadedFields, ScheduleItems
  <2>4. Feed(<<x>>) \/ Feed(<<x, y>>)
    BY <2>2, EndsFeedsTwo DEF GrowsMemo, SpoilsMemo
  <2> HIDE DEF x, y
  <2>5. Extended
    BY <1>0, <2>3, <2>4, FeedExtends
  <2> QED
    BY <2>1, <2>5 DEF txConst
<1>4. ASSUME NEW ins \in {PLAIN, MEMO}, handle_transfer_pairs(ins)
      PROVE  reply # Owed /\ approved' = approved /\ Extended
  <2>1. /\ InReleases /\ reply # Owed /\ ctx \in Loaded /\ ctx.state = "TRANSFER_PAIRS"
        /\ UNCHANGED txConst
    BY <1>0, <1>4, PairsParts
  <2>2. ctx.inPacket = 0
    BY <1>0, <2>1, NothingBuffered
  <2>3. ASSUME NEW pairs \in Seq(Vals), Len(pairs) = PairsInPacket(ctx),
               Takes(Refilled(ctx, pairs)) \/ Stumbles(Refilled(ctx, pairs))
        PROVE  Extended
    BY <1>0, <2>1, <2>2, <2>3, RefilledKnown, TakesExtends
  <2>4. UNCHANGED hash \/ \E pairs \in Seq(Vals) :
           /\ Len(pairs) = PairsInPacket(ctx)
           /\ Takes(Refilled(ctx, pairs)) \/ Stumbles(Refilled(ctx, pairs))
    BY <1>0, <1>4, PairsParts
  <2> QED
    BY <1>0, <2>1, <2>3, <2>4, FeedExtends DEF txConst
<1>5. CASE ScheduleWrongState
  <2>1. reply # Owed /\ UNCHANGED <<hash, approved>>
    BY <1>5 DEF ScheduleWrongState, Enters, Delivered, noFlow
  <2> QED
    BY <1>0, <2>1, FeedExtends
<1> QED
  BY <1>1, <1>2, <1>3, <1>4, <1>5 DEF SchedulePacket

LEMMA PacketAnswers ==
    ASSUME Gated, ctx \in Loaded \cup {Wiped}, NeverInitial, SchedulePacket
    PROVE  reply' \in {Refused, Success(<< >>), Owed}
<1>1. CASE ScheduleInitial
  BY <1>1, InitialParts DEF HeaderThrows, Throw, Opens, Review
<1>2. CASE ScheduleInitialWithMemo
  BY <1>2, WithMemoParts DEF HeaderThrows, Throw, Announces, Ack
<1>3. CASE ScheduleMemo
  BY <1>3, MemoParts DEF GrowsMemo, EndsMemo, SpoilsMemo, Throw, send_rejection, Ack, Review
<1>4. ASSUME NEW ins \in {PLAIN, MEMO}, handle_transfer_pairs(ins)
      PROVE  reply' \in {Refused, Success(<< >>), Owed}
  BY <1>4, PairsParts DEF Throw, Ack, Takes, Review
<1>5. CASE ScheduleWrongState
  BY <1>5 DEF ScheduleWrongState, Throw
<1> QED
  BY <1>1, <1>2, <1>3, <1>4, <1>5 DEF SchedulePacket

\* Accepting a release is always accepting something new.
LEMMA AcceptsRelease ==
    ASSUME FlowInv, InReleases, screen.cb = "next", Accepted
    PROVE  approved' # approved /\ approved \subseteq approved'
<1>1. PICK v \in Vals : <<"amount", Taken, v>> \in screen.items
  BY DEF FlowInv, FreshReleases
<1>2. Taken \in Nat /\ Shown = Taken - 1
  BY DEF FlowInv, ReleasesInv, Accounted, ReleasesIn, Shown
<1>3. <<"amount", Taken, v>> \notin approved
  BY <1>2 DEF FlowInv, FreshReleases, AmountsUpTo
<1> QED
  BY <1>1, <1>3 DEF Accepted

LEMMA ScheduleHonoursContract ==
    ASSUME Gated, AnswerInv, Typed, FlowInv, [ScheduleNext]_deviceVars
    PROVE  [ScheduleContract!ContractNext]_(ScheduleContract!contractVars)
<1> USE DEF ScheduleContract!contractVars
<1>0. /\ hash \in Seq(ScheduleItem) /\ OnScreen /\ FlowTypes /\ ReleasesInv
      /\ (reply # Owed => reply.sw # "owed") /\ (screen.cb \in {"initial", "next", "sign"} => reply.sw = "owed")
  BY DEF Typed, FlowTypes, FlowInv, AnswerInv, ScheduleReplyOwedIffReviewUp, Owed
<1>1. CASE SchedulePacket
  <2>1. reply # Owed /\ (approved' = {} \/ (approved' = approved /\ Extended))
    BY <1>1, PacketMoves
  <2>2. ~(reply'.sw = "success" /\ reply'.body # << >>)
    <3>1. reply' \in {Refused, Success(<< >>), Owed}
      BY <1>1, PacketAnswers DEF Typed, FlowTypes
    <3> QED
      BY <3>1 DEF Refused, Success, Owed
  <2> QED
    BY <1>0, <2>1, <2>2 DEF ScheduleContract!ContractNext, ScheduleContract!Begin,
       ScheduleContract!Collect, ScheduleContract!Extended, ScheduleContract!IsOwed,
       ScheduleContract!IsSignature, Extended
<1>2. CASE buildAndSignTransactionHash
  <2>1. /\ screen.cb = "sign" /\ reply' = Success(<<"signature", hash, path>>)
        /\ approved' = approved \cup screen.items /\ hash' = hash
    BY <1>2 DEF buildAndSignTransactionHash, send_success
  <2>2. reply'.sw = "success" /\ reply'.body # << >> /\ reply'.body[2] = hash
    BY <2>1, SignatureAnswer
  <2>3. ScheduleRows(hash) \subseteq approved'
    BY <1>0, <2>1 DEF OnScreen, ReviewUp
  <2>4. ScheduleContract!Sign
    BY <1>0, <2>1, <2>2, <2>3 DEF ScheduleContract!Sign, ScheduleContract!IsOwed,
       ScheduleContract!IsSignature
  <2> QED
    BY <2>4 DEF ScheduleContract!ContractNext
<1>3. ASSUME screen.cb \in {"initial", "next", "sign"}, hash' = hash,
             reply' \in PlainAnswers, approved \subseteq approved'
      PROVE  ScheduleContract!ContractNext
  <2>1. reply'.sw # "owed" /\ ~(reply'.sw = "success" /\ reply'.body # << >>)
    BY <1>3, PlainAnswer
  <2>2. ScheduleContract!Resolve
    BY <1>0, <1>3, <2>1 DEF ScheduleContract!Resolve, ScheduleContract!IsOwed,
       ScheduleContract!IsSignature
  <2> QED
    BY <2>2 DEF ScheduleContract!ContractNext
<1>4. CASE SigningFails \/ DeclineSchedule
  <2>1. /\ screen.cb \in {"initial", "next", "sign"} /\ hash' = hash
        /\ approved \subseteq approved' /\ reply' \in {Refused, Declined}
    BY <1>4 DEF SigningFails, CallbackThrow, DeclineSchedule, UserDeclines, send_user_rejection, noFlow
  <2> QED
    BY <1>3, <2>1 DEF PlainAnswers
<1>5. CASE confirmInitialScheduledTransfer
  <2>1. /\ screen.cb = "initial" /\ hash' = hash /\ Accepted /\ reply' = Success(<< >>)
    BY <1>5 DEF confirmInitialScheduledTransfer
  <2> QED
    BY <1>3, <2>1 DEF PlainAnswers, Accepted
<1>6. CASE processNextScheduledAmountContinue
  <2>1. /\ InReleases /\ screen.cb = "next" /\ Accepted
        /\ \/ reply' = Success(<< >>) /\ hash' = hash
           \/ Stumbles(ctx) /\ CallbackThrow
           \/ Takes(ctx)
    BY <1>0, <1>6, ContinueParts
  <2>2. approved' # approved /\ approved \subseteq approved'
    BY <2>1, AcceptsRelease
  <2>3. CASE reply' = Success(<< >>) /\ hash' = hash
    BY <1>3, <2>1, <2>2, <2>3 DEF PlainAnswers
  <2>4. CASE (Stumbles(ctx) /\ CallbackThrow) \/ Takes(ctx)
    <3>1. Extended
      BY <1>0, <2>1, <2>4, InReleasesLoaded, ItselfAgrees, TakesExtends
    <3>2. reply' \in {Refused, Owed}
      BY <2>4 DEF CallbackThrow, Takes, Review
    <3>3. ~(reply'.sw = "success" /\ reply'.body # << >>)
      BY <3>2 DEF Refused, Owed
    <3>4. ScheduleContract!Resolve
      BY <1>0, <2>1, <2>2, <3>1, <3>3 DEF ScheduleContract!Resolve, ScheduleContract!IsOwed,
         ScheduleContract!IsSignature, ScheduleContract!Extended, Extended
    <3> QED
      BY <3>4 DEF ScheduleContract!ContractNext
  <2> QED
    BY <2>1, <2>3, <2>4
<1>7. CASE Shell({PLAIN, MEMO})
  <2>1. reply # Owed /\ UNCHANGED <<hash, approved>> /\ reply' \in {reply, Refused, Success(<< >>)}
    BY <1>7, ShellParts DEF noFlow
  <2>2. CASE reply' = reply
    BY <2>1, <2>2
  <2>3. CASE reply' \in PlainAnswers
    <3>1. ~(reply'.sw = "success" /\ reply'.body # << >>) /\ Extended
      BY <1>0, <2>1, <2>3, PlainAnswer, FeedExtends
    <3>2. ScheduleContract!Collect
      BY <1>0, <2>1, <3>1 DEF ScheduleContract!Collect, ScheduleContract!Extended,
         ScheduleContract!IsOwed, ScheduleContract!IsSignature, Extended
    <3> QED
      BY <3>2 DEF ScheduleContract!ContractNext
  <2> QED
    BY <2>1, <2>2, <2>3 DEF PlainAnswers
<1>8. CASE Restart
  <2>1. reply' = Idle /\ approved' = {} /\ hash' = << >>
    BY <1>8 DEF Restart
  <2> QED
    BY <2>1 DEF ScheduleContract!ContractNext, ScheduleContract!Begin, ScheduleContract!IsOwed,
       ScheduleContract!IsSignature, Idle
<1>9. CASE UNCHANGED deviceVars
  BY <1>9 DEF deviceVars
<1> QED
  BY <1>1, <1>2, <1>4, <1>5, <1>6, <1>7, <1>8, <1>9 DEF ScheduleNext, ScheduleButton

\* The scheduled transfer implements the contract of a signing instruction:
\* every step of it begins a transcript, adds to it, settles a review or signs
\* the whole of it.  When Continue hashes the next buffered release while an
\* answer is owed, it does so against a release that was not accepted before.
THEOREM ScheduleFlowHonoursContract ==
    ASSUME Gated PROVE ScheduleSpec => ScheduleImplementsContract
<1>1. DeviceInit => ScheduleContract!ContractInit
  BY DEF DeviceInit, ScheduleContract!ContractInit, ScheduleContract!IsOwed,
     ScheduleContract!IsSignature, Idle
<1>2. ScheduleInv /\ [ScheduleNext]_deviceVars
        => [ScheduleContract!ContractNext]_(ScheduleContract!contractVars)
  BY ScheduleHonoursContract DEF ScheduleInv
<1> QED
  BY <1>1, <1>2, ScheduleInvHolds, PTL
     DEF ScheduleSpec, ScheduleImplementsContract, ScheduleContract!ContractSpec
=============================================================================
