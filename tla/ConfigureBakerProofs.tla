------------------------ MODULE ConfigureBakerProofs ------------------------
(***************************************************************************)
(* Theorems about ConfigureBaker, for every set of headers, paths, values  *)
(* and bitmaps and every URL and packet length.                            *)
(***************************************************************************)
EXTENDS ConfigureBaker, FlowLemmas

-----------------------------------------------------------------------------
(* Types of what is hashed and shown. *)

LEMMA ItemTypes ==
    /\ \A h \in Headers : <<"header", h>> \in BakerItem
    /\ <<"kind", BAKER>> \in BakerItem
    /\ \A b \in Bitmaps : <<"bitmap", b>> \in BakerItem
    /\ \A t \in ValueTags, v \in Vals : <<t, v>> \in BakerItem
    /\ \A n \in 0 .. UrlMax : <<"urlLength", n>> \in BakerItem
    /\ \A v \in Vals, n \in 1 .. ChunkMax : <<"url", v, n>> \in BakerItem
<1>1. \A h \in Headers : <<"header", h>> \in {"header"} \X Headers
  OBVIOUS
<1>2. \A b \in Bitmaps : <<"bitmap", b>> \in {"bitmap"} \X Bitmaps
  OBVIOUS
<1>3. \A t \in ValueTags, v \in Vals : <<t, v>> \in ValueTags \X Vals
  OBVIOUS
<1>4. \A n \in 0 .. UrlMax : <<"urlLength", n>> \in {"urlLength"} \X (0 .. UrlMax)
  OBVIOUS
<1>5. \A v \in Vals, n \in 1 .. ChunkMax : <<"url", v, n>> \in {"url"} \X Vals \X (1 .. ChunkMax)
  OBVIOUS
<1>. QED  BY <1>1, <1>2, <1>3, <1>4, <1>5, Zenon DEF BakerItem

LEMMA ShownTypes ==
    ASSUME TypeOK
    PROVE  /\ BakerItem \subseteq ShownItem
           /\ addAccountHeaderPairs \subseteq ShownItem
<1>1. BakerItem \subseteq ShownItem
  BY DEF ShownItem
<1>2. account.header \in Headers \cup {"none"} /\ account.network \in Networks
  BY DEF TypeOK, TranscriptTypes
<1>3. <<"header", account.header>> \in ShownItem
  <2>1. CASE account.header \in Headers
    BY <2>1, <1>1, ItemTypes
  <2>2. CASE account.header = "none"
    BY <2>2 DEF ShownItem
  <2>. QED  BY <1>2, <2>1, <2>2
<1>4. <<"network", account.network>> \in ShownItem
  BY <1>2 DEF ShownItem
<1>. QED  BY <1>1, <1>3, <1>4 DEF addAccountHeaderPairs, HeaderPairs

LEMMA FieldTypes ==
    ASSUME NEW c, NEW v \in Vals, NEW k \in Vals
    PROVE  /\ DisplayedFirst(c, v) \in Seq(BakerItem)
           /\ FirstBatchItems(c, v, k) \in Seq(BakerItem)
           /\ CommissionItems(c, v) \in Seq(BakerItem)
<1>1. \A t \in ValueTags : <<t, v>> \in BakerItem /\ <<t, k>> \in BakerItem
  BY ItemTypes
<1>2. \A t \in ValueTags : Declared(c, t, v) \in Seq(BakerItem)
  <2>. SUFFICES ASSUME NEW t \in ValueTags PROVE Declared(c, t, v) \in Seq(BakerItem)
    OBVIOUS
  <2>1. <<<<t, v>>>> \in Seq(BakerItem)
    BY <1>1, SingletonSeq, Zenon
  <2>2. << >> \in Seq(BakerItem)
    OBVIOUS
  <2>. QED  BY <2>1, <2>2, Zenon DEF Declared
<1>3. DisplayedFirst(c, v) \in Seq(BakerItem)
  BY <1>2 DEF DisplayedFirst, ValueTags
<1>4. CommissionItems(c, v) \in Seq(BakerItem)
  BY <1>2 DEF CommissionItems, ValueTags
<1>5. <<<<"electionKey", k>>, <<"electionProof", k>>,
        <<"signatureKey", k>>, <<"signatureProof", k>>>> \in Seq(BakerItem)
  BY <1>1 DEF ValueTags
<1>6. FirstBatchItems(c, v, k) \in Seq(BakerItem)
  BY <1>3, <1>5 DEF FirstBatchItems
<1>. QED  BY <1>3, <1>4, <1>6

LEMMA StageTypes ==
    ASSUME NEW c
    PROVE  AfterUrl(c) \in BakerStates /\ AfterFirst(c) \in BakerStates
           /\ AfterBitmap(c) \in BakerStates
BY DEF AfterUrl, AfterFirst, AfterBitmap, BakerStates

LEMMA ViewType ==
    ASSUME TypeOK
    PROVE  BakerView \in BakerContext
<1>1. BakerZero \in BakerContext /\ [BakerZero EXCEPT !.state = "INITIAL"] \in BakerContext
  <2>1. << >> \in Seq(BakerItem) /\ 0 \in 0 .. UrlMax /\ {} \in SUBSET Fields
    BY BakerAssumption
  <2>. QED  BY <2>1 DEF BakerZero, BakerContext, BakerStates, BAKER
<1>. QED  BY <1>1 DEF BakerView, TypeOK, ShellTypes

\* The ways a handler ends keep the types of what they set.
LEMMA EndingTypes ==
    ASSUME TypeOK
    PROVE  /\ \A c \in BakerContext : Ack(BAKER, c) => ShellTypes'
           /\ \A c \in BakerContext : send_rejection(c) => ShellTypes'
           /\ Throw => ShellTypes'
           /\ CallbackThrow => ShellTypes'
           /\ send_user_rejection /\ UNCHANGED ctx => ShellTypes'
<1>. << >> \in {<< >>} \cup ({"signature"} \X Seq(BakerItem) \X (Paths \cup {NoPath}))
  OBVIOUS
<1>. USE DEF TypeOK, ShellTypes, BakerReply, Success, Refused, Declined, ui_menu_main, Home
<1>1. \A c \in BakerContext : Ack(BAKER, c) => ShellTypes'
  BY DEF Ack
<1>2. \A c \in BakerContext : send_rejection(c) => ShellTypes'
  BY DEF send_rejection
<1>3. Throw => ShellTypes'
  BY DEF Throw
<1>4. CallbackThrow => ShellTypes'
  BY DEF CallbackThrow
<1>5. send_user_rejection /\ UNCHANGED ctx => ShellTypes'
  BY DEF send_user_rejection
<1>. QED  BY <1>1, <1>2, <1>3, <1>4, <1>5

LEMMA ReviewTypes ==
    ASSUME TypeOK, NEW d \in BakerContext, NEW next \in BakerStates,
           NEW continues, NEW items \in SUBSET ShownItem,
           ReviewStage(d, next, BakerScreen(continues, items))
    PROVE  ShellTypes'
<1>1. latch' = BAKER /\ keyPending' = FALSE
  BY DEF ReviewStage, Review, TypeOK, ShellTypes
<1>2. ctx' \in BakerContext
  BY DEF ReviewStage, Review, awaitConfigureBakerConfirm, BakerContext, BakerStates
<1>3. screen' \in [cb : {"home", "stale", "continue", "sign"}, items : SUBSET ShownItem]
  BY DEF ReviewStage, Review, BakerScreen
<1>4. reply' \in BakerReply
  BY DEF ReviewStage, Review, Owed, BakerReply
<1>. QED  BY <1>1, <1>2, <1>3, <1>4 DEF ShellTypes

\* Feeding items to the hash, all of them or a prefix.
LEMMA FeedTypes ==
    ASSUME TypeOK, NEW items \in Seq(BakerItem), UNCHANGED txConst,
           Feed(items) \/ (\E k \in 0 .. Len(items) : Feed(SubSeq(items, 1, k)))
    PROVE  TranscriptTypes'
<1>1. hash' \in Seq(BakerItem)
  <2>1. CASE Feed(items)
    BY <2>1 DEF Feed, TypeOK, TranscriptTypes
  <2>2. ASSUME NEW k \in 0 .. Len(items), Feed(SubSeq(items, 1, k))
        PROVE  hash' \in Seq(BakerItem)
    <3>1. SubSeq(items, 1, k) \in Seq(BakerItem)
      BY PrefixOfSeq
    <3>. QED  BY <3>1, <2>2 DEF Feed, TypeOK, TranscriptTypes
  <2>. QED  BY <2>1, <2>2
<1>. QED  BY <1>1 DEF txConst, TypeOK, TranscriptTypes

LEMMA ContextFields ==
    ASSUME NEW c \in BakerContext
    PROVE  /\ c.state \in BakerStates /\ c.pendingState \in BakerStates
           /\ c.blob \in Seq(BakerItem) /\ c.keysHash \in Seq(BakerItem)
           /\ c.urlLength \in 0 .. UrlMax /\ c.firstDisplay \in BOOLEAN
           /\ c.has \in SUBSET Fields
BY DEF BakerContext

\* What the screens of a stage show is made of items and header lines.
LEMMA DisplayTypes ==
    ASSUME TypeOK, NEW c \in BakerContext
    PROVE  /\ addAccountHeaderPairs \cup ItemsOf(c.blob) \cup ItemsOf(c.keysHash)
                  \subseteq ShownItem
           /\ HeaderOnFirstDisplay(c) \cup ItemsOf(c.blob) \subseteq ShownItem
           /\ HeaderOnFirstDisplay(c) \cup {<<"urlLength", 0>>} \subseteq ShownItem
<1>1. ItemsOf(c.blob) \subseteq ShownItem /\ ItemsOf(c.keysHash) \subseteq ShownItem
  BY ContextFields, ItemsOfSeq, ShownTypes, Zenon
<1>2. addAccountHeaderPairs \subseteq ShownItem /\ HeaderOnFirstDisplay(c) \subseteq ShownItem
  BY ShownTypes DEF HeaderOnFirstDisplay
<1>3. <<"urlLength", 0>> \in ShownItem
  <2>1. 0 \in 0 .. UrlMax
    BY BakerAssumption
  <2>. QED  BY <2>1, ItemTypes, ShownTypes, Zenon
<1>. QED  BY <1>1, <1>2, <1>3

LEMMA InitialTypes ==
    ASSUME TypeOK, BakerInitial
    PROVE  TypeOK'
<1>1. PICK h \in Headers, p \in Paths, has \in Bitmaps :
        LET c    == [BakerView EXCEPT !.has = has, !.firstDisplay = TRUE, !.keysHash = << >>]
            head == <<<<"kind", BAKER>>, <<"bitmap", has>>>>
        IN  \/ /\ hashAccountTransactionHeaderAndKind(h, p, head)
               /\ Ack(BAKER, [c EXCEPT !.state = AfterBitmap(c)])
            \/ HeaderThrows(h, p, head)
  BY DEF BakerInitial
<1>. DEFINE c    == [BakerView EXCEPT !.has = has, !.firstDisplay = TRUE, !.keysHash = << >>]
            head == <<<<"kind", BAKER>>, <<"bitmap", has>>>>
            full == <<<<"header", h>>>> \o head
<1>2. c \in BakerContext
  <2>1. << >> \in Seq(BakerItem) /\ has \in SUBSET Fields
    BY BakerAssumption
  <2>. QED  BY <2>1, ViewType DEF BakerContext
<1>3. [c EXCEPT !.state = AfterBitmap(c)] \in BakerContext
  BY <1>2, StageTypes DEF BakerContext
<1>4. head \in Seq(BakerItem) /\ full \in Seq(BakerItem) /\ Len(full) = Len(head) + 1
  <2>1. <<"header", h>> \in BakerItem /\ <<"kind", BAKER>> \in BakerItem
        /\ <<"bitmap", has>> \in BakerItem
    BY ItemTypes
  <2>. QED  BY <2>1
<1>5. [header |-> h, network |-> NetworkOf(p)] \in [header : Headers \cup {"none"}, network : Networks]
  BY DEF Networks
<1>. HIDE DEF c, head
<1>6. CASE hashAccountTransactionHeaderAndKind(h, p, head) /\ Ack(BAKER, [c EXCEPT !.state = AfterBitmap(c)])
  <2>1. ShellTypes'
    BY <1>3, <1>6, EndingTypes
  <2>2. TranscriptTypes'
    BY <1>4, <1>5, <1>6 DEF hashAccountTransactionHeaderAndKind, AccountSender, TranscriptTypes
  <2>. QED  BY <2>1, <2>2 DEF TypeOK
<1>7. CASE HeaderThrows(h, p, head)
  <2>1. ShellTypes'
    BY <1>7, EndingTypes DEF HeaderThrows
  <2>2. hash' \in Seq(BakerItem)
    <3>1. CASE hash' \in {hash, << >>}
      <4>1. << >> \in Seq(BakerItem)
        OBVIOUS
      <4>. QED  BY <3>1, <4>1, Zenon DEF TypeOK, TranscriptTypes
    <3>2. ASSUME NEW k \in 0 .. Len(full), hash' = SubSeq(full, 1, k)
          PROVE  hash' \in Seq(BakerItem)
      BY <3>2, <1>4, PrefixOfSeq
    <3>. QED  BY <1>4, <1>7, <3>1, <3>2 DEF HeaderThrows
  <2>3. TranscriptTypes'
    BY <1>5, <1>7, <2>2 DEF HeaderThrows, AccountSender, TypeOK, TranscriptTypes
  <2>. QED  BY <2>1, <2>3 DEF TypeOK
<1>. QED  BY <1>1, <1>6, <1>7 DEF c, head

LEMMA FirstBatchTypes ==
    ASSUME TypeOK, BakerFirstBatch
    PROVE  TypeOK'
<1>. DEFINE c == BakerView
<1>1. PICK v \in Vals, k \in Vals :
        LET d == [c EXCEPT !.blob = DisplayedFirst(c, v)]
        IN  /\ UNCHANGED txConst
            /\ \/ /\ Feed(FirstBatchItems(c, v, k))
                  /\ Ack(BAKER, [d EXCEPT
                         !.state = "AGGREGATION_KEY",
                         !.keysHash = @ \o <<<<"electionKey", k>>, <<"signatureKey", k>>>>])
               \/ /\ Feed(FirstBatchItems(c, v, k))
                  /\ ReviewStage(d, AfterFirst(c), startConfigureBakerDisplay(d))
               \/ ThrowAfterPrefix(FirstBatchItems(c, v, k))
  BY DEF BakerFirstBatch
<1>. DEFINE d == [c EXCEPT !.blob = DisplayedFirst(c, v)]
            e == [d EXCEPT !.state = "AGGREGATION_KEY",
                           !.keysHash = @ \o <<<<"electionKey", k>>, <<"signatureKey", k>>>>]
<1>2. c \in BakerContext /\ d \in BakerContext
  BY ViewType, FieldTypes DEF BakerContext
<1>3. e \in BakerContext
  <2>1. <<<<"electionKey", k>>, <<"signatureKey", k>>>> \in Seq(BakerItem)
    BY ItemTypes DEF ValueTags
  <2>. HIDE DEF c, d
  <2>2. d.keysHash \o <<<<"electionKey", k>>, <<"signatureKey", k>>>> \in Seq(BakerItem)
    BY <1>2, <2>1, ContextFields
  <2>. QED  BY <1>2, <2>2 DEF BakerContext, BakerStates
<1>. HIDE DEF c, d, e
<1>4. TranscriptTypes'
  BY <1>1, FieldTypes, FeedTypes DEF ThrowAfterPrefix
<1>5. CASE Ack(BAKER, e)
  BY <1>5, <1>3, <1>4, EndingTypes DEF TypeOK
<1>6. CASE ReviewStage(d, AfterFirst(c), startConfigureBakerDisplay(d))
  <2>1. ShellTypes'
    BY <1>6, <1>2, DisplayTypes, StageTypes, ReviewTypes DEF startConfigureBakerDisplay
  <2>. QED  BY <2>1, <1>4 DEF TypeOK
<1>7. CASE Throw
  BY <1>7, <1>4, EndingTypes DEF TypeOK
<1>. QED  BY <1>1, <1>5, <1>6, <1>7 DEF d, e, ThrowAfterPrefix

LEMMA AggregationKeyTypes ==
    ASSUME TypeOK, BakerAggregationKey
    PROVE  TypeOK'
<1>. DEFINE c == BakerView
<1>1. PICK k \in Vals :
        LET d == [c EXCEPT !.keysHash = Append(@, <<"aggregationKey", k>>)]
        IN  /\ UNCHANGED txConst
            /\ \/ /\ Feed(<<<<"aggregationKey", k>>, <<"aggregationProof", k>>>>)
                  /\ ReviewStage(d, AfterFirst(c), startConfigureBakerDisplay(d))
               \/ Throw /\ UNCHANGED hash
  BY DEF BakerAggregationKey
<1>. DEFINE d == [c EXCEPT !.keysHash = Append(@, <<"aggregationKey", k>>)]
<1>2. <<"aggregationKey", k>> \in BakerItem /\ <<"aggregationProof", k>> \in BakerItem
  BY ItemTypes DEF ValueTags
<1>3. c \in BakerContext /\ d \in BakerContext
  <2>1. c \in BakerContext
    BY ViewType
  <2>. HIDE DEF c
  <2>2. Append(c.keysHash, <<"aggregationKey", k>>) \in Seq(BakerItem)
    BY <1>2, <2>1, ContextFields
  <2>. QED  BY <2>1, <2>2 DEF BakerContext
<1>4. <<<<"aggregationKey", k>>, <<"aggregationProof", k>>>> \in Seq(BakerItem)
  BY <1>2
<1>. HIDE DEF c, d
<1>5. CASE /\ Feed(<<<<"aggregationKey", k>>, <<"aggregationProof", k>>>>)
           /\ ReviewStage(d, AfterFirst(c), startConfigureBakerDisplay(d))
  <2>1. TranscriptTypes'
    BY <1>1, <1>4, <1>5, FeedTypes
  <2>2. ShellTypes'
    BY <1>5, <1>3, DisplayTypes, StageTypes, ReviewTypes DEF startConfigureBakerDisplay
  <2>. QED  BY <2>1, <2>2 DEF TypeOK
<1>6. CASE Throw /\ UNCHANGED hash
  BY <1>1, <1>6, EndingTypes DEF TypeOK, TranscriptTypes, txConst
<1>. QED  BY <1>1, <1>5, <1>6 DEF d

LEMMA UrlLengthTypes ==
    ASSUME TypeOK, BakerUrlLength
    PROVE  TypeOK'
<1>. DEFINE c == BakerView
<1>1. PICK n \in 0 .. UrlMax + 1 :
        LET d == [c EXCEPT !.urlLength = n, !.blob = << >>]
        IN  /\ UNCHANGED txConst
            /\ \/ Throw /\ UNCHANGED hash
               \/ /\ n = 0
                  /\ Feed(<<<<"urlLength", 0>>>>)
                  /\ ReviewStage(d, AfterUrl(c), startConfigureBakerUrlDisplay(d, TRUE))
               \/ /\ n > 0 /\ UrlLengthFits(n)
                  /\ Feed(<<<<"urlLength", n>>>>)
                  /\ Ack(BAKER, [d EXCEPT !.state = "URL"])
  BY DEF BakerUrlLength
<1>. DEFINE d == [c EXCEPT !.urlLength = n, !.blob = << >>]
<1>2. CASE Throw /\ UNCHANGED hash
  BY <1>1, <1>2, EndingTypes DEF TypeOK, TranscriptTypes, txConst
<1>3. ASSUME n \in 0 .. UrlMax
      PROVE  d \in BakerContext /\ <<<<"urlLength", n>>>> \in Seq(BakerItem)
  <2>1. << >> \in Seq(BakerItem)
    OBVIOUS
  <2>2. d \in BakerContext
    BY <1>3, <2>1, ViewType DEF BakerContext
  <2>3. <<"urlLength", n>> \in BakerItem
    BY <1>3, ItemTypes
  <2>. QED  BY <2>2, <2>3, SingletonSeq, Zenon
<1>. HIDE DEF c, d
<1>4. CASE /\ n = 0
           /\ Feed(<<<<"urlLength", 0>>>>)
           /\ ReviewStage(d, AfterUrl(c), startConfigureBakerUrlDisplay(d, TRUE))
  <2>1. d \in BakerContext /\ <<<<"urlLength", 0>>>> \in Seq(BakerItem)
    BY <1>3, <1>4, BakerAssumption
  <2>2. TranscriptTypes'
    BY <1>1, <1>4, <2>1, FeedTypes
  <2>3. ShellTypes'
    BY <1>4, <2>1, DisplayTypes, StageTypes, ReviewTypes DEF startConfigureBakerUrlDisplay
  <2>. QED  BY <2>2, <2>3 DEF TypeOK
<1>5. CASE /\ n > 0 /\ UrlLengthFits(n)
           /\ Feed(<<<<"urlLength", n>>>>)
           /\ Ack(BAKER, [d EXCEPT !.state = "URL"])
  <2>1. d \in BakerContext /\ <<<<"urlLength", n>>>> \in Seq(BakerItem)
    BY <1>3, <1>5, BakerAssumption DEF UrlLengthFits
  <2>2. [d EXCEPT !.state = "URL"] \in BakerContext
    BY <2>1 DEF BakerContext, BakerStates
  <2>3. TranscriptTypes'
    BY <1>1, <1>5, <2>1, FeedTypes
  <2>. QED  BY <1>5, <2>2, <2>3, EndingTypes DEF TypeOK
<1>. QED  BY <1>1, <1>2, <1>4, <1>5 DEF d

LEMMA UrlTypes ==
    ASSUME TypeOK, BakerUrl
    PROVE  TypeOK'
<1>. DEFINE c == BakerView
<1>1. PICK n \in 1 .. ChunkMax, v \in Vals :
        LET last == c.urlLength = n
            d    == [c EXCEPT !.blob = <<<<"url", v, n>>>>,
                              !.urlLength = IF last THEN @ ELSE @ - n]
        IN  /\ UNCHANGED txConst
            /\ \/ Throw /\ UNCHANGED hash
               \/ send_rejection(c) /\ UNCHANGED hash
               \/ /\ c.urlLength >= n
                  /\ Feed(<<<<"url", v, n>>>>)
                  /\ ReviewStage(d, IF last THEN AfterUrl(c) ELSE "URL",
                                 startConfigureBakerUrlDisplay(d, last))
  BY DEF BakerUrl
<1>. DEFINE last == c.urlLength = n
            d    == [c EXCEPT !.blob = <<<<"url", v, n>>>>,
                              !.urlLength = IF last THEN @ ELSE @ - n]
<1>2. c \in BakerContext
  BY ViewType
<1>. HIDE DEF c
<1>3. CASE Throw /\ UNCHANGED hash
  BY <1>1, <1>3, EndingTypes DEF TypeOK, TranscriptTypes, txConst
<1>4. CASE send_rejection(c) /\ UNCHANGED hash
  BY <1>1, <1>2, <1>4, EndingTypes DEF TypeOK, TranscriptTypes, txConst
<1>5. CASE /\ c.urlLength >= n
           /\ Feed(<<<<"url", v, n>>>>)
           /\ ReviewStage(d, IF last THEN AfterUrl(c) ELSE "URL",
                          startConfigureBakerUrlDisplay(d, last))
  <2>1. <<<<"url", v, n>>>> \in Seq(BakerItem)
    BY ItemTypes, SingletonSeq, Zenon
  <2>2. c.urlLength - n \in 0 .. UrlMax
    BY <1>2, <1>5, ContextFields, BakerAssumption
  <2>3. d \in BakerContext
    BY <1>2, <2>1, <2>2 DEF BakerContext
  <2>4. TranscriptTypes'
    BY <1>1, <1>5, <2>1, FeedTypes
  <2>5. (IF last THEN AfterUrl(c) ELSE "URL") \in BakerStates
    BY StageTypes DEF BakerStates
  <2>. HIDE DEF d
  <2>6. ShellTypes'
    BY <1>5, <2>3, <2>5, DisplayTypes, ReviewTypes DEF startConfigureBakerUrlDisplay
  <2>. QED  BY <2>4, <2>6 DEF TypeOK
<1>. QED  BY <1>1, <1>3, <1>4, <1>5

LEMMA CommissionTypes ==
    ASSUME TypeOK, handleCommissionRates
    PROVE  TypeOK'
<1>. DEFINE c == BakerView
<1>1. PICK v \in Vals :
        LET d == [c EXCEPT !.blob = CommissionItems(c, v)]
        IN  /\ UNCHANGED txConst
            /\ \/ /\ Feed(CommissionItems(c, v))
                  /\ ReviewStage(d, IF "suspended" \in c.has THEN "SUSPENDED" ELSE "END",
                                 startConfigureBakerCommissionDisplay(d))
               \/ ThrowAfterPrefix(CommissionItems(c, v))
  BY DEF handleCommissionRates
<1>. DEFINE d == [c EXCEPT !.blob = CommissionItems(c, v)]
<1>2. d \in BakerContext
  BY ViewType, FieldTypes DEF BakerContext
<1>. HIDE DEF c, d
<1>3. TranscriptTypes'
  BY <1>1, FieldTypes, FeedTypes DEF ThrowAfterPrefix
<1>4. CASE ReviewStage(d, IF "suspended" \in c.has THEN "SUSPENDED" ELSE "END",
                       startConfigureBakerCommissionDisplay(d))
  <2>1. (IF "suspended" \in c.has THEN "SUSPENDED" ELSE "END") \in BakerStates
    BY DEF BakerStates
  <2>2. ShellTypes'
    BY <1>4, <1>2, <2>1, DisplayTypes, ReviewTypes DEF startConfigureBakerCommissionDisplay
  <2>. QED  BY <2>2, <1>3 DEF TypeOK
<1>5. CASE Throw
  BY <1>5, <1>3, EndingTypes DEF TypeOK
<1>. QED  BY <1>1, <1>4, <1>5 DEF d, ThrowAfterPrefix

LEMMA SuspendedTypes ==
    ASSUME TypeOK, BakerSuspended
    PROVE  TypeOK'
<1>. DEFINE c == BakerView
<1>1. PICK v \in Vals :
        LET d == [c EXCEPT !.blob = <<<<"suspended", v>>>>]
        IN  /\ UNCHANGED txConst
            /\ \/ /\ Feed(<<<<"suspended", v>>>>)
                  /\ ReviewStage(d, "END", startConfigureBakerSuspendedDisplay(d))
               \/ ThrowAfterPrefix(<<<<"suspended", v>>>>)
  BY DEF BakerSuspended
<1>. DEFINE d == [c EXCEPT !.blob = <<<<"suspended", v>>>>]
<1>2. <<<<"suspended", v>>>> \in Seq(BakerItem)
  <2>1. "suspended" \in ValueTags
    BY DEF ValueTags
  <2>. QED  BY <2>1, ItemTypes, SingletonSeq, Zenon
<1>3. d \in BakerContext
  BY <1>2, ViewType DEF BakerContext
<1>. HIDE DEF c, d
<1>4. TranscriptTypes'
  BY <1>1, <1>2, FeedTypes DEF ThrowAfterPrefix
<1>5. CASE ReviewStage(d, "END", startConfigureBakerSuspendedDisplay(d))
  <2>1. "END" \in BakerStates
    BY DEF BakerStates
  <2>2. ShellTypes'
    BY <1>5, <1>3, <2>1, DisplayTypes, ReviewTypes DEF startConfigureBakerSuspendedDisplay
  <2>. QED  BY <2>2, <1>4 DEF TypeOK
<1>6. CASE Throw
  BY <1>6, <1>4, EndingTypes DEF TypeOK
<1>. QED  BY <1>1, <1>5, <1>6 DEF d, ThrowAfterPrefix

LEMMA ButtonTypes ==
    ASSUME TypeOK, BakerButton
    PROVE  TypeOK'
<1>1. approved \cup screen.items \subseteq ShownItem
  BY DEF TypeOK, TranscriptTypes, ShellTypes
<1>2. CASE confirmConfigureBakerStage
  <2>. DEFINE c == IF ctx = Wiped THEN BakerZero ELSE ctx
  <2>1. c \in BakerContext
    <3>1. << >> \in Seq(BakerItem) /\ 0 \in 0 .. UrlMax /\ {} \in SUBSET Fields
      BY BakerAssumption
    <3>. QED  BY <3>1 DEF TypeOK, ShellTypes, BakerZero, BakerContext, BakerStates, BAKER
  <2>2. ctx' = [c EXCEPT !.state = c.pendingState]
    BY <1>2 DEF confirmConfigureBakerStage
  <2>. HIDE DEF c
  <2>3. ctx' \in BakerContext
    BY <2>1, <2>2, ContextFields DEF BakerContext
  <2>4. reply' \in BakerReply
    BY <1>2 DEF confirmConfigureBakerStage, Success, BakerReply
  <2>5. screen' \in [cb : {"home", "stale", "continue", "sign"}, items : SUBSET ShownItem]
    BY <1>2 DEF confirmConfigureBakerStage
  <2>6. ShellTypes'
    BY <1>2, <2>3, <2>4, <2>5 DEF confirmConfigureBakerStage, TypeOK, ShellTypes
  <2>7. TranscriptTypes'
    BY <1>1, <1>2 DEF confirmConfigureBakerStage, TypeOK, TranscriptTypes
  <2>. QED  BY <2>6, <2>7 DEF TypeOK
<1>3. CASE buildAndSignTransactionHash
  <2>1. <<"signature", hash, path>> \in {"signature"} \X Seq(BakerItem) \X (Paths \cup {NoPath})
    BY DEF TypeOK, TranscriptTypes
  <2>2. reply' \in BakerReply
    BY <1>3, <2>1 DEF buildAndSignTransactionHash, send_success, Success, BakerReply
  <2>3. ShellTypes'
    BY <1>3, <2>2 DEF buildAndSignTransactionHash, send_success, ui_menu_main, Home,
                      TypeOK, ShellTypes
  <2>4. TranscriptTypes'
    BY <1>1, <1>3 DEF buildAndSignTransactionHash, TypeOK, TranscriptTypes
  <2>. QED  BY <2>3, <2>4 DEF TypeOK
<1>4. CASE SigningFails
  BY <1>1, <1>4, EndingTypes DEF SigningFails, TypeOK, TranscriptTypes
<1>5. CASE Decline
  BY <1>5, EndingTypes DEF Decline, UserDeclines, TypeOK, TranscriptTypes, noFlow
<1>. QED  BY <1>2, <1>3, <1>4, <1>5 DEF BakerButton

LEMMA RestartTypes ==
    DeviceInit => TypeOK
<1>. SUFFICES ASSUME DeviceInit PROVE TypeOK
  OBVIOUS
<1>1. << >> \in {<< >>} \cup ({"signature"} \X Seq(BakerItem) \X (Paths \cup {NoPath}))
  OBVIOUS
<1>2. ShellTypes
  BY <1>1 DEF DeviceInit, ShellTypes, BakerReply, Idle, Home
<1>3. << >> \in Seq(BakerItem)
  OBVIOUS
<1>4. NoAccount \in [header : Headers \cup {"none"}, network : Networks]
  BY DEF NoAccount, Networks
<1>5. TranscriptTypes
  BY <1>3, <1>4, Zenon DEF DeviceInit, TranscriptTypes
<1>. QED  BY <1>2, <1>5 DEF TypeOK

\* The steps that belong to no instruction.
OtherStep ==
    \/ BadCommand
    \/ \E ins \in {BAKER, "GET_APP_NAME"} : SwitchGuard(ins) \/ RefusedByDispatcher(ins)
    \/ AppInfo("GET_APP_NAME")
    \/ UnknownInstruction
    \/ AboutBack

LEMMA OtherTypes ==
    ASSUME TypeOK, OtherStep
    PROVE  TypeOK'
<1>1. Union \in BakerContext \cup {Wiped}
  BY DEF Union, TypeOK, ShellTypes
<1>2. Success(<< >>) \in BakerReply /\ Refused \in BakerReply
  <2>1. << >> \in {<< >>} \cup ({"signature"} \X Seq(BakerItem) \X (Paths \cup {NoPath}))
    OBVIOUS
  <2>. QED  BY <2>1 DEF Success, Refused, BakerReply
<1>3. TranscriptTypes'
  BY DEF OtherStep, BadCommand, SwitchGuard, RefusedByDispatcher, AppInfo,
         UnknownInstruction, AboutBack, noFlow, TypeOK, TranscriptTypes
<1>4. ShellTypes'
  <2>. USE DEF TypeOK, ShellTypes
  <2>1. CASE BadCommand
    BY <1>2, <2>1 DEF BadCommand
  <2>2. ASSUME NEW ins \in {BAKER, "GET_APP_NAME"}, SwitchGuard(ins) \/ RefusedByDispatcher(ins)
        PROVE  ShellTypes'
    BY <1>1, <1>2, <2>2 DEF SwitchGuard, RefusedByDispatcher
  <2>3. CASE AppInfo("GET_APP_NAME")
    BY <1>1, <1>2, <2>3 DEF AppInfo
  <2>4. CASE UnknownInstruction
    BY <1>1, <1>2, <2>4 DEF UnknownInstruction, send_rejection
  <2>5. CASE AboutBack
    BY <2>5 DEF AboutBack, ui_menu_main, Home
  <2>. QED  BY <2>1, <2>2, <2>3, <2>4, <2>5 DEF OtherStep
<1>. QED  BY <1>3, <1>4 DEF TypeOK

\* Every step keeps the types.
LEMMA NextTypes ==
    ASSUME TypeOK, [BakerNext]_deviceVars
    PROVE  TypeOK'
<1>1. CASE BakerWrongState
  BY <1>1, EndingTypes DEF BakerWrongState, TypeOK, TranscriptTypes
<1>2. CASE BakerPacket
  BY <1>1, <1>2, InitialTypes, FirstBatchTypes, AggregationKeyTypes, UrlLengthTypes, UrlTypes,
     CommissionTypes, SuspendedTypes DEF BakerPacket
<1>3. CASE BakerButton
  BY <1>3, ButtonTypes
<1>4. CASE OtherStep
  BY <1>4, OtherTypes
<1>5. CASE Restart
  <2>1. DeviceInit'
    BY <1>5 DEF Restart, DeviceInit
  <2>. QED  BY <2>1, RestartTypes, PTL
<1>6. CASE UNCHANGED deviceVars
  BY <1>6 DEF deviceVars, TypeOK, ShellTypes, TranscriptTypes
<1>. QED  BY <1>2, <1>3, <1>4, <1>5, <1>6 DEF BakerNext, Shell, OtherStep

\* Type correctness for every value of the constants: whatever packets come,
\* the context, the transcript and the reply stay well formed, and the URL
\* length left to receive stays within 0 .. UrlMax.
THEOREM TypeCorrect == BakerSpec => []TypeOK
<1>1. DeviceInit => TypeOK
  BY RestartTypes
<1>2. TypeOK /\ [BakerNext]_deviceVars => TypeOK'
  BY NextTypes
<1>. QED  BY <1>1, <1>2, PTL DEF BakerSpec

-----------------------------------------------------------------------------
(* What has been hashed and what has been shown. *)

LEMMA NeedsReviewConcat ==
    ASSUME NEW s \in Seq(BakerItem), NEW t \in Seq(BakerItem)
    PROVE  NeedsReview(s \o t) = NeedsReview(s) \cup NeedsReview(t)
<1>1. ItemsOf(s \o t) = ItemsOf(s) \cup ItemsOf(t)
  BY ItemsOfConcat
<1>. QED  BY <1>1, Zenon DEF NeedsReview

\* A packet of a stage only gets through in the flow that opened the stage.
LEMMA StageIsOpen ==
    ASSUME TypeOK, Enters(BAKER), BakerView.state \in OpenStages
    PROVE  Open /\ InBakerFlow /\ BakerView = ctx /\ ctx \in BakerContext
<1>1. latch # NONE
  <2>. SUFFICES ASSUME latch = NONE PROVE FALSE
    OBVIOUS
  <2>1. BakerView.state = "INITIAL"
    BY DEF BakerView, IsInitialCall, BakerZero
  <2>. QED  BY <2>1 DEF OpenStages
<1>2. ctx # Wiped
  <2>. SUFFICES ASSUME ctx = Wiped PROVE FALSE
    OBVIOUS
  <2>1. BakerView.state = "zero"
    BY <1>1 DEF BakerView, IsInitialCall, BakerZero
  <2>. QED  BY <2>1 DEF OpenStages
<1>. QED  BY <1>1, <1>2 DEF Open, InBakerFlow, Enters, BakerView, IsInitialCall, TypeOK, ShellTypes

\* Nothing is claimed of a flow that has ended.
LEMMA ReleasedFlow ==
    ASSUME latch' # BAKER \/ ctx' = Wiped
    PROVE  ReviewInv'
BY DEF ReviewInv, OpenStageWasReviewed, ParkedIsOnScreen, StaleContinueIsInert, Open, Parked,
       InBakerFlow

LEMMA ThrowKeeps ==
    ASSUME Throw
    PROVE  ReviewInv'
BY ReleasedFlow DEF Throw

\* A review that shows everything outstanding parks the flow correctly.
LEMMA ReviewKeeps ==
    ASSUME NEW d \in BakerContext, NEW next \in LaterStages, NEW continues, NEW items,
           ReviewStage(d, next, BakerScreen(continues, items)),
           MustShow' \subseteq approved' \cup items
    PROVE  ReviewInv'
<1>1. /\ ctx' = [[d EXCEPT !.firstDisplay = FALSE] EXCEPT !.pendingState = next, !.state = "AWAITING_CONFIRM"]
      /\ screen' = BakerScreen(continues, items)
  BY DEF ReviewStage, Review, awaitConfigureBakerConfirm
<1>2. ctx'.state = "AWAITING_CONFIRM" /\ ctx'.pendingState = next /\ ctx'.firstDisplay = FALSE
  BY <1>1 DEF BakerContext
<1>3. screen'.items = items /\ screen'.cb \in {"sign", "continue"}
  BY <1>1 DEF BakerScreen
<1>4. OpenStageWasReviewed'
  BY <1>2 DEF OpenStageWasReviewed, Open, OpenStages
<1>5. ParkedIsOnScreen'
  BY <1>2, <1>3 DEF ParkedIsOnScreen, ReviewUp
<1>6. StaleContinueIsInert'
  BY <1>2 DEF StaleContinueIsInert, Parked
<1>. QED  BY <1>4, <1>5, <1>6 DEF ReviewInv

\* What a stage obliges the application to show grows by what it hashes.
LEMMA FeedGrows ==
    ASSUME TypeOK, NEW items \in Seq(BakerItem), Feed(items), UNCHANGED txConst
    PROVE  MustShow' = MustShow \cup NeedsReview(items)
<1>1. hash' = hash \o items /\ path' = path
  BY DEF Feed, txConst
<1>2. NeedsReview(hash') = NeedsReview(hash) \cup NeedsReview(items)
  BY <1>1, NeedsReviewConcat DEF TypeOK, TranscriptTypes
<1>. QED  BY <1>1, <1>2, Zenon DEF MustShow

LEMMA FirstBatchShown ==
    ASSUME NEW c, NEW v \in Vals, NEW k \in Vals
    PROVE  /\ NeedsReview(FirstBatchItems(c, v, k)) \subseteq
                  ItemsOf(DisplayedFirst(c, v)) \cup {<<"electionKey", k>>, <<"signatureKey", k>>}
           /\ "keys" \notin c.has =>
                  NeedsReview(FirstBatchItems(c, v, k)) \subseteq ItemsOf(DisplayedFirst(c, v))
<1>. DEFINE keys == <<<<"electionKey", k>>, <<"electionProof", k>>,
                      <<"signatureKey", k>>, <<"signatureProof", k>>>>
<1>1. keys \in Seq(BakerItem) /\ << >> \in Seq(BakerItem) /\ DisplayedFirst(c, v) \in Seq(BakerItem)
  <2>1. DisplayedFirst(c, v) \in Seq(BakerItem)
    BY FieldTypes
  <2>2. \A t \in ValueTags : <<t, k>> \in BakerItem
    BY ItemTypes
  <2>3. keys \in Seq(BakerItem)
    BY <2>2 DEF ValueTags
  <2>. QED  BY <2>1, <2>3
<1>2. ItemsOf(keys) = {<<"electionKey", k>>, <<"electionProof", k>>,
                       <<"signatureKey", k>>, <<"signatureProof", k>>}
      /\ ItemsOf(<< >>) = {}
  BY DEF ItemsOf
<1>3. NeedsReview(keys) \subseteq {<<"electionKey", k>>, <<"signatureKey", k>>}
  <2>1. <<"electionProof", k>>[1] = "electionProof" /\ <<"signatureProof", k>>[1] = "signatureProof"
    OBVIOUS
  <2>2. Unshown(<<"electionProof", k>>) /\ Unshown(<<"signatureProof", k>>)
    BY <2>1, Zenon DEF Unshown
  <2>. HIDE DEF keys
  <2>. QED  BY <1>2, <2>2, Zenon DEF NeedsReview
<1>. HIDE DEF keys
<1>4. NeedsReview(DisplayedFirst(c, v)) \subseteq ItemsOf(DisplayedFirst(c, v))
      /\ NeedsReview(<< >>) = {}
  BY <1>2, Zenon DEF NeedsReview
<1>5. CASE "keys" \in c.has
  <2>1. FirstBatchItems(c, v, k) = DisplayedFirst(c, v) \o keys
    BY <1>5 DEF FirstBatchItems, keys
  <2>2. NeedsReview(FirstBatchItems(c, v, k)) = NeedsReview(DisplayedFirst(c, v)) \cup NeedsReview(keys)
    BY <2>1, <1>1, NeedsReviewConcat
  <2>. QED  BY <1>5, <1>3, <1>4, <2>2, Zenon
<1>6. CASE "keys" \notin c.has
  <2>1. FirstBatchItems(c, v, k) = DisplayedFirst(c, v) \o << >>
    BY <1>6 DEF FirstBatchItems
  <2>2. NeedsReview(FirstBatchItems(c, v, k)) = NeedsReview(DisplayedFirst(c, v)) \cup NeedsReview(<< >>)
    BY <2>1, <1>1, NeedsReviewConcat
  <2>. QED  BY <1>4, <2>2, Zenon
<1>. QED  BY <1>5, <1>6

LEMMA AfterIsLater ==
    ASSUME NEW c
    PROVE  AfterUrl(c) \in LaterStages /\ AfterFirst(c) \in LaterStages
           /\ AfterBitmap(c) \in {"FIRST", "INITIAL", "URL_LENGTH", "COMMISSION_RATES", "SUSPENDED"}
BY DEF AfterUrl, AfterFirst, AfterBitmap, LaterStages

-----------------------------------------------------------------------------
(* Each packet keeps ReviewInv. *)

LEMMA InitialKeeps ==
    ASSUME TypeOK, ReviewInv, BakerInitial
    PROVE  ReviewInv'
<1>1. PICK h \in Headers, p \in Paths, has \in Bitmaps :
        LET c    == [BakerView EXCEPT !.has = has, !.firstDisplay = TRUE, !.keysHash = << >>]
            head == <<<<"kind", BAKER>>, <<"bitmap", has>>>>
        IN  /\ Enters(BAKER)
            /\ BakerView.state = "INITIAL"
            /\ \/ /\ hashAccountTransactionHeaderAndKind(h, p, head)
                  /\ Ack(BAKER, [c EXCEPT !.state = AfterBitmap(c)])
               \/ HeaderThrows(h, p, head)
  BY DEF BakerInitial
<1>. DEFINE c    == [BakerView EXCEPT !.has = has, !.firstDisplay = TRUE, !.keysHash = << >>]
            head == <<<<"kind", BAKER>>, <<"bitmap", has>>>>
<1>2. BakerView.pendingState = "zero"
  <2>1. CASE IsInitialCall
    BY <2>1 DEF BakerView, BakerZero
  <2>2. CASE ~IsInitialCall /\ ctx = Wiped
    BY <2>2 DEF BakerView, BakerZero
  <2>3. CASE ~IsInitialCall /\ ctx # Wiped
    <3>1. BakerView = ctx /\ latch = BAKER
      BY <1>1, <2>3 DEF BakerView, Enters, IsInitialCall
    <3>. QED  BY <1>1, <2>3, <3>1 DEF ReviewInv, StaleContinueIsInert, InBakerFlow, Parked
  <2>. QED  BY <2>1, <2>2, <2>3
<1>3. c \in BakerContext /\ c.pendingState = "zero" /\ c.firstDisplay = TRUE
  <2>1. << >> \in Seq(BakerItem) /\ has \in SUBSET Fields
    BY BakerAssumption
  <2>. QED  BY <1>2, <2>1, ViewType DEF BakerContext
<1>. HIDE DEF c
<1>4. CASE hashAccountTransactionHeaderAndKind(h, p, head) /\ Ack(BAKER, [c EXCEPT !.state = AfterBitmap(c)])
  <2>1. /\ ctx' = [c EXCEPT !.state = AfterBitmap(c)]
        /\ hash' = <<<<"header", h>>>> \o head
        /\ path' = p
        /\ account' = [header |-> h, network |-> NetworkOf(p)]
    BY <1>4 DEF Ack, hashAccountTransactionHeaderAndKind, AccountSender
  <2>2. ctx'.state = AfterBitmap(c) /\ ctx'.pendingState = "zero" /\ ctx'.firstDisplay = TRUE
    BY <1>3, <2>1 DEF BakerContext
  <2>3. ItemsOf(hash') = {<<"header", h>>, <<"kind", BAKER>>, <<"bitmap", has>>}
    <3>1. <<"header", h>> \in BakerItem /\ <<"kind", BAKER>> \in BakerItem
          /\ <<"bitmap", has>> \in BakerItem
      BY ItemTypes
    <3>2. head \in Seq(BakerItem) /\ ItemsOf(head) = {<<"kind", BAKER>>, <<"bitmap", has>>}
      BY <3>1 DEF ItemsOf
    <3>3. <<<<"header", h>>>> \in Seq(BakerItem) /\ ItemsOf(<<<<"header", h>>>>) = {<<"header", h>>}
      BY <3>1, SingletonSeq, Zenon
    <3>. HIDE DEF head
    <3>. DEFINE first == <<<<"header", h>>>>
    <3>. HIDE DEF first
    <3>4. first \in Seq(BakerItem) /\ ItemsOf(first) = {<<"header", h>>} /\ hash' = first \o head
      BY <2>1, <3>3 DEF first
    <3>5. ItemsOf(first \o head) = ItemsOf(first) \cup ItemsOf(head)
      BY <3>2, <3>4, ItemsOfConcat
    <3>. QED  BY <3>2, <3>4, <3>5, Zenon
  <2>4. Unshown(<<"kind", BAKER>>) /\ Unshown(<<"bitmap", has>>)
    BY DEF Unshown
  <2>5. NeedsReview(hash') \subseteq {<<"header", h>>}
    BY <2>3, <2>4, Zenon DEF NeedsReview
  <2>6. MustShow' \subseteq {<<"header", h>>, <<"network", NetworkOf(p)>>}
    BY <2>1, <2>5, Zenon DEF MustShow
  <2>7. {<<"header", h>>, <<"network", NetworkOf(p)>>} \subseteq Awaiting(ctx)'
    BY <2>1, <2>2 DEF Awaiting, HeaderOnFirstDisplay, addAccountHeaderPairs, HeaderPairs
  <2>8. OpenStageWasReviewed'
    BY <2>6, <2>7 DEF OpenStageWasReviewed
  <2>9. ctx'.state # "AWAITING_CONFIRM"
    BY <2>2, AfterIsLater
  <2>. QED  BY <2>2, <2>8, <2>9 DEF ReviewInv, ParkedIsOnScreen, StaleContinueIsInert, Parked
<1>5. CASE HeaderThrows(h, p, head)
  BY <1>5, ThrowKeeps DEF HeaderThrows
<1>. QED  BY <1>1, <1>4, <1>5 DEF c

LEMMA FirstBatchKeeps ==
    ASSUME TypeOK, ReviewInv, BakerFirstBatch
    PROVE  ReviewInv'
<1>. DEFINE c == BakerView
<1>1. PICK v \in Vals, k \in Vals :
        LET d == [c EXCEPT !.blob = DisplayedFirst(c, v)]
        IN  /\ Enters(BAKER)
            /\ c.state = "FIRST"
            /\ UNCHANGED txConst
            /\ \/ /\ Feed(FirstBatchItems(c, v, k))
                  /\ Ack(BAKER, [d EXCEPT
                         !.state = "AGGREGATION_KEY",
                         !.keysHash = @ \o <<<<"electionKey", k>>, <<"signatureKey", k>>>>])
               \/ /\ "keys" \notin c.has
                  /\ Feed(FirstBatchItems(c, v, k))
                  /\ ReviewStage(d, AfterFirst(c), startConfigureBakerDisplay(d))
               \/ ThrowAfterPrefix(FirstBatchItems(c, v, k))
  BY DEF BakerFirstBatch
<1>. DEFINE d  == [c EXCEPT !.blob = DisplayedFirst(c, v)]
            ks == <<<<"electionKey", k>>, <<"signatureKey", k>>>>
            e  == [d EXCEPT !.state = "AGGREGATION_KEY", !.keysHash = @ \o ks]
<1>2. Open /\ InBakerFlow /\ c = ctx /\ c \in BakerContext
  BY <1>1, StageIsOpen DEF OpenStages
<1>3. /\ d \in BakerContext /\ d.blob = DisplayedFirst(c, v)
      /\ d.firstDisplay = c.firstDisplay /\ d.pendingState = c.pendingState
      /\ d.keysHash = c.keysHash
  BY <1>2, FieldTypes DEF BakerContext
<1>4. MustShow \subseteq approved \cup addAccountHeaderPairs
  <2>1. Awaiting(ctx) \subseteq addAccountHeaderPairs
    BY <1>1, <1>2 DEF Awaiting, HeaderOnFirstDisplay
  <2>. QED  BY <1>2, <2>1 DEF ReviewInv, OpenStageWasReviewed
<1>5. ks \in Seq(BakerItem) /\ ItemsOf(ks) = {<<"electionKey", k>>, <<"signatureKey", k>>}
  <2>1. <<"electionKey", k>> \in BakerItem /\ <<"signatureKey", k>> \in BakerItem
    BY ItemTypes DEF ValueTags
  <2>. QED  BY <2>1 DEF ItemsOf
<1>. HIDE DEF c, d, ks
<1>6. ASSUME Feed(FirstBatchItems(c, v, k))
      PROVE  MustShow' = MustShow \cup NeedsReview(FirstBatchItems(c, v, k))
  BY <1>1, <1>6, FieldTypes, FeedGrows
<1>7. CASE Feed(FirstBatchItems(c, v, k)) /\ Ack(BAKER, e)
  <2>1. ctx' = e
    BY <1>7 DEF Ack
  <2>2. d.keysHash \o ks \in Seq(BakerItem) /\ ItemsOf(d.keysHash \o ks) = ItemsOf(d.keysHash) \cup ItemsOf(ks)
    BY <1>3, <1>5, ContextFields, ItemsOfConcat
  <2>3. /\ ctx'.state = "AGGREGATION_KEY" /\ ctx'.blob = d.blob
        /\ ctx'.keysHash = d.keysHash \o ks
        /\ ctx'.firstDisplay = d.firstDisplay /\ ctx'.pendingState = d.pendingState
    BY <1>3, <2>1 DEF BakerContext
  <2>4. MustShow' \subseteq MustShow \cup ItemsOf(d.blob) \cup ItemsOf(ks)
    BY <1>3, <1>5, <1>6, <1>7, FirstBatchShown
  <2>5. Awaiting(ctx)' = HeaderOnFirstDisplay(ctx)' \cup ItemsOf(d.blob) \cup ItemsOf(d.keysHash \o ks)
    BY <2>3 DEF Awaiting
  <2>6. MustShow \subseteq approved \cup HeaderOnFirstDisplay(c)
    <3>1. Awaiting(c) = HeaderOnFirstDisplay(c)
      BY <1>1 DEF Awaiting
    <3>. QED  BY <1>2, <3>1 DEF ReviewInv, OpenStageWasReviewed
  <2>7. HeaderOnFirstDisplay(ctx)' = HeaderOnFirstDisplay(c) /\ approved' = approved
    BY <1>1, <1>3, <2>3 DEF HeaderOnFirstDisplay, addAccountHeaderPairs, HeaderPairs, txConst
  <2>8. OpenStageWasReviewed'
    BY <2>2, <2>4, <2>5, <2>6, <2>7, Zenon DEF OpenStageWasReviewed
  <2>9. screen' = screen
    BY <1>7 DEF Ack
  <2>10. StaleContinueIsInert'
    BY <1>1, <1>2, <1>3, <2>3, <2>9 DEF ReviewInv, StaleContinueIsInert, Parked, InBakerFlow
  <2>. QED  BY <2>3, <2>8, <2>10 DEF ReviewInv, ParkedIsOnScreen, Parked
<1>8. CASE /\ "keys" \notin c.has
           /\ Feed(FirstBatchItems(c, v, k))
           /\ ReviewStage(d, AfterFirst(c), startConfigureBakerDisplay(d))
  <2>. DEFINE items == addAccountHeaderPairs \cup ItemsOf(d.blob) \cup ItemsOf(d.keysHash)
  <2>1. MustShow' \subseteq approved' \cup items
    <3>1. MustShow' \subseteq MustShow \cup ItemsOf(d.blob)
      BY <1>3, <1>6, <1>8, FirstBatchShown
    <3>. QED  BY <1>1, <1>4, <3>1 DEF txConst
  <2>. QED  BY <1>3, <1>8, <2>1, AfterIsLater, ReviewKeeps DEF startConfigureBakerDisplay
<1>9. CASE Throw
  BY <1>9, ThrowKeeps
<1>. QED  BY <1>1, <1>7, <1>8, <1>9 DEF d, ks, ThrowAfterPrefix

LEMMA AggregationKeyKeeps ==
    ASSUME TypeOK, ReviewInv, BakerAggregationKey
    PROVE  ReviewInv'
<1>. DEFINE c == BakerView
<1>1. PICK k \in Vals :
        LET d == [c EXCEPT !.keysHash = Append(@, <<"aggregationKey", k>>)]
        IN  /\ Enters(BAKER)
            /\ c.state = "AGGREGATION_KEY"
            /\ UNCHANGED txConst
            /\ \/ /\ Feed(<<<<"aggregationKey", k>>, <<"aggregationProof", k>>>>)
                  /\ ReviewStage(d, AfterFirst(c), startConfigureBakerDisplay(d))
               \/ Throw /\ UNCHANGED hash
  BY DEF BakerAggregationKey
<1>. DEFINE key  == <<"aggregationKey", k>>
            fed  == <<key, <<"aggregationProof", k>>>>
            d    == [c EXCEPT !.keysHash = Append(@, key)]
<1>2. Open /\ c = ctx /\ c \in BakerContext
  BY <1>1, StageIsOpen DEF OpenStages
<1>. HIDE DEF c
<1>3. key \in BakerItem /\ <<"aggregationProof", k>> \in BakerItem
  BY ItemTypes DEF ValueTags
<1>4. Append(c.keysHash, key) \in Seq(BakerItem)
      /\ ItemsOf(c.keysHash) \cup {key} \subseteq ItemsOf(Append(c.keysHash, key))
  <2>. HIDE DEF key
  <2>1. c.keysHash \in Seq(BakerItem) /\ <<key>> \in Seq(BakerItem) /\ ItemsOf(<<key>>) = {key}
    BY <1>2, <1>3, ContextFields, SingletonSeq
  <2>2. Append(c.keysHash, key) = c.keysHash \o <<key>>
    BY <1>3, <2>1
  <2>3. c.keysHash \o <<key>> \in Seq(BakerItem)
        /\ ItemsOf(c.keysHash \o <<key>>) = ItemsOf(c.keysHash) \cup ItemsOf(<<key>>)
    <3> DEFINE s == c.keysHash
               t == <<key>>
    <3>1. s \in Seq(BakerItem) /\ t \in Seq(BakerItem)
      BY <2>1
    <3> HIDE DEF s, t
    <3>2. s \o t \in Seq(BakerItem) /\ ItemsOf(s \o t) = ItemsOf(s) \cup ItemsOf(t)
      BY <3>1, ItemsOfConcat
    <3> QED
      BY <3>2 DEF s, t
  <2>. QED  BY <2>1, <2>2, <2>3, Zenon
<1>5. d \in BakerContext /\ d.keysHash = Append(c.keysHash, key) /\ d.blob = c.blob
  BY <1>2, <1>4 DEF BakerContext
<1>6. fed \in Seq(BakerItem) /\ NeedsReview(fed) \subseteq {key}
  <2>1. fed \in Seq(BakerItem)
    BY <1>3
  <2>2. ItemsOf(fed) = {key, <<"aggregationProof", k>>}
    BY DEF ItemsOf
  <2>3. Unshown(<<"aggregationProof", k>>)
    BY DEF Unshown
  <2>. HIDE DEF fed, key
  <2>. QED  BY <2>1, <2>2, <2>3, Zenon DEF NeedsReview
<1>7. MustShow \subseteq approved \cup addAccountHeaderPairs \cup ItemsOf(c.blob) \cup ItemsOf(c.keysHash)
  <2>1. Awaiting(c) \subseteq addAccountHeaderPairs \cup ItemsOf(c.blob) \cup ItemsOf(c.keysHash)
    BY DEF Awaiting, HeaderOnFirstDisplay
  <2>. QED  BY <1>2, <2>1 DEF ReviewInv, OpenStageWasReviewed
<1>. HIDE DEF key, fed, d
<1>8. CASE Feed(fed) /\ ReviewStage(d, AfterFirst(c), startConfigureBakerDisplay(d))
  <2>. DEFINE items == addAccountHeaderPairs \cup ItemsOf(d.blob) \cup ItemsOf(d.keysHash)
  <2>1. MustShow' = MustShow \cup NeedsReview(fed) /\ approved' = approved
    BY <1>1, <1>6, <1>8, FeedGrows DEF txConst
  <2>2. MustShow' \subseteq approved' \cup items
    BY <1>4, <1>5, <1>6, <1>7, <2>1, Zenon
  <2>. HIDE DEF items
  <2>3. startConfigureBakerDisplay(d) =
          BakerScreen("metadataUrl" \in d.has \/ hasCommissionRate(d) \/ "suspended" \in d.has, items)
    BY DEF startConfigureBakerDisplay, items
  <2>4. AfterFirst(c) \in LaterStages
    BY AfterIsLater
  <2>. QED  BY <1>5, <1>8, <2>2, <2>3, <2>4, ReviewKeeps
<1>9. CASE Throw
  BY <1>9, ThrowKeeps
<1>. QED  BY <1>1, <1>8, <1>9 DEF fed, d, key

\* In a stage after the keys, only the header lines may still be outstanding.
LEMMA OnlyHeaderOutstanding ==
    ASSUME TypeOK, ReviewInv, Enters(BAKER),
           BakerView.state \in {"URL_LENGTH", "URL", "COMMISSION_RATES", "SUSPENDED"}
    PROVE  /\ InBakerFlow /\ BakerView = ctx /\ ctx \in BakerContext
           /\ MustShow \subseteq approved \cup HeaderOnFirstDisplay(ctx)
<1>1. Open /\ InBakerFlow /\ BakerView = ctx /\ ctx \in BakerContext
  BY StageIsOpen DEF OpenStages
<1>2. Awaiting(ctx) = HeaderOnFirstDisplay(ctx)
  BY <1>1 DEF Awaiting
<1>. QED  BY <1>1, <1>2 DEF ReviewInv, OpenStageWasReviewed

\* A stage that hashes what it puts in the blob and shows the blob.
LEMMA BlobReviewKeeps ==
    ASSUME TypeOK, NEW c \in BakerContext, MustShow \subseteq approved \cup HeaderOnFirstDisplay(c),
           NEW d \in BakerContext, d.firstDisplay = c.firstDisplay,
           NEW fed \in Seq(BakerItem), Feed(fed), UNCHANGED txConst,
           NEW shown, NeedsReview(fed) \subseteq shown,
           NEW next \in LaterStages, NEW continues,
           ReviewStage(d, next, BakerScreen(continues, HeaderOnFirstDisplay(d) \cup shown))
    PROVE  ReviewInv'
<1>1. HeaderOnFirstDisplay(d) = HeaderOnFirstDisplay(c)
  BY DEF HeaderOnFirstDisplay
<1>2. MustShow' = MustShow \cup NeedsReview(fed) /\ approved' = approved
  BY FeedGrows DEF txConst
<1>3. MustShow' \subseteq approved' \cup (HeaderOnFirstDisplay(d) \cup shown)
  BY <1>1, <1>2, Zenon
<1>. DEFINE items == HeaderOnFirstDisplay(d) \cup shown
<1>. HIDE DEF items
<1>4. MustShow' \subseteq approved' \cup items /\ ReviewStage(d, next, BakerScreen(continues, items))
  BY <1>3, Zenon DEF items
<1>. QED  BY <1>4, ReviewKeeps

LEMMA NeedsReviewInItems ==
    ASSUME NEW s
    PROVE  NeedsReview(s) \subseteq ItemsOf(s)
BY DEF NeedsReview

LEMMA UrlLengthKeeps ==
    ASSUME TypeOK, ReviewInv, BakerUrlLength
    PROVE  ReviewInv'
<1>. DEFINE c == BakerView
<1>1. PICK n \in 0 .. UrlMax + 1 :
        LET d == [c EXCEPT !.urlLength = n, !.blob = << >>]
        IN  /\ Enters(BAKER)
            /\ c.state = "URL_LENGTH"
            /\ UNCHANGED txConst
            /\ \/ Throw
               \/ /\ n = 0
                  /\ Feed(<<<<"urlLength", 0>>>>)
                  /\ ReviewStage(d, AfterUrl(c), startConfigureBakerUrlDisplay(d, TRUE))
               \/ /\ n > 0 /\ UrlLengthFits(n)
                  /\ Feed(<<<<"urlLength", n>>>>)
                  /\ Ack(BAKER, [d EXCEPT !.state = "URL"])
  BY DEF BakerUrlLength
<1>. DEFINE d == [c EXCEPT !.urlLength = n, !.blob = << >>]
            fed == <<<<"urlLength", n>>>>
<1>2. /\ InBakerFlow /\ c = ctx /\ c \in BakerContext
      /\ MustShow \subseteq approved \cup HeaderOnFirstDisplay(c)
  BY <1>1, OnlyHeaderOutstanding
<1>. HIDE DEF c
<1>3. ASSUME n \in 0 .. UrlMax
      PROVE  /\ d \in BakerContext /\ d.firstDisplay = c.firstDisplay /\ d.urlLength = n
             /\ d.pendingState = c.pendingState
             /\ fed \in Seq(BakerItem) /\ ItemsOf(fed) = {<<"urlLength", n>>}
  <2>1. << >> \in Seq(BakerItem)
    OBVIOUS
  <2>2. d \in BakerContext /\ d.firstDisplay = c.firstDisplay /\ d.urlLength = n
        /\ d.pendingState = c.pendingState
    BY <1>2, <1>3, <2>1 DEF BakerContext
  <2>3. <<"urlLength", n>> \in BakerItem
    BY <1>3, ItemTypes
  <2>4. fed \in Seq(BakerItem) /\ ItemsOf(fed) = {<<"urlLength", n>>}
    BY <2>3, SingletonSeq, Zenon
  <2>. QED  BY <2>2, <2>4
<1>. HIDE DEF d
<1>4. CASE Throw
  BY <1>4, ThrowKeeps
<1>5. CASE n = 0 /\ Feed(fed) /\ ReviewStage(d, AfterUrl(c), startConfigureBakerUrlDisplay(d, TRUE))
  <2>1. n \in 0 .. UrlMax
    BY <1>5, BakerAssumption
  <2>. DEFINE cont == ~TRUE \/ hasCommissionRate(d) \/ "suspended" \in d.has
  <2>2. startConfigureBakerUrlDisplay(d, TRUE) =
          BakerScreen(cont, HeaderOnFirstDisplay(d) \cup ItemsOf(fed))
    BY <1>3, <1>5, <2>1 DEF startConfigureBakerUrlDisplay
  <2>3. AfterUrl(c) \in LaterStages
    BY AfterIsLater
  <2>4. d \in BakerContext /\ d.firstDisplay = c.firstDisplay /\ fed \in Seq(BakerItem)
    BY <1>3, <2>1
  <2>. HIDE DEF fed, cont
  <2>. QED  BY <1>1, <1>2, <1>5, <2>2, <2>3, <2>4, NeedsReviewInItems, BlobReviewKeeps
<1>6. CASE n > 0 /\ UrlLengthFits(n) /\ Feed(fed) /\ Ack(BAKER, [d EXCEPT !.state = "URL"])
  <2>1. n \in 0 .. UrlMax
    BY <1>6, BakerAssumption DEF UrlLengthFits
  <2>2. ctx' = [d EXCEPT !.state = "URL"] /\ screen' = screen /\ approved' = approved
        /\ account' = account
    BY <1>1, <1>6 DEF Ack, txConst
  <2>3. ctx'.state = "URL" /\ ctx'.pendingState = c.pendingState
        /\ ctx'.firstDisplay = c.firstDisplay
    BY <1>3, <2>1, <2>2 DEF BakerContext
  <2>4. NeedsReview(fed) = {}
    <3>1. Unshown(<<"urlLength", n>>)
      BY <1>6, <2>1 DEF Unshown
    <3>. HIDE DEF fed
    <3>. QED  BY <1>3, <2>1, <3>1, Zenon DEF NeedsReview
  <2>5. MustShow' = MustShow
    BY <1>1, <1>3, <1>6, <2>1, <2>4, FeedGrows
  <2>6. Awaiting(ctx)' = HeaderOnFirstDisplay(c)
    BY <2>2, <2>3 DEF Awaiting, HeaderOnFirstDisplay, addAccountHeaderPairs, HeaderPairs
  <2>7. OpenStageWasReviewed'
    BY <1>2, <2>2, <2>5, <2>6 DEF OpenStageWasReviewed
  <2>8. StaleContinueIsInert'
    BY <1>1, <1>2, <2>2, <2>3 DEF ReviewInv, StaleContinueIsInert, Parked, InBakerFlow
  <2>. QED  BY <2>3, <2>7, <2>8 DEF ReviewInv, ParkedIsOnScreen, Parked
<1>. QED  BY <1>1, <1>4, <1>5, <1>6 DEF d

LEMMA UrlKeeps ==
    ASSUME TypeOK, ReviewInv, BakerUrl
    PROVE  ReviewInv'
<1>. DEFINE c == BakerView
<1>1. PICK n \in 1 .. ChunkMax, v \in Vals :
        LET last == c.urlLength = n
            d    == [c EXCEPT !.blob = <<<<"url", v, n>>>>,
                              !.urlLength = IF last THEN @ ELSE @ - n]
        IN  /\ Enters(BAKER)
            /\ c.state = "URL"
            /\ UNCHANGED txConst
            /\ \/ Throw
               \/ send_rejection(c)
               \/ /\ c.urlLength >= n
                  /\ Feed(<<<<"url", v, n>>>>)
                  /\ ReviewStage(d, IF last THEN AfterUrl(c) ELSE "URL",
                                 startConfigureBakerUrlDisplay(d, last))
  BY DEF BakerUrl
<1>. DEFINE last == c.urlLength = n
            fed  == <<<<"url", v, n>>>>
            d    == [c EXCEPT !.blob = fed, !.urlLength = IF last THEN @ ELSE @ - n]
            next == IF last THEN AfterUrl(c) ELSE "URL"
<1>2. /\ c \in BakerContext
      /\ MustShow \subseteq approved \cup HeaderOnFirstDisplay(c)
  BY <1>1, OnlyHeaderOutstanding
<1>. HIDE DEF c
<1>3. CASE Throw
  BY <1>3, ThrowKeeps
<1>4. CASE send_rejection(c)
  BY <1>4, ReleasedFlow DEF send_rejection, NONE, BAKER
<1>5. CASE c.urlLength >= n /\ Feed(fed) /\ ReviewStage(d, next, startConfigureBakerUrlDisplay(d, last))
  <2>1. fed \in Seq(BakerItem)
    BY ItemTypes, SingletonSeq, Zenon
  <2>2. c.urlLength - n \in 0 .. UrlMax
    BY <1>2, <1>5, ContextFields, BakerAssumption
  <2>. HIDE DEF fed
  <2>3. d \in BakerContext /\ d.firstDisplay = c.firstDisplay /\ d.blob = fed
        /\ (last => d.urlLength = n)
    BY <1>2, <2>1, <2>2 DEF BakerContext
  <2>4. next \in LaterStages
    BY AfterIsLater DEF LaterStages
  <2>. DEFINE cont == ~last \/ hasCommissionRate(d) \/ "suspended" \in d.has
  <2>. HIDE DEF d, next
  <2>5. startConfigureBakerUrlDisplay(d, last) =
          BakerScreen(cont, HeaderOnFirstDisplay(d) \cup ItemsOf(fed))
    BY <2>3 DEF startConfigureBakerUrlDisplay
  <2>. HIDE DEF cont, last
  <2>. QED  BY <1>1, <1>2, <1>5, <2>1, <2>3, <2>4, <2>5, NeedsReviewInItems, BlobReviewKeeps,
            ZenonT(30)
<1>. QED  BY <1>1, <1>3, <1>4, <1>5

LEMMA CommissionKeeps ==
    ASSUME TypeOK, ReviewInv, handleCommissionRates
    PROVE  ReviewInv'
<1>. DEFINE c == BakerView
<1>1. PICK v \in Vals :
        LET d == [c EXCEPT !.blob = CommissionItems(c, v)]
        IN  /\ Enters(BAKER)
            /\ c.state = "COMMISSION_RATES"
            /\ UNCHANGED txConst
            /\ \/ /\ Feed(CommissionItems(c, v))
                  /\ ReviewStage(d, IF "suspended" \in c.has THEN "SUSPENDED" ELSE "END",
                                 startConfigureBakerCommissionDisplay(d))
               \/ ThrowAfterPrefix(CommissionItems(c, v))
  BY DEF handleCommissionRates
<1>. DEFINE d    == [c EXCEPT !.blob = CommissionItems(c, v)]
            next == IF "suspended" \in c.has THEN "SUSPENDED" ELSE "END"
<1>2. /\ c \in BakerContext
      /\ MustShow \subseteq approved \cup HeaderOnFirstDisplay(c)
  BY <1>1, OnlyHeaderOutstanding
<1>. HIDE DEF c
<1>3. CommissionItems(c, v) \in Seq(BakerItem)
  BY FieldTypes
<1>4. d \in BakerContext /\ d.firstDisplay = c.firstDisplay /\ d.blob = CommissionItems(c, v)
  BY <1>2, <1>3 DEF BakerContext
<1>5. next \in LaterStages
  BY DEF LaterStages
<1>. HIDE DEF d, next
<1>6. CASE Feed(CommissionItems(c, v)) /\ ReviewStage(d, next, startConfigureBakerCommissionDisplay(d))
  BY <1>1, <1>2, <1>3, <1>4, <1>5, <1>6, NeedsReviewInItems, BlobReviewKeeps
     DEF startConfigureBakerCommissionDisplay
<1>7. CASE Throw
  BY <1>7, ThrowKeeps
<1>. QED  BY <1>1, <1>6, <1>7 DEF d, next, ThrowAfterPrefix

LEMMA SuspendedKeeps ==
    ASSUME TypeOK, ReviewInv, BakerSuspended
    PROVE  ReviewInv'
<1>. DEFINE c == BakerView
<1>1. PICK v \in Vals :
        LET d == [c EXCEPT !.blob = <<<<"suspended", v>>>>]
        IN  /\ Enters(BAKER)
            /\ c.state = "SUSPENDED"
            /\ UNCHANGED txConst
            /\ \/ /\ Feed(<<<<"suspended", v>>>>)
                  /\ ReviewStage(d, "END", startConfigureBakerSuspendedDisplay(d))
               \/ ThrowAfterPrefix(<<<<"suspended", v>>>>)
  BY DEF BakerSuspended
<1>. DEFINE fed == <<<<"suspended", v>>>>
            d   == [c EXCEPT !.blob = fed]
<1>2. /\ c \in BakerContext
      /\ MustShow \subseteq approved \cup HeaderOnFirstDisplay(c)
  BY <1>1, OnlyHeaderOutstanding
<1>. HIDE DEF c
<1>3. fed \in Seq(BakerItem)
  <2>1. "suspended" \in ValueTags
    BY DEF ValueTags
  <2>. QED  BY <2>1, ItemTypes, SingletonSeq, Zenon
<1>. HIDE DEF fed
<1>4. d \in BakerContext /\ d.firstDisplay = c.firstDisplay /\ d.blob = fed
  BY <1>2, <1>3 DEF BakerContext
<1>5. "END" \in LaterStages
  BY DEF LaterStages
<1>. HIDE DEF d
<1>6. CASE Feed(fed) /\ ReviewStage(d, "END", startConfigureBakerSuspendedDisplay(d))
  BY <1>1, <1>2, <1>3, <1>4, <1>5, <1>6, NeedsReviewInItems, BlobReviewKeeps
     DEF startConfigureBakerSuspendedDisplay
<1>7. CASE Throw
  BY <1>7, ThrowKeeps
<1>. QED  BY <1>1, <1>6, <1>7 DEF d, fed, ThrowAfterPrefix

-----------------------------------------------------------------------------
(* Buttons and the rest, and the theorems. *)

LEMMA ContinueKeeps ==
    ASSUME TypeOK, ReviewInv, confirmConfigureBakerStage
    PROVE  ReviewInv'
<1>1. latch' = latch /\ hash' = hash /\ path' = path /\ account' = account
      /\ approved' = approved \cup screen.items /\ screen'.cb = "stale" /\ screen.cb = "continue"
  BY DEF confirmConfigureBakerStage
<1>2. CASE latch # BAKER
  BY <1>1, <1>2, ReleasedFlow
<1>3. CASE latch = BAKER /\ ctx = Wiped
  <2>1. ctx' = [BakerZero EXCEPT !.state = BakerZero.pendingState]
    BY <1>3 DEF confirmConfigureBakerStage
  <2>2. ctx'.state = "zero"
    BY <2>1 DEF BakerZero
  <2>. QED  BY <1>1, <2>2 DEF ReviewInv, OpenStageWasReviewed, ParkedIsOnScreen,
                 StaleContinueIsInert, Open, OpenStages, Parked
<1>4. CASE latch = BAKER /\ ctx # Wiped
  <2>1. ctx \in BakerContext
    BY <1>4 DEF TypeOK, ShellTypes
  <2>2. ctx'.state = ctx.pendingState /\ ctx'.pendingState = ctx.pendingState
        /\ ctx'.firstDisplay = ctx.firstDisplay
    BY <1>4, <2>1 DEF confirmConfigureBakerStage, BakerContext
  <2>3. CASE Parked
    <3>1. ctx.pendingState \in LaterStages /\ ~ctx.firstDisplay
          /\ MustShow \subseteq approved \cup screen.items
      BY <2>3 DEF ReviewInv, ParkedIsOnScreen
    <3>2. MustShow' = MustShow
      BY <1>1 DEF MustShow
    <3>3. OpenStageWasReviewed'
      BY <1>1, <3>1, <3>2 DEF OpenStageWasReviewed
    <3>. QED  BY <1>1, <2>2, <3>1, <3>3 DEF ReviewInv, ParkedIsOnScreen, StaleContinueIsInert,
                   Parked, LaterStages
  <2>4. CASE ~Parked
    <3>1. ctx.pendingState = "zero"
      BY <1>1, <1>4, <2>4 DEF ReviewInv, StaleContinueIsInert, InBakerFlow
    <3>. QED  BY <1>1, <2>2, <3>1 DEF ReviewInv, OpenStageWasReviewed, ParkedIsOnScreen,
                   StaleContinueIsInert, Open, OpenStages, Parked
  <2>. QED  BY <2>3, <2>4
<1>. QED  BY <1>2, <1>3, <1>4

LEMMA ButtonKeeps ==
    ASSUME TypeOK, ReviewInv, BakerButton
    PROVE  ReviewInv'
<1>1. CASE buildAndSignTransactionHash
  BY <1>1, ReleasedFlow DEF buildAndSignTransactionHash, send_success, ui_menu_main, NONE, BAKER
<1>2. CASE SigningFails
  BY <1>2, ReleasedFlow DEF SigningFails, CallbackThrow, ui_menu_main, NONE, BAKER
<1>3. CASE Decline
  BY <1>3, ReleasedFlow DEF Decline, send_user_rejection, UserDeclines, ui_menu_main, NONE, BAKER
<1>. QED  BY <1>1, <1>2, <1>3, ContinueKeeps DEF BakerButton

LEMMA StandsStill ==
    ASSUME ReviewInv, UNCHANGED <<latch, ctx, hash, path, account, screen, approved>>
    PROVE  ReviewInv'
BY DEF ReviewInv, OpenStageWasReviewed, ParkedIsOnScreen, StaleContinueIsInert, Open, Parked,
       InBakerFlow, MustShow, Awaiting, HeaderOnFirstDisplay, addAccountHeaderPairs, HeaderPairs, ReviewUp

LEMMA OtherKeeps ==
    ASSUME TypeOK, ReviewInv, OtherStep
    PROVE  ReviewInv'
<1>1. CASE BadCommand
  BY <1>1, StandsStill DEF BadCommand, noFlow
<1>2. ASSUME NEW ins \in {BAKER, "GET_APP_NAME"}, SwitchGuard(ins)
      PROVE  ReviewInv'
  BY <1>2, ReleasedFlow DEF SwitchGuard, NONE, BAKER
<1>3. ASSUME NEW ins \in {BAKER, "GET_APP_NAME"}, RefusedByDispatcher(ins)
      PROVE  ReviewInv'
  <2>1. CASE latch = NONE
    BY <1>3, <2>1, ReleasedFlow DEF RefusedByDispatcher, Union, IsInitialCall
  <2>2. CASE latch # NONE
    BY <1>3, <2>2, StandsStill DEF RefusedByDispatcher, Enters, Union, IsInitialCall, noFlow
  <2>. QED  BY <2>1, <2>2
<1>4. CASE AppInfo("GET_APP_NAME")
  BY <1>4, ReleasedFlow DEF AppInfo, NONE, BAKER
<1>5. CASE UnknownInstruction
  BY <1>5, ReleasedFlow DEF UnknownInstruction, send_rejection, NONE, BAKER
<1>6. CASE AboutBack
  BY <1>6, ReleasedFlow DEF AboutBack, ui_menu_main, NONE, BAKER
<1>. QED  BY <1>1, <1>2, <1>3, <1>4, <1>5, <1>6 DEF OtherStep

LEMMA NextKeeps ==
    ASSUME TypeOK, ReviewInv, [BakerNext]_deviceVars
    PROVE  ReviewInv'
<1>1. CASE BakerPacket
  <2>1. CASE BakerWrongState
    BY <2>1, ThrowKeeps DEF BakerWrongState
  <2>. QED  BY <1>1, <2>1, InitialKeeps, FirstBatchKeeps, AggregationKeyKeeps, UrlLengthKeeps,
               UrlKeeps, CommissionKeeps, SuspendedKeeps DEF BakerPacket
<1>2. CASE BakerButton
  BY <1>2, ButtonKeeps
<1>3. CASE OtherStep
  BY <1>3, OtherKeeps
<1>4. CASE Restart
  BY <1>4, ReleasedFlow DEF Restart
<1>5. CASE UNCHANGED deviceVars
  BY <1>5, StandsStill DEF deviceVars
<1>. QED  BY <1>1, <1>2, <1>3, <1>4, <1>5 DEF BakerNext, Shell, OtherStep

\* The inductive invariant, for every value of the constants and whether or
\* not the SDK holds commands back.
THEOREM ReviewDrivesFlow == BakerSpec => []ReviewInv
<1>1. DeviceInit => ReviewInv
  BY DEF DeviceInit, ReviewInv, OpenStageWasReviewed, ParkedIsOnScreen, StaleContinueIsInert,
         Open, Parked, InBakerFlow, NONE, BAKER
<1>2. TypeOK /\ ReviewInv /\ [BakerNext]_deviceVars => ReviewInv'
  BY NextKeeps
<1>. QED  BY <1>1, <1>2, TypeCorrect, PTL DEF BakerSpec

\* No stage accepts a packet before the user has accepted, or is about to be
\* shown on one screen, everything hashed so far.
THEOREM StagesWaitForReview == BakerSpec => []OpenStageWasReviewed
<1>1. ReviewInv => OpenStageWasReviewed
  BY DEF ReviewInv
<1>. QED  BY <1>1, ReviewDrivesFlow, PTL

-----------------------------------------------------------------------------
(* With commands held back while an answer is owed. *)

\* A command answered at once leaves the screen alone.
LEMMA AnsweredAtOnce ==
    ASSUME Gated, AnswerInv, Delivered, screen' = screen,
           reply' = Refused \/ reply' = Success(<< >>)
    PROVE  AnswerInv'
<1>1. ~ReviewUp
  BY DEF AnswerInv, Delivered, ReplyOwedIffReviewUp
<1>2. ~ReviewUp' /\ reply' # Owed
  BY <1>1 DEF ReviewUp, Refused, Success, Owed
<1>3. ~HasSignature'
  BY DEF HasSignature, Refused, Success
<1>. QED  BY <1>2, <1>3 DEF AnswerInv, ReplyOwedIffReviewUp, SignedWasReviewed

\* The ways a packet of the flow ends: answered, or parked behind a review.
AnsweredNow   == screen' = screen /\ (reply' = Refused \/ reply' = Success(<< >>))
ParkedNow     == /\ latch' = BAKER /\ ctx'.view = BAKER /\ ctx'.state = "AWAITING_CONFIRM"
                 /\ reply' = Owed /\ ReviewUp'
PacketEnds    == AnsweredNow \/ ParkedNow

LEMMA ReviewParks ==
    ASSUME NEW d \in BakerContext, NEW next, NEW continues, NEW items,
           ReviewStage(d, next, BakerScreen(continues, items))
    PROVE  PacketEnds
<1>1. /\ ctx' = [[d EXCEPT !.firstDisplay = FALSE] EXCEPT !.pendingState = next, !.state = "AWAITING_CONFIRM"]
      /\ latch' = BAKER /\ reply' = Owed /\ screen' = BakerScreen(continues, items)
  BY DEF ReviewStage, Review, awaitConfigureBakerConfirm
<1>2. ctx'.state = "AWAITING_CONFIRM" /\ ctx'.view = BAKER
  BY <1>1 DEF BakerContext
<1>3. ReviewUp'
  BY <1>1 DEF ReviewUp, BakerScreen
<1>. QED  BY <1>1, <1>2, <1>3 DEF PacketEnds, ParkedNow

\* A command that draws a review parks the flow behind it.
LEMMA AnsweredLater ==
    ASSUME ParkedNow
    PROVE  AnswerInv'
<1>1. ctx' # Wiped
  BY DEF ParkedNow, Wiped, BAKER
<1>2. ~HasSignature'
  BY DEF ParkedNow, HasSignature, Owed
<1>. QED  BY <1>1, <1>2 DEF ParkedNow, AnswerInv, ReplyOwedIffReviewUp, SignedWasReviewed, Parked,
               InBakerFlow

LEMMA EveryPacketEnds ==
    ASSUME TypeOK, BakerPacket
    PROVE  Delivered /\ PacketEnds
<1>. DEFINE c == BakerView
<1>0. c \in BakerContext
  BY ViewType
<1>1. Delivered
  BY DEF BakerPacket, BakerInitial, BakerFirstBatch, BakerAggregationKey, BakerUrlLength, BakerUrl,
         handleCommissionRates, BakerSuspended, BakerWrongState, Enters
<1>. SUFFICES PacketEnds
  BY <1>1
<1>2. CASE BakerInitial
  BY <1>2 DEF BakerInitial, HeaderThrows, Throw, Ack, PacketEnds, AnsweredNow
<1>3. CASE BakerFirstBatch
  <2>1. PICK v \in Vals, k \in Vals :
          \/ screen' = screen /\ (reply' = Refused \/ reply' = Success(<< >>))
          \/ ReviewStage([c EXCEPT !.blob = DisplayedFirst(c, v)], AfterFirst(c),
                         startConfigureBakerDisplay([c EXCEPT !.blob = DisplayedFirst(c, v)]))
    BY <1>3 DEF BakerFirstBatch, ThrowAfterPrefix, Throw, Ack
  <2>. DEFINE d == [c EXCEPT !.blob = DisplayedFirst(c, v)]
  <2>2. d \in BakerContext
    BY <1>0, FieldTypes DEF BakerContext
  <2>. HIDE DEF c, d
  <2>3. CASE ReviewStage(d, AfterFirst(c), startConfigureBakerDisplay(d))
    BY <2>2, <2>3, ReviewParks DEF startConfigureBakerDisplay
  <2>. QED  BY <2>1, <2>3 DEF PacketEnds, AnsweredNow, d
<1>4. CASE BakerAggregationKey
  <2>1. PICK k \in Vals :
          \/ screen' = screen /\ reply' = Refused
          \/ ReviewStage([c EXCEPT !.keysHash = Append(@, <<"aggregationKey", k>>)], AfterFirst(c),
               startConfigureBakerDisplay([c EXCEPT !.keysHash = Append(@, <<"aggregationKey", k>>)]))
    BY <1>4 DEF BakerAggregationKey, Throw
  <2>. DEFINE d == [c EXCEPT !.keysHash = Append(@, <<"aggregationKey", k>>)]
  <2>. HIDE DEF c
  <2>2. Append(c.keysHash, <<"aggregationKey", k>>) \in Seq(BakerItem)
    <3>1. <<"aggregationKey", k>> \in BakerItem
      BY ItemTypes DEF ValueTags
    <3>. QED  BY <1>0, <3>1, ContextFields
  <2>3. d \in BakerContext
    BY <1>0, <2>2 DEF BakerContext
  <2>. HIDE DEF d
  <2>4. CASE ReviewStage(d, AfterFirst(c), startConfigureBakerDisplay(d))
    BY <2>3, <2>4, ReviewParks DEF startConfigureBakerDisplay
  <2>. QED  BY <2>1, <2>4 DEF PacketEnds, AnsweredNow, d
<1>5. CASE BakerUrlLength
  <2>1. PICK n \in 0 .. UrlMax + 1 :
          \/ screen' = screen /\ (reply' = Refused \/ reply' = Success(<< >>))
          \/ /\ n = 0
             /\ ReviewStage([c EXCEPT !.urlLength = n, !.blob = << >>], AfterUrl(c),
                  startConfigureBakerUrlDisplay([c EXCEPT !.urlLength = n, !.blob = << >>], TRUE))
    BY <1>5 DEF BakerUrlLength, Throw, Ack
  <2>. DEFINE d == [c EXCEPT !.urlLength = n, !.blob = << >>]
  <2>2. ASSUME n = 0 PROVE d \in BakerContext
    <3>1. << >> \in Seq(BakerItem) /\ n \in 0 .. UrlMax
      BY <2>2, BakerAssumption
    <3>. QED  BY <1>0, <3>1 DEF BakerContext
  <2>. HIDE DEF c, d
  <2>3. CASE n = 0 /\ ReviewStage(d, AfterUrl(c), startConfigureBakerUrlDisplay(d, TRUE))
    BY <2>2, <2>3, ReviewParks DEF startConfigureBakerUrlDisplay
  <2>. QED  BY <2>1, <2>3 DEF PacketEnds, AnsweredNow, d
<1>6. CASE BakerUrl
  <2>1. PICK n \in 1 .. ChunkMax, v \in Vals :
          LET last == c.urlLength = n
              d    == [c EXCEPT !.blob = <<<<"url", v, n>>>>,
                                !.urlLength = IF last THEN @ ELSE @ - n]
          IN  \/ screen' = screen /\ reply' = Refused
              \/ /\ c.urlLength >= n
                 /\ ReviewStage(d, IF last THEN AfterUrl(c) ELSE "URL",
                                startConfigureBakerUrlDisplay(d, last))
    BY <1>6 DEF BakerUrl, Throw, send_rejection
  <2>. DEFINE last == c.urlLength = n
              fed  == <<<<"url", v, n>>>>
              d    == [c EXCEPT !.blob = fed, !.urlLength = IF last THEN @ ELSE @ - n]
              next == IF last THEN AfterUrl(c) ELSE "URL"
  <2>. HIDE DEF c
  <2>2. fed \in Seq(BakerItem)
    BY ItemTypes, SingletonSeq, Zenon
  <2>3. ASSUME c.urlLength >= n PROVE d \in BakerContext
    <3>1. c.urlLength - n \in 0 .. UrlMax
      BY <1>0, <2>3, ContextFields, BakerAssumption
    <3>. HIDE DEF fed
    <3>. QED  BY <1>0, <2>2, <3>1 DEF BakerContext
  <2>. HIDE DEF d, next, last
  <2>4. CASE c.urlLength >= n /\ ReviewStage(d, next, startConfigureBakerUrlDisplay(d, last))
    BY <2>3, <2>4, ReviewParks DEF startConfigureBakerUrlDisplay
  <2>. QED  BY <2>1, <2>4 DEF PacketEnds, AnsweredNow, d, next, last
<1>7. CASE handleCommissionRates
  <2>1. PICK v \in Vals :
          LET d == [c EXCEPT !.blob = CommissionItems(c, v)]
          IN  \/ screen' = screen /\ reply' = Refused
              \/ ReviewStage(d, IF "suspended" \in c.has THEN "SUSPENDED" ELSE "END",
                             startConfigureBakerCommissionDisplay(d))
    BY <1>7 DEF handleCommissionRates, ThrowAfterPrefix, Throw
  <2>. DEFINE d    == [c EXCEPT !.blob = CommissionItems(c, v)]
              next == IF "suspended" \in c.has THEN "SUSPENDED" ELSE "END"
  <2>2. d \in BakerContext
    BY <1>0, FieldTypes DEF BakerContext
  <2>. HIDE DEF c, d, next
  <2>3. CASE ReviewStage(d, next, startConfigureBakerCommissionDisplay(d))
    BY <2>2, <2>3, ReviewParks DEF startConfigureBakerCommissionDisplay
  <2>. QED  BY <2>1, <2>3 DEF PacketEnds, AnsweredNow, d, next
<1>8. CASE BakerSuspended
  <2>1. PICK v \in Vals :
          LET d == [c EXCEPT !.blob = <<<<"suspended", v>>>>]
          IN  \/ screen' = screen /\ reply' = Refused
              \/ ReviewStage(d, "END", startConfigureBakerSuspendedDisplay(d))
    BY <1>8 DEF BakerSuspended, ThrowAfterPrefix, Throw
  <2>. DEFINE fed == <<<<"suspended", v>>>>
              d   == [c EXCEPT !.blob = fed]
  <2>2. fed \in Seq(BakerItem)
    <3>1. "suspended" \in ValueTags
      BY DEF ValueTags
    <3>. QED  BY <3>1, ItemTypes, SingletonSeq, Zenon
  <2>3. d \in BakerContext
    <3>. HIDE DEF fed
    <3>. QED  BY <1>0, <2>2 DEF BakerContext
  <2>. HIDE DEF c, d
  <2>4. CASE ReviewStage(d, "END", startConfigureBakerSuspendedDisplay(d))
    BY <2>3, <2>4, ReviewParks DEF startConfigureBakerSuspendedDisplay
  <2>. QED  BY <2>1, <2>4 DEF PacketEnds, AnsweredNow, d
<1>9. CASE BakerWrongState
  BY <1>9 DEF BakerWrongState, Throw, PacketEnds, AnsweredNow
<1>. QED  BY <1>2, <1>3, <1>4, <1>5, <1>6, <1>7, <1>8, <1>9 DEF BakerPacket

LEMMA HomeAnswered ==
    ASSUME screen' = Home, reply' # Owed, ~HasSignature'
    PROVE  AnswerInv'
BY DEF AnswerInv, ReplyOwedIffReviewUp, ReviewUp, Home, SignedWasReviewed

LEMMA ButtonAnswers ==
    ASSUME TypeOK, ReviewInv, AnswerInv, BakerButton
    PROVE  AnswerInv'
<1>1. CASE confirmConfigureBakerStage
  <2>1. screen'.cb = "stale" /\ reply' = Success(<< >>)
    BY <1>1 DEF confirmConfigureBakerStage
  <2>2. ~ReviewUp' /\ reply' # Owed /\ ~HasSignature'
    BY <2>1 DEF ReviewUp, Success, Owed, HasSignature
  <2>. QED  BY <2>2 DEF AnswerInv, ReplyOwedIffReviewUp, SignedWasReviewed
<1>2. CASE buildAndSignTransactionHash
  <2>1. Parked
    BY <1>2 DEF buildAndSignTransactionHash, AnswerInv, ReviewUp
  <2>2. MustShow \subseteq approved \cup screen.items
    BY <2>1 DEF ReviewInv, ParkedIsOnScreen
  <2>3. /\ reply' = Success(<<"signature", hash, path>>)
        /\ approved' = approved \cup screen.items /\ screen' = Home
    BY <1>2 DEF buildAndSignTransactionHash, send_success, ui_menu_main
  <2>4. SignedItems' = hash /\ SigningPath' = path /\ reply' # Owed
    BY <2>3 DEF SignedItems, SigningPath, Success, Owed
  <2>5. SignedWasReviewed'
    BY <2>2, <2>3, <2>4 DEF SignedWasReviewed, MustShow
  <2>6. ~ReviewUp'
    BY <2>3 DEF ReviewUp, Home
  <2>. QED  BY <2>4, <2>5, <2>6 DEF AnswerInv, ReplyOwedIffReviewUp
<1>3. CASE SigningFails
  <2>1. screen' = Home /\ reply' = Refused
    BY <1>3 DEF SigningFails, CallbackThrow, ui_menu_main
  <2>. QED  BY <2>1, HomeAnswered DEF Refused, Owed, HasSignature
<1>4. CASE Decline
  <2>1. screen' = Home /\ reply' = Declined
    BY <1>4 DEF Decline, send_user_rejection, UserDeclines, ui_menu_main
  <2>. QED  BY <2>1, HomeAnswered DEF Declined, Owed, HasSignature
<1>. QED  BY <1>1, <1>2, <1>3, <1>4 DEF BakerButton

LEMMA NextAnswers ==
    ASSUME Gated, TypeOK, ReviewInv, AnswerInv, [BakerNext]_deviceVars
    PROVE  AnswerInv'
<1>1. CASE BakerPacket
  <2>1. Delivered /\ PacketEnds
    BY <1>1, EveryPacketEnds
  <2>2. CASE screen' = screen /\ (reply' = Refused \/ reply' = Success(<< >>))
    BY <2>1, <2>2, AnsweredAtOnce
  <2>. QED  BY <2>1, <2>2, AnsweredLater DEF PacketEnds, AnsweredNow
<1>2. CASE BakerButton
  BY <1>2, ButtonAnswers
<1>3. CASE OtherStep
  <2>1. CASE AboutBack
    <3>1. screen' = screen /\ reply' = reply /\ approved' = approved /\ ~ReviewUp
      BY <2>1 DEF AboutBack, ui_menu_main, noFlow, ReviewUp, Home
    <3>2. SignedWasReviewed'
      BY <3>1 DEF AnswerInv, SignedWasReviewed, HasSignature, SignedItems, SigningPath
    <3>. QED  BY <3>1, <3>2 DEF AnswerInv, ReplyOwedIffReviewUp, ReviewUp
  <2>2. CASE ~AboutBack
    <3>1. Delivered /\ screen' = screen /\ (reply' = Refused \/ reply' = Success(<< >>))
      BY <1>3, <2>2 DEF OtherStep, BadCommand, SwitchGuard, RefusedByDispatcher, AppInfo,
         UnknownInstruction, send_rejection, Enters
    <3>. QED  BY <3>1, AnsweredAtOnce
  <2>. QED  BY <2>1, <2>2
<1>4. CASE Restart
  <2>1. screen' = Home /\ reply' = Idle
    BY <1>4 DEF Restart
  <2>. QED  BY <2>1, HomeAnswered DEF Idle, Owed, HasSignature
<1>5. CASE UNCHANGED deviceVars
  BY <1>5 DEF deviceVars, AnswerInv, ReplyOwedIffReviewUp, ReviewUp, Parked, InBakerFlow,
     SignedWasReviewed, HasSignature, SignedItems, SigningPath
<1>. QED  BY <1>1, <1>2, <1>3, <1>4, <1>5 DEF BakerNext, Shell, OtherStep

\* With the SDK holding commands back, the answer to a command is owed exactly
\* while the review the flow is parked behind is on screen.
THEOREM AnswersMatchReviews ==
    ASSUME Gated
    PROVE  BakerSpec => []AnswerInv
<1>1. DeviceInit => AnswerInv
  BY DEF DeviceInit, AnswerInv, ReplyOwedIffReviewUp, ReviewUp, SignedWasReviewed, HasSignature,
         Home, Idle, Owed
<1>2. TypeOK /\ ReviewInv /\ AnswerInv /\ [BakerNext]_deviceVars => AnswerInv'
  BY NextAnswers
<1>. QED  BY <1>1, <1>2, TypeCorrect, ReviewDrivesFlow, PTL DEF BakerSpec

\* What you see is what you sign, for every transaction: each visible item of
\* a signed transcript, and the network of the signing key, was accepted.
THEOREM WhatIsSignedWasReviewed ==
    ASSUME Gated
    PROVE  BakerSpec => []SignedWasReviewed
<1>1. AnswerInv => SignedWasReviewed
  BY DEF AnswerInv
<1>. QED  BY <1>1, AnswersMatchReviews, PTL

\* A host is left waiting exactly while a review that will answer it is up.
THEOREM NoAnswerIsLost ==
    ASSUME Gated
    PROVE  BakerSpec => []ReplyOwedIffReviewUp
<1>1. AnswerInv => ReplyOwedIffReviewUp
  BY DEF AnswerInv
<1>. QED  BY <1>1, AnswersMatchReviews, PTL

-----------------------------------------------------------------------------
(* The flow implements the signing contract. *)

\* What a packet may do to the transcript: begin it afresh, or add to it.
LEMMA PacketCollects ==
    ASSUME TypeOK, BakerPacket
    PROVE  \/ approved' = {}
           \/ approved' = approved /\ \E items \in Seq(BakerItem) : hash' = hash \o items
<1>0. << >> \in Seq(BakerItem) /\ hash = hash \o << >>
  BY DEF TypeOK, TranscriptTypes
<1>1. CASE BakerInitial
  BY <1>1 DEF BakerInitial, hashAccountTransactionHeaderAndKind, AccountSender, HeaderThrows
<1>2. ASSUME UNCHANGED hash, approved' = approved
      PROVE  approved' = approved /\ \E items \in Seq(BakerItem) : hash' = hash \o items
  BY <1>0, <1>2
<1>3. ASSUME NEW items \in Seq(BakerItem), Feed(items) \/ ThrowAfterPrefix(items), approved' = approved
      PROVE  approved' = approved /\ \E its \in Seq(BakerItem) : hash' = hash \o its
  <2>1. CASE Feed(items)
    BY <1>3, <2>1 DEF Feed
  <2>2. ASSUME NEW k \in 0 .. Len(items), Feed(SubSeq(items, 1, k))
        PROVE  \E its \in Seq(BakerItem) : hash' = hash \o its
    BY <2>2, PrefixOfSeq DEF Feed
  <2>. QED  BY <1>3, <2>1, <2>2 DEF ThrowAfterPrefix
<1>4. CASE BakerFirstBatch
  <2>1. PICK v \in Vals, k \in Vals :
          LET items == FirstBatchItems(BakerView, v, k)
          IN  approved' = approved /\ (Feed(items) \/ ThrowAfterPrefix(items))
    BY <1>4 DEF BakerFirstBatch, txConst
  <2>. QED  BY <2>1, <1>3, FieldTypes
<1>5. CASE BakerAggregationKey
  <2>1. PICK k \in Vals : /\ approved' = approved
                          /\ \/ Feed(<<<<"aggregationKey", k>>, <<"aggregationProof", k>>>>)
                             \/ UNCHANGED hash
    BY <1>5 DEF BakerAggregationKey, txConst
  <2>2. <<<<"aggregationKey", k>>, <<"aggregationProof", k>>>> \in Seq(BakerItem)
    <3>1. <<"aggregationKey", k>> \in BakerItem /\ <<"aggregationProof", k>> \in BakerItem
      BY ItemTypes DEF ValueTags
    <3>. QED  BY <3>1
  <2>. QED  BY <2>1, <2>2, <1>2, <1>3
<1>6. CASE BakerUrlLength
  <2>1. PICK n \in 0 .. UrlMax + 1 :
          /\ approved' = approved
          /\ \/ UNCHANGED hash
             \/ n = 0 /\ Feed(<<<<"urlLength", 0>>>>)
             \/ n <= UrlMax /\ Feed(<<<<"urlLength", n>>>>)
    BY <1>6 DEF BakerUrlLength, txConst, UrlLengthFits
  <2>2. ASSUME n <= UrlMax PROVE <<<<"urlLength", n>>>> \in Seq(BakerItem)
    <3>1. <<"urlLength", n>> \in BakerItem
      BY <2>2, ItemTypes, BakerAssumption
    <3>. QED  BY <3>1, SingletonSeq, Zenon
  <2>3. n = 0 => n <= UrlMax
    BY BakerAssumption
  <2>. QED  BY <2>1, <2>2, <2>3, <1>2, <1>3
<1>7. CASE BakerUrl
  <2>1. PICK n \in 1 .. ChunkMax, v \in Vals :
          approved' = approved /\ (UNCHANGED hash \/ Feed(<<<<"url", v, n>>>>))
    BY <1>7 DEF BakerUrl, txConst
  <2>2. <<<<"url", v, n>>>> \in Seq(BakerItem)
    BY ItemTypes, SingletonSeq, Zenon
  <2>. QED  BY <2>1, <2>2, <1>2, <1>3
<1>8. CASE handleCommissionRates
  <2>1. PICK v \in Vals :
          LET items == CommissionItems(BakerView, v)
          IN  approved' = approved /\ (Feed(items) \/ ThrowAfterPrefix(items))
    BY <1>8 DEF handleCommissionRates, txConst
  <2>. QED  BY <2>1, <1>3, FieldTypes
<1>9. CASE BakerSuspended
  <2>1. PICK v \in Vals :
          LET items == <<<<"suspended", v>>>>
          IN  approved' = approved /\ (Feed(items) \/ ThrowAfterPrefix(items))
    BY <1>9 DEF BakerSuspended, txConst
  <2>2. <<<<"suspended", v>>>> \in Seq(BakerItem)
    <3>1. "suspended" \in ValueTags
      BY DEF ValueTags
    <3>. QED  BY <3>1, ItemTypes, SingletonSeq, Zenon
  <2>. QED  BY <2>1, <2>2, <1>3
<1>10. CASE BakerWrongState
  BY <1>10, <1>2 DEF BakerWrongState
<1>. QED  BY <1>1, <1>4, <1>5, <1>6, <1>7, <1>8, <1>9, <1>10 DEF BakerPacket

\* Appending leaves what was there in place.
LEMMA AppendedPrefix ==
    ASSUME NEW S, NEW s \in Seq(S), NEW t \in Seq(S)
    PROVE  Len(s) <= Len(s \o t) /\ SubSeq(s \o t, 1, Len(s)) = s
OBVIOUS

\* An answer is owed or not by its status word alone.
LEMMA OwedByStatus ==
    ASSUME NEW r \in BakerReply, r # Owed
    PROVE  r.sw # "owed"
BY DEF BakerReply, Owed, Idle, Refused, Declined

\* A packet that is answered without a signature collects.
LEMMA CollectsMore ==
    ASSUME reply.sw # "owed", ~(reply'.sw = "success" /\ reply'.body # << >>),
           approved' = approved, hash \in Seq(BakerItem),
           NEW items \in Seq(BakerItem), hash' = hash \o items
    PROVE  Contract!Collect
<1>1. Len(hash) <= Len(hash') /\ SubSeq(hash', 1, Len(hash)) = hash
  BY AppendedPrefix
<1>. QED  BY <1>1 DEF Contract!Collect, Contract!Extended, Contract!IsOwed, Contract!IsSignature

\* Every step of the flow is a step of the contract, or none.
LEMMA StepHonoursContract ==
    ASSUME Gated, TypeOK, ReviewInv, AnswerInv, [BakerNext]_deviceVars
    PROVE  [Contract!ContractNext]_(Contract!contractVars)
<1>. USE DEF Contract!contractVars
<1>1. CASE BakerPacket
  <2>1. Delivered /\ PacketEnds
    BY <1>1, EveryPacketEnds
  <2>2. reply.sw # "owed"
    <3>1. reply # Owed /\ reply \in BakerReply
      BY <2>1 DEF Delivered, TypeOK, ShellTypes
    <3>. QED  BY <3>1, OwedByStatus
  <2>3. ~(reply'.sw = "success" /\ reply'.body # << >>)
    BY <2>1 DEF PacketEnds, AnsweredNow, ParkedNow, Refused, Success, Owed
  <2>4. CASE approved' = {}
    BY <2>2, <2>3, <2>4 DEF Contract!ContractNext, Contract!Begin, Contract!IsOwed, Contract!IsSignature
  <2>5. ASSUME approved' = approved, NEW items \in Seq(BakerItem), hash' = hash \o items
        PROVE  Contract!Collect
    BY <2>2, <2>3, <2>5, CollectsMore DEF TypeOK, TranscriptTypes
  <2>. QED  BY <1>1, <2>4, <2>5, PacketCollects DEF Contract!ContractNext
<1>2. CASE BakerButton
  <2>1. reply.sw = "owed" /\ ReviewUp
    <3>1. ReviewUp
      BY <1>2 DEF BakerButton, confirmConfigureBakerStage, buildAndSignTransactionHash,
         SigningFails, Decline, ReviewUp
    <3>. QED  BY <3>1 DEF AnswerInv, ReplyOwedIffReviewUp, Owed
  <2>2. CASE buildAndSignTransactionHash
    <3>1. /\ reply' = Success(<<"signature", hash, path>>)
          /\ approved' = approved \cup screen.items
          /\ hash' = hash
      BY <2>2 DEF buildAndSignTransactionHash, send_success
    <3>2. NeedsReview(hash) \subseteq approved'
      BY <2>1, <3>1 DEF AnswerInv, ReviewInv, ParkedIsOnScreen, MustShow
    <3>3. reply'.sw = "success" /\ reply'.body # << >> /\ reply'.body[2] = hash
      BY <3>1 DEF Success
    <3>4. Contract!Sign
      BY <2>1, <3>1, <3>2, <3>3 DEF Contract!Sign, Contract!IsOwed, Contract!IsSignature
    <3>. QED  BY <3>4 DEF Contract!ContractNext
  <2>3. CASE ~buildAndSignTransactionHash
    <3>1. /\ reply' \in {Success(<< >>), Refused, Declined}
          /\ approved \subseteq approved'
          /\ hash' = hash
      BY <1>2, <2>3 DEF BakerButton, confirmConfigureBakerStage, SigningFails, Decline,
         CallbackThrow, send_user_rejection, UserDeclines, noFlow
    <3>2. reply'.sw # "owed" /\ ~(reply'.sw = "success" /\ reply'.body # << >>)
      BY <3>1 DEF Success, Refused, Declined
    <3>3. Contract!Resolve
      BY <2>1, <3>1, <3>2 DEF Contract!Resolve, Contract!IsOwed, Contract!IsSignature
    <3>. QED  BY <3>3 DEF Contract!ContractNext
  <2>. QED  BY <2>2, <2>3
<1>3. CASE OtherStep
  <2>1. CASE AboutBack
    BY <2>1 DEF AboutBack, noFlow
  <2>2. CASE ~AboutBack
    <3>1. Delivered /\ UNCHANGED noFlow /\ (reply' = Refused \/ reply' = Success(<< >>))
      BY <1>3, <2>2 DEF OtherStep, BadCommand, SwitchGuard, RefusedByDispatcher, AppInfo,
         UnknownInstruction, send_rejection, Enters
    <3>2. reply.sw # "owed"
      <4>1. reply # Owed /\ reply \in BakerReply
        BY <3>1 DEF Delivered, TypeOK, ShellTypes
      <4>. QED  BY <4>1, OwedByStatus
    <3>3. ~(reply'.sw = "success" /\ reply'.body # << >>)
      BY <3>1 DEF Success, Refused
    <3>4. approved' = approved /\ hash' = hash \o << >> /\ << >> \in Seq(BakerItem)
      BY <3>1 DEF noFlow, TypeOK, TranscriptTypes
    <3>5. Contract!Collect
      BY <3>2, <3>3, <3>4, CollectsMore DEF TypeOK, TranscriptTypes
    <3>. QED  BY <3>5 DEF Contract!ContractNext
  <2>. QED  BY <2>1, <2>2
<1>4. CASE Restart
  <2>1. reply' = Idle /\ approved' = {} /\ hash' = << >>
    BY <1>4 DEF Restart
  <2>. QED  BY <2>1 DEF Contract!ContractNext, Contract!Begin, Contract!IsOwed,
                Contract!IsSignature, Idle
<1>5. CASE UNCHANGED deviceVars
  BY <1>5 DEF deviceVars
<1>. QED  BY <1>1, <1>2, <1>3, <1>4, <1>5 DEF BakerNext, Shell, OtherStep

\* The baker flow implements the contract of a signing instruction: it signs
\* exactly what it collected, only from a review, and only once every visible
\* item was accepted; nothing is collected while a review is up.
THEOREM FlowHonoursContract ==
    ASSUME Gated
    PROVE  BakerSpec => ImplementsContract
<1>1. DeviceInit => Contract!ContractInit
  BY DEF DeviceInit, Contract!ContractInit, Contract!IsOwed, Contract!IsSignature, Idle
<1>2. TypeOK /\ ReviewInv /\ AnswerInv /\ [BakerNext]_deviceVars
        => [Contract!ContractNext]_(Contract!contractVars)
  BY StepHonoursContract
<1>. QED  BY <1>1, <1>2, TypeCorrect, ReviewDrivesFlow, AnswersMatchReviews, PTL
          DEF BakerSpec, ImplementsContract, Contract!ContractSpec

-----------------------------------------------------------------------------
(* Only whole transactions are signed.  The tags of the transcript are those *)
(* of the stages gone through; the URL's length is its bytes so far and those *)
(* to come.                                                                 *)

Begun == <<"header", "kind", "bitmap">>

\* The tags hashed before the given stage.
StageWire(has, stage, u) ==
    CASE stage = "FIRST"            -> << >>
      [] stage = "AGGREGATION_KEY"  ->
            DisplayWire(has) \o <<"electionKey", "electionProof", "signatureKey", "signatureProof">>
      [] stage = "URL_LENGTH"       -> FirstWire(has)
      [] stage = "URL"              -> FirstWire(has) \o UrlWire(has, u)
      [] stage = "COMMISSION_RATES" -> FirstWire(has) \o UrlWire(has, u)
      [] stage = "SUSPENDED"        -> FirstWire(has) \o UrlWire(has, u) \o CommissionWire(has)
      [] OTHER                      -> Wire(has, u)

\* A stage is only gone into when the bitmap declares something of it.
Reached(has, stage) ==
    /\ stage = "FIRST" => has \cap FirstFields # {}
    /\ stage = "AGGREGATION_KEY" => "keys" \in has
    /\ stage \in {"URL_LENGTH", "URL"} => "metadataUrl" \in has
    /\ stage = "COMMISSION_RATES" => has \cap Commissions # {}
    /\ stage = "SUSPENDED" => "suspended" \in has

NoUrl(s) == \A i \in DOMAIN s : s[i][1] \notin {"url", "urlLength"}

BeforeUrl == {"FIRST", "AGGREGATION_KEY", "URL_LENGTH"}

Transcript(s, has, stage, left) ==
    /\ Len(s) >= 3 /\ s[2] = <<"kind", BAKER>> /\ s[3] = <<"bitmap", has>>
    /\ \E u \in 0 .. Len(s) : Tags(s) = Begun \o StageWire(has, stage, u)
    /\ UrlTold(s, IF stage = "URL" THEN left ELSE 0)
    /\ stage \in BeforeUrl => NoUrl(s)
    /\ stage = "END" => Len(s) > 3
    /\ Reached(has, stage)

StageOf(c) == IF c.state = "AWAITING_CONFIRM" THEN c.pendingState ELSE c.state

\* Why only whole transactions are signed: the transcript is that of the stage
\* the flow is in, and Sign is only offered behind the last.
TranscriptInv ==
    /\ Open \/ Parked => Transcript(hash, ctx.has, StageOf(ctx), ctx.urlLength)
    /\ Parked /\ screen.cb = "sign" => ctx.pendingState = "END"
    /\ SignedIsComplete

BakerTags == ValueTags \cup {"header", "kind", "bitmap", "urlLength", "url"}

LEMMA ItemTag == ASSUME NEW x \in BakerItem PROVE x[1] \in BakerTags
<1>1. CASE x \in {"header"} \X Headers
  BY <1>1 DEF BakerTags
<1>2. CASE x = <<"kind", BAKER>>
  BY <1>2 DEF BakerTags
<1>3. CASE x \in {"bitmap"} \X Bitmaps
  BY <1>3 DEF BakerTags
<1>4. CASE x \in ValueTags \X Vals
  BY <1>4 DEF BakerTags
<1>5. CASE x \in {"urlLength"} \X (0 .. UrlMax)
  BY <1>5 DEF BakerTags
<1>6. CASE x \in {"url"} \X Vals \X (1 .. ChunkMax)
  BY <1>6 DEF BakerTags
<1> QED
  BY <1>1, <1>2, <1>3, <1>4, <1>5, <1>6 DEF BakerItem

LEMMA TagsKnown ==
    ASSUME NEW s \in Seq(BakerItem)
    PROVE  /\ Tags(s) \in Seq(BakerTags) /\ Len(Tags(s)) = Len(s)
           /\ \A i \in 1 .. Len(s) : Tags(s)[i] = s[i][1]
<1>1. DOMAIN s = 1 .. Len(s) /\ Len(s) \in Nat
  OBVIOUS
<1>2. \A i \in 1 .. Len(s) : s[i][1] \in BakerTags
  BY ItemTag
<1>3. Tags(s) = [i \in 1 .. Len(s) |-> s[i][1]]
  BY <1>1 DEF Tags
<1> QED
  BY <1>1, <1>2, <1>3

LEMMA JoinAt ==
    ASSUME NEW X, NEW a \in Seq(X), NEW b \in Seq(X)
    PROVE  /\ a \o b \in Seq(X) /\ Len(a \o b) = Len(a) + Len(b)
           /\ \A i \in 1 .. Len(a) + Len(b) :
                 (a \o b)[i] = IF i <= Len(a) THEN a[i] ELSE b[i - Len(a)]
  OBVIOUS

LEMMA TagsConcat ==
    ASSUME NEW s \in Seq(BakerItem), NEW t \in Seq(BakerItem)
    PROVE  Tags(s \o t) = Tags(s) \o Tags(t)
<1> DEFINE r == s \o t
           a == Tags(s)
           b == Tags(t)
           d == Tags(r)
<1>1. /\ r \in Seq(BakerItem) /\ Len(r) = Len(s) + Len(t) /\ Len(s) \in Nat /\ Len(t) \in Nat
      /\ \A i \in 1 .. Len(r) : r[i] = IF i <= Len(s) THEN s[i] ELSE t[i - Len(s)]
  OBVIOUS
<1> HIDE DEF r
<1>2. /\ a \in Seq(BakerTags) /\ Len(a) = Len(s) /\ \A i \in 1 .. Len(s) : a[i] = s[i][1]
  BY TagsKnown
<1>3. /\ b \in Seq(BakerTags) /\ Len(b) = Len(t) /\ \A i \in 1 .. Len(t) : b[i] = t[i][1]
  BY TagsKnown
<1>4. /\ d \in Seq(BakerTags) /\ Len(d) = Len(r) /\ \A i \in 1 .. Len(r) : d[i] = r[i][1]
  BY <1>1, TagsKnown
<1> HIDE DEF a, b, d
<1>5. /\ a \o b \in Seq(BakerTags) /\ Len(a \o b) = Len(a) + Len(b)
      /\ \A i \in 1 .. Len(a) + Len(b) : (a \o b)[i] = IF i <= Len(a) THEN a[i] ELSE b[i - Len(a)]
  <2>1. a \in Seq(BakerTags) /\ b \in Seq(BakerTags)
    BY <1>2, <1>3
  <2> QED
    BY ONLY <2>1, JoinAt
<1>6. ASSUME NEW i \in 1 .. Len(r) PROVE d[i] = (a \o b)[i]
  <2>1. i \in 1 .. Len(a) + Len(b) /\ d[i] = r[i][1]
    BY <1>1, <1>2, <1>3, <1>4
  <2>2. CASE i <= Len(s)
    <3>1. i \in 1 .. Len(s) /\ r[i] = s[i]
      BY <1>1, <2>2
    <3> QED
      BY <1>2, <1>5, <2>1, <2>2, <3>1
  <2>3. CASE ~(i <= Len(s))
    <3>1. i - Len(s) \in 1 .. Len(t) /\ r[i] = t[i - Len(s)]
      BY <1>1, <2>3, SMTT(30)
    <3> QED
      BY <1>2, <1>3, <1>5, <2>1, <2>3, <3>1
  <2> QED
    BY <2>2, <2>3
<1>7. d = a \o b
  BY <1>1, <1>2, <1>3, <1>4, <1>5, <1>6
<1> QED
  BY <1>7 DEF a, b, d, r

LEMMA Joins ==
    ASSUME NEW a \in Seq(BakerTags), NEW b \in Seq(BakerTags), NEW c \in Seq(BakerTags)
    PROVE  /\ a \o b \in Seq(BakerTags) /\ Len(a \o b) = Len(a) + Len(b)
           /\ (a \o b) \o c = a \o (b \o c)
           /\ a \o << >> = a /\ << >> \o a = a
  OBVIOUS

\* What a field is serialized to, when it is declared.
LEMMA ToldKnown ==
    ASSUME NEW has, NEW field, NEW tags \in Seq(BakerTags)
    PROVE  /\ Told(has, field, tags) \in Seq(BakerTags)
           /\ field \notin has => Told(has, field, tags) = << >>
           /\ field \in has => Told(has, field, tags) = tags
<1>1. << >> \in Seq(BakerTags)
  OBVIOUS
<1> QED
  BY <1>1 DEF Told

LEMMA WiresKnown ==
    ASSUME NEW has, NEW u \in Nat
    PROVE  /\ DisplayWire(has) \in Seq(BakerTags) /\ FirstWire(has) \in Seq(BakerTags)
           /\ UrlWire(has, u) \in Seq(BakerTags) /\ CommissionWire(has) \in Seq(BakerTags)
           /\ Wire(has, u) \in Seq(BakerTags)
<1>1. /\ <<"capital">> \in Seq(BakerTags) /\ <<"restakeEarnings">> \in Seq(BakerTags)
      /\ <<"openForDelegation">> \in Seq(BakerTags) /\ <<"transactionFee">> \in Seq(BakerTags)
      /\ <<"bakingReward">> \in Seq(BakerTags) /\ <<"finalizationReward">> \in Seq(BakerTags)
      /\ <<"suspended">> \in Seq(BakerTags)
      /\ <<"electionKey", "electionProof", "signatureKey", "signatureProof",
           "aggregationKey", "aggregationProof">> \in Seq(BakerTags)
  BY DEF BakerTags, ValueTags
<1>2. <<"urlLength">> \in Seq(BakerTags) /\ [i \in 1 .. u |-> "url"] \in Seq(BakerTags)
  BY DEF BakerTags
<1>3. <<"urlLength">> \o [i \in 1 .. u |-> "url"] \in Seq(BakerTags)
  BY <1>2
<1>4. DisplayWire(has) \in Seq(BakerTags)
  BY <1>1, ToldKnown, Joins, ZenonT(30) DEF DisplayWire
<1>5. FirstWire(has) \in Seq(BakerTags)
  <2> DEFINE k == <<"electionKey", "electionProof", "signatureKey", "signatureProof",
                    "aggregationKey", "aggregationProof">>
  <2>1. k \in Seq(BakerTags) /\ FirstWire(has) = DisplayWire(has) \o Told(has, "keys", k)
    BY <1>1 DEF FirstWire
  <2> HIDE DEF k
  <2>2. Told(has, "keys", k) \in Seq(BakerTags)
    BY <2>1, ToldKnown
  <2> QED
    BY <1>4, <2>1, <2>2, JoinAt
<1>6. UrlWire(has, u) \in Seq(BakerTags)
  BY <1>3, ToldKnown, Zenon DEF UrlWire
<1>7. CommissionWire(has) \in Seq(BakerTags)
  BY <1>1, ToldKnown, Joins, ZenonT(30) DEF CommissionWire
<1>8. Wire(has, u) \in Seq(BakerTags)
  BY <1>1, <1>5, <1>6, <1>7, ToldKnown, Joins, Zenon DEF Wire
<1> QED
  BY <1>4, <1>5, <1>6, <1>7, <1>8

\* Stages that the bitmap skips leave no tags.
LEMMA NothingSkipped ==
    ASSUME NEW has, NEW u \in Nat
    PROVE  /\ has \cap FirstFields = {} => FirstWire(has) = << >>
           /\ "keys" \notin has => FirstWire(has) = DisplayWire(has)
           /\ "metadataUrl" \notin has => UrlWire(has, u) = << >>
           /\ has \cap Commissions = {} => CommissionWire(has) = << >>
<1>0. << >> \o << >> = << >>
  OBVIOUS
<1>1. ASSUME has \cap FirstFields = {} PROVE FirstWire(has) = << >>
  <2>1. "capital" \notin has /\ "restakeEarnings" \notin has /\ "openForDelegation" \notin has
        /\ "keys" \notin has
    BY <1>1 DEF FirstFields
  <2> QED
    BY <1>0, <2>1 DEF FirstWire, DisplayWire, Told
<1>2. ASSUME "keys" \notin has PROVE FirstWire(has) = DisplayWire(has)
  <2>1. FirstWire(has) = DisplayWire(has) \o << >>
    BY <1>2 DEF FirstWire, Told
  <2> QED
    BY <2>1, WiresKnown, Joins, Zenon
<1>3. ASSUME "metadataUrl" \notin has PROVE UrlWire(has, u) = << >>
  BY <1>3 DEF UrlWire, Told
<1>4. ASSUME has \cap Commissions = {} PROVE CommissionWire(has) = << >>
  <2>1. "transactionFee" \notin has /\ "bakingReward" \notin has /\ "finalizationReward" \notin has
    BY <1>4 DEF Commissions
  <2> QED
    BY <1>0, <2>1 DEF CommissionWire, Told
<1> QED
  BY <1>1, <1>2, <1>3, <1>4

LEMMA AfterUrlWire ==
    ASSUME NEW c, NEW u \in Nat
    PROVE  /\ StageWire(c.has, AfterUrl(c), u) = FirstWire(c.has) \o UrlWire(c.has, u)
           /\ Reached(c.has, AfterUrl(c)) /\ AfterUrl(c) # "URL" /\ AfterUrl(c) \notin BeforeUrl
<1> DEFINE has == c.has
           a == FirstWire(has) \o UrlWire(has, u)
<1>1. a \in Seq(BakerTags) /\ a \o << >> = a
  BY WiresKnown, Joins, Zenon
<1>2. CASE has \cap Commissions # {}
  BY <1>2 DEF AfterUrl, hasCommissionRate, StageWire, Reached, BeforeUrl
<1>3. CASE has \cap Commissions = {} /\ "suspended" \in has
  BY <1>1, <1>3, NothingSkipped DEF AfterUrl, hasCommissionRate, StageWire, Reached, BeforeUrl
<1>4. CASE has \cap Commissions = {} /\ "suspended" \notin has
  BY <1>1, <1>4, NothingSkipped DEF AfterUrl, hasCommissionRate, StageWire, Reached, BeforeUrl,
     Wire, Told
<1> QED
  BY <1>2, <1>3, <1>4

LEMMA AfterFirstWire ==
    ASSUME NEW c, NEW u \in Nat
    PROVE  /\ StageWire(c.has, AfterFirst(c), u) = FirstWire(c.has)
           /\ Reached(c.has, AfterFirst(c)) /\ AfterFirst(c) # "URL"
           /\ AfterFirst(c) \in BeforeUrl => AfterFirst(c) = "URL_LENGTH"
<1>1. CASE "metadataUrl" \in c.has
  BY <1>1 DEF AfterFirst, StageWire, Reached, BeforeUrl
<1>2. CASE "metadataUrl" \notin c.has
  <2>1. FirstWire(c.has) \o UrlWire(c.has, u) = FirstWire(c.has)
    BY <1>2, NothingSkipped, WiresKnown, Joins, Zenon
  <2> QED
    BY <1>2, <2>1, AfterUrlWire DEF AfterFirst
<1> QED
  BY <1>1, <1>2

LEMMA AfterBitmapWire ==
    ASSUME NEW c, NEW u \in Nat, AfterBitmap(c) # "INITIAL"
    PROVE  /\ StageWire(c.has, AfterBitmap(c), u) = << >>
           /\ Reached(c.has, AfterBitmap(c)) /\ AfterBitmap(c) \notin {"URL", "END"}
<1>1. CASE c.has \cap FirstFields # {}
  BY <1>1 DEF AfterBitmap, StageWire, Reached
<1>2. CASE c.has \cap FirstFields = {}
  <2>1. AfterBitmap(c) = AfterFirst(c) /\ AfterFirst(c) # "END"
    BY <1>2 DEF AfterBitmap
  <2> QED
    BY <1>2, <2>1, AfterFirstWire, NothingSkipped
<1> QED
  BY <1>1, <1>2

BytesAt(x) == IF IsUrl(x) THEN x[3] ELSE 0

LEMMA BytesAtNat == ASSUME NEW x \in BakerItem PROVE BytesAt(x) \in Nat
<1>1. CASE x \in {"url"} \X Vals \X (1 .. ChunkMax)
  BY <1>1 DEF BytesAt
<1>2. CASE x[1] # "url"
  BY <1>2 DEF BytesAt, IsUrl
<1>3. x[1] # "url" \/ x \in {"url"} \X Vals \X (1 .. ChunkMax)
  <2>1. \A y \in {"header"} \X Headers : y[1] # "url"
    OBVIOUS
  <2>2. \A y \in {"bitmap"} \X Bitmaps : y[1] # "url"
    OBVIOUS
  <2>3. \A y \in ValueTags \X Vals : y[1] # "url"
    BY DEF ValueTags
  <2>4. \A y \in {"urlLength"} \X (0 .. UrlMax) : y[1] # "url"
    OBVIOUS
  <2>5. <<"kind", BAKER>>[1] # "url"
    OBVIOUS
  <2> QED
    BY <2>1, <2>2, <2>3, <2>4, <2>5 DEF BakerItem
<1> QED
  BY <1>1, <1>2, <1>3

LEMMA UrlBytesIsSum ==
    ASSUME NEW s \in Seq(BakerItem)
    PROVE  \E f \in [0 .. Len(s) -> Nat] :
              /\ f[0] = 0
              /\ \A i \in 1 .. Len(s) : f[i] = f[i - 1] + BytesAt(s[i])
              /\ UrlBytes(s) = f[Len(s)]
<1> DEFINE G == [i \in 1 .. Len(s) |-> [x \in Nat |-> x + BytesAt(s[i])]]
           Sums(f) == f = [i \in 0 .. Len(s) |->
                              IF i = 0 THEN 0 ELSE f[i - 1] + IF IsUrl(s[i]) THEN s[i][3] ELSE 0]
<1>1. \A i \in 1 .. Len(s) : BytesAt(s[i]) \in Nat
  BY BytesAtNat
<1>2. G \in [1 .. Len(s) -> [Nat -> Nat]]
  BY <1>1
<1>3. Len(s) \in Nat /\ 0 \in Nat
  OBVIOUS
<1> HIDE DEF G
<1>4. PICK f : Solves(f, Len(s), 0, G, Nat)
  BY <1>2, <1>3, RecursionIsDefined
<1>5. f \in [0 .. Len(s) -> Nat] /\ f[0] = 0
  BY <1>4 DEF Solves
<1>6. ASSUME NEW i \in 1 .. Len(s) PROVE f[i] = f[i - 1] + BytesAt(s[i])
  <2>1. i - 1 \in 0 .. Len(s) /\ f[i - 1] \in Nat
    BY <1>3, <1>5
  <2>2. f[i] = G[i][f[i - 1]]
    BY <1>4 DEF Solves
  <2> QED
    BY <2>1, <2>2 DEF G
<1>7. Sums(f)
  <2> DEFINE h == [i \in 0 .. Len(s) |->
                      IF i = 0 THEN 0 ELSE f[i - 1] + IF IsUrl(s[i]) THEN s[i][3] ELSE 0]
  <2>1. ASSUME NEW i \in 0 .. Len(s) PROVE f[i] = h[i]
    <3>1. CASE i = 0
      BY <3>1, <1>5
    <3>2. CASE i \in 1 .. Len(s)
      BY <3>2, <1>6 DEF BytesAt
    <3> QED
      BY <3>1, <3>2, <1>3
  <2> QED
    BY <2>1, <1>5
<1>8. PICK g : Sums(g) /\ UrlBytes(s) = g[Len(s)]
  BY <1>7 DEF UrlBytes
<1>9. ASSUME NEW i \in 1 .. Len(s) PROVE g[i] = g[i - 1] + BytesAt(s[i])
  <2>1. i \in 0 .. Len(s) /\ i # 0
    BY <1>3
  <2> QED
    BY <2>1, <1>8 DEF BytesAt
<1>10. g[0] = 0
  BY <1>3, <1>8
<1>11. \A i \in 1 .. Len(s) : g[i - 1] = f[i - 1] => g[i] = f[i]
  BY <1>6, <1>9
<1>12. g[Len(s)] = f[Len(s)]
  <2>1. Len(s) \in Nat /\ g[0] = f[0]
    BY <1>3, <1>5, <1>10
  <2> QED
    BY ONLY <1>11, <2>1, StepwiseEqual
<1> QED
  BY <1>5, <1>6, <1>8, <1>12

\* What follows and is no URL adds nothing.
LEMMA UrlBytesPlain ==
    ASSUME NEW s \in Seq(BakerItem), NEW t \in Seq(BakerItem), NoUrl(t)
    PROVE  UrlBytes(s \o t) = UrlBytes(s) /\ UrlBytes(s) \in Nat
<1> DEFINE r == s \o t
           m == Len(s)
           n == Len(t)
<1>1. /\ r \in Seq(BakerItem) /\ Len(r) = m + n /\ m \in Nat /\ n \in Nat
      /\ \A i \in 1 .. m + n : r[i] = IF i <= m THEN s[i] ELSE t[i - m]
  BY JoinAt
<1> HIDE DEF r
<1>2. PICK f \in [0 .. m -> Nat] :
          /\ f[0] = 0 /\ \A i \in 1 .. m : f[i] = f[i - 1] + BytesAt(s[i])
          /\ UrlBytes(s) = f[m]
  BY UrlBytesIsSum
<1>3. PICK g \in [0 .. Len(r) -> Nat] :
          /\ g[0] = 0 /\ \A i \in 1 .. Len(r) : g[i] = g[i - 1] + BytesAt(r[i])
          /\ UrlBytes(r) = g[Len(r)]
  BY <1>1, UrlBytesIsSum
<1>4. ASSUME NEW i \in 1 .. n PROVE BytesAt(r[m + i]) = 0 /\ m + i \in 1 .. m + n
  <2>1. m + i \in 1 .. m + n /\ ~(m + i <= m) /\ (m + i) - m = i
    BY <1>1
  <2>2. r[m + i] = t[i]
    BY <1>1, <2>1
  <2>3. ~IsUrl(t[i])
    BY DEF NoUrl, IsUrl
  <2> QED
    BY <2>1, <2>2, <2>3 DEF BytesAt
<1> HIDE DEF m, n
<1>5. g[m] = f[m]
  <2>1. ASSUME NEW i \in 1 .. m, g[i - 1] = f[i - 1] PROVE g[i] = f[i]
    <3>1. i \in 1 .. m + n /\ r[i] = s[i]
      BY <1>1
    <3> QED
      BY <1>1, <1>2, <1>3, <2>1, <3>1
  <2>2. \A i \in 1 .. m : g[i - 1] = f[i - 1] => g[i] = f[i]
    BY <2>1
  <2>3. m \in Nat /\ g[0] = f[0]
    BY <1>1, <1>2, <1>3
  <2> QED
    BY ONLY <2>2, <2>3, StepwiseEqual
<1>6. g[m + n] = g[m]
  <2> DEFINE a == [i \in 0 .. n |-> g[m + i]]
             b == [i \in 0 .. n |-> g[m]]
  <2>1. a[0] = b[0] /\ a[n] = g[m + n] /\ b[n] = g[m]
    BY <1>1
  <2>2. ASSUME NEW i \in 1 .. n, a[i - 1] = b[i - 1] PROVE a[i] = b[i]
    <3>1. i \in 0 .. n /\ i - 1 \in 0 .. n /\ m + (i - 1) = (m + i) - 1 /\ m \in 0 .. m + n
      BY <1>1
    <3>2. g[m + i] = g[(m + i) - 1] + 0
      BY <1>1, <1>3, <1>4
    <3>3. g[(m + i) - 1] = g[m] /\ g[m] \in Nat
      BY <1>1, <1>3, <2>2, <3>1
    <3> QED
      BY <3>1, <3>2, <3>3
  <2>3. \A i \in 1 .. n : a[i - 1] = b[i - 1] => a[i] = b[i]
    BY <2>2
  <2> HIDE DEF a, b
  <2>4. a[n] = b[n]
    BY <1>1, <2>1, <2>3, StepwiseEqual
  <2> QED
    BY <2>1, <2>4
<1>7. f[m] \in Nat
  BY <1>1, <1>2
<1> QED
  BY <1>1, <1>2, <1>3, <1>5, <1>6, <1>7 DEF r

LEMMA UrlBytesNone ==
    ASSUME NEW s \in Seq(BakerItem), NoUrl(s)
    PROVE  UrlBytes(s) = 0
<1> DEFINE e == << >>
<1>1. e \in Seq(BakerItem) /\ Len(e) = 0 /\ e \o s = s
  OBVIOUS
<1> HIDE DEF e
<1>2. UrlBytes(e) = 0
  BY <1>1, UrlBytesIsSum
<1>3. UrlBytes(e \o s) = UrlBytes(e)
  BY <1>1, UrlBytesPlain
<1> QED
  BY <1>1, <1>2, <1>3

\* A chunk adds its bytes.
LEMMA UrlBytesChunk ==
    ASSUME NEW s \in Seq(BakerItem), NEW v \in Vals, NEW n \in 1 .. ChunkMax
    PROVE  UrlBytes(s \o <<<<"url", v, n>>>>) = UrlBytes(s) + n /\ UrlBytes(s) \in Nat
<1> DEFINE x == <<"url", v, n>>
           r == s \o <<x>>
           m == Len(s)
<1>1. x \in BakerItem /\ BytesAt(x) = n
  BY ItemTypes DEF BytesAt, IsUrl
<1> HIDE DEF x
<1>2. /\ r \in Seq(BakerItem) /\ Len(r) = m + 1 /\ m \in Nat /\ r[m + 1] = x
      /\ \A i \in 1 .. m : r[i] = s[i]
  BY <1>1
<1> HIDE DEF r
<1>3. PICK f \in [0 .. m -> Nat] :
          /\ f[0] = 0 /\ \A i \in 1 .. m : f[i] = f[i - 1] + BytesAt(s[i])
          /\ UrlBytes(s) = f[m]
  BY UrlBytesIsSum
<1>4. PICK g \in [0 .. Len(r) -> Nat] :
          /\ g[0] = 0 /\ \A i \in 1 .. Len(r) : g[i] = g[i - 1] + BytesAt(r[i])
          /\ UrlBytes(r) = g[Len(r)]
  BY <1>2, UrlBytesIsSum
<1> HIDE DEF m
<1>5. \A i \in 1 .. m : g[i - 1] = f[i - 1] => g[i] = f[i]
  <2> SUFFICES ASSUME NEW i \in 1 .. m, g[i - 1] = f[i - 1] PROVE g[i] = f[i]
    OBVIOUS
  <2>1. i \in 1 .. Len(r) /\ r[i] = s[i]
    BY <1>2
  <2> QED
    BY <1>3, <1>4, <2>1
<1>6. g[m] = f[m] /\ f[m] \in Nat
  <2>1. m \in Nat /\ g[0] = f[0] /\ f[m] \in Nat
    BY <1>2, <1>3, <1>4
  <2> QED
    BY ONLY <1>5, <2>1, StepwiseEqual
<1>7. g[m + 1] = g[m] + n
  <2>1. m + 1 \in 1 .. Len(r) /\ (m + 1) - 1 = m
    BY <1>2
  <2> QED
    BY <1>1, <1>2, <1>4, <2>1
<1> QED
  BY <1>2, <1>3, <1>4, <1>6, <1>7 DEF r, x

-----------------------------------------------------------------------------
(* A transcript that grows. *)

LEMMA PlainKeepsUrl ==
    ASSUME NEW s \in Seq(BakerItem), NEW t \in Seq(BakerItem), NEW left, NoUrl(t), UrlTold(s, left)
    PROVE  UrlTold(s \o t, left) /\ (NoUrl(s) => NoUrl(s \o t))
<1> DEFINE r == s \o t
<1>1. /\ r \in Seq(BakerItem) /\ Len(r) = Len(s) + Len(t) /\ Len(s) \in Nat /\ Len(t) \in Nat
      /\ \A i \in 1 .. Len(s) + Len(t) : r[i] = IF i <= Len(s) THEN s[i] ELSE t[i - Len(s)]
  BY JoinAt
<1>2. UrlBytes(r) = UrlBytes(s)
  BY UrlBytesPlain
<1> HIDE DEF r
<1>3. DOMAIN r = 1 .. Len(r) /\ DOMAIN s = 1 .. Len(s) /\ DOMAIN t = 1 .. Len(t)
  BY <1>1
<1>4. ASSUME NEW i \in DOMAIN r
      PROVE  \/ i \in DOMAIN s /\ r[i] = s[i]
             \/ r[i][1] \notin {"url", "urlLength"}
  <2>1. CASE i <= Len(s)
    BY <1>1, <1>3, <2>1
  <2>2. CASE ~(i <= Len(s))
    <3>1. i - Len(s) \in DOMAIN t /\ r[i] = t[i - Len(s)]
      BY <1>1, <1>3, <2>2
    <3> QED
      BY <3>1 DEF NoUrl
  <2> QED
    BY <2>1, <2>2
<1>5. UrlTold(r, left)
  BY <1>2, <1>4 DEF UrlTold
<1>6. NoUrl(s) => NoUrl(r)
  BY <1>4 DEF NoUrl
<1> QED
  BY <1>5, <1>6 DEF r

LEMMA LengthTold ==
    ASSUME NEW s \in Seq(BakerItem), NEW n \in 0 .. UrlMax, NoUrl(s)
    PROVE  UrlTold(s \o <<<<"urlLength", n>>>>, n)
<1> DEFINE x == <<"urlLength", n>>
           r == s \o <<x>>
<1>1. x \in BakerItem /\ ~IsUrl(x) /\ x[2] = n
  BY ItemTypes DEF IsUrl
<1>2. BytesAt(x) = 0
  BY <1>1 DEF BytesAt
<1> HIDE DEF x
<1>3. /\ r \in Seq(BakerItem) /\ Len(r) = Len(s) + 1 /\ Len(s) \in Nat /\ r[Len(s) + 1] = x
      /\ \A i \in 1 .. Len(s) : r[i] = s[i]
  BY <1>1
<1> HIDE DEF r
<1>4. DOMAIN r = 1 .. Len(r) /\ DOMAIN s = 1 .. Len(s)
  BY <1>3
<1>5. PICK g \in [0 .. Len(r) -> Nat] :
          /\ g[0] = 0 /\ \A i \in 1 .. Len(r) : g[i] = g[i - 1] + BytesAt(r[i])
          /\ UrlBytes(r) = g[Len(r)]
  BY <1>3, UrlBytesIsSum
<1>6. UrlBytes(r) = 0
  <2> DEFINE z == [i \in 0 .. Len(r) |-> 0]
  <2>1. ASSUME NEW i \in 1 .. Len(r), g[i - 1] = z[i - 1] PROVE g[i] = z[i]
    <3>1. BytesAt(r[i]) = 0
      BY <1>2, <1>3, <1>4 DEF NoUrl, BytesAt, IsUrl
    <3> QED
      BY <1>3, <1>5, <2>1, <3>1
  <2>2. \A i \in 1 .. Len(r) : g[i - 1] = z[i - 1] => g[i] = z[i]
    BY <2>1
  <2>3. g[0] = z[0] /\ z[Len(r)] = 0 /\ Len(r) \in Nat
    BY <1>3, <1>5
  <2> HIDE DEF z
  <2>4. g[Len(r)] = z[Len(r)]
    BY <2>2, <2>3, StepwiseEqual
  <2> QED
    BY <1>5, <2>3, <2>4
<1>7. ASSUME NEW i \in DOMAIN r, r[i][1] = "urlLength" PROVE r[i] = x
  BY <1>3, <1>4, <1>7 DEF NoUrl
<1>8. n = 0 + n /\ n <= UrlMax
  BY BakerAssumption
<1>9. UrlTold(r, n)
  BY <1>1, <1>6, <1>7, <1>8 DEF UrlTold
<1> QED
  BY <1>9 DEF r, x

LEMMA ChunkTold ==
    ASSUME NEW s \in Seq(BakerItem), NEW v \in Vals, NEW n \in 1 .. ChunkMax,
           NEW left \in Nat, n <= left, UrlTold(s, left)
    PROVE  UrlTold(s \o <<<<"url", v, n>>>>, left - n)
<1> DEFINE x == <<"url", v, n>>
           r == s \o <<x>>
<1>1. UrlBytes(r) = UrlBytes(s) + n /\ UrlBytes(s) \in Nat
  BY UrlBytesChunk
<1>2. x \in BakerItem /\ x[1] = "url"
  BY ItemTypes
<1> HIDE DEF x
<1>3. /\ r \in Seq(BakerItem) /\ Len(r) = Len(s) + 1 /\ Len(s) \in Nat /\ r[Len(s) + 1] = x
      /\ \A i \in 1 .. Len(s) : r[i] = s[i]
  BY <1>2
<1> HIDE DEF r
<1>4. DOMAIN r = 1 .. Len(r) /\ DOMAIN s = 1 .. Len(s)
  BY <1>3
<1>5. ASSUME NEW i \in DOMAIN r, r[i][1] = "urlLength" PROVE i \in DOMAIN s /\ r[i] = s[i]
  BY <1>2, <1>3, <1>4, <1>5
<1>6. UrlBytes(r) + (left - n) = UrlBytes(s) + left
  BY <1>1
<1>7. UrlTold(r, left - n)
  BY <1>5, <1>6 DEF UrlTold
<1> QED
  BY <1>7 DEF r, x

-----------------------------------------------------------------------------
(* The tags of what each packet feeds. *)

LEMMA TagsOne ==
    ASSUME NEW x \in BakerItem
    PROVE  Tags(<<x>>) = <<x[1]>> /\ Tags(<< >>) = << >>
<1>1. DOMAIN <<x>> = 1 .. 1 /\ <<x>>[1] = x
  OBVIOUS
<1>2. Tags(<<x>>) = [i \in 1 .. 1 |-> x[1]]
  BY <1>1 DEF Tags
<1>3. Tags(<< >>) = << >>
  BY DEF Tags
<1> QED
  BY <1>2, <1>3

LEMMA NoUrlOne ==
    ASSUME NEW x \in BakerItem, x[1] \notin {"url", "urlLength"}
    PROVE  NoUrl(<<x>>) /\ NoUrl(<< >>)
  BY DEF NoUrl

LEMMA NoUrlConcat ==
    ASSUME NEW s \in Seq(BakerItem), NEW t \in Seq(BakerItem), NoUrl(s), NoUrl(t)
    PROVE  NoUrl(s \o t)
<1> DEFINE r == s \o t
<1>1. /\ r \in Seq(BakerItem) /\ Len(r) = Len(s) + Len(t) /\ Len(s) \in Nat /\ Len(t) \in Nat
      /\ \A i \in 1 .. Len(s) + Len(t) : r[i] = IF i <= Len(s) THEN s[i] ELSE t[i - Len(s)]
  BY JoinAt
<1> HIDE DEF r
<1>2. ASSUME NEW i \in DOMAIN r PROVE r[i][1] \notin {"url", "urlLength"}
  <2>1. i \in 1 .. Len(s) + Len(t) /\ DOMAIN s = 1 .. Len(s) /\ DOMAIN t = 1 .. Len(t)
    BY <1>1
  <2>2. CASE i <= Len(s)
    BY <1>1, <2>1, <2>2 DEF NoUrl
  <2>3. CASE ~(i <= Len(s))
    <3>1. i - Len(s) \in DOMAIN t /\ r[i] = t[i - Len(s)]
      BY <1>1, <2>1, <2>3
    <3> QED
      BY <3>1 DEF NoUrl
  <2> QED
    BY <2>2, <2>3
<1> QED
  BY <1>2 DEF NoUrl, r

\* Items, their tags, and that none of them belongs to the URL.
Plain(t, tags) == t \in Seq(BakerItem) /\ tags \in Seq(BakerTags) /\ Tags(t) = tags /\ NoUrl(t)

LEMMA PlainOne ==
    ASSUME NEW tag \in ValueTags, NEW v \in Vals
    PROVE  Plain(<<<<tag, v>>>>, <<tag>>) /\ Plain(<< >>, << >>)
<1> DEFINE x == <<tag, v>>
<1>1. x \in BakerItem /\ x[1] = tag
  BY ItemTypes
<1>2. tag \notin {"url", "urlLength"} /\ tag \in BakerTags
  BY DEF ValueTags, BakerTags
<1>3. <<x>> \in Seq(BakerItem) /\ <<tag>> \in Seq(BakerTags)
  BY <1>1, <1>2, SingletonSeq, Zenon
<1>4. << >> \in Seq(BakerItem) /\ << >> \in Seq(BakerTags)
  OBVIOUS
<1> HIDE DEF x
<1>5. Tags(<<x>>) = <<tag>> /\ Tags(<< >>) = << >>
  BY <1>1, TagsOne
<1>6. NoUrl(<<x>>) /\ NoUrl(<< >>)
  BY <1>1, <1>2, NoUrlOne
<1> QED
  BY <1>3, <1>4, <1>5, <1>6, Zenon DEF Plain, x

LEMMA PlainJoin ==
    ASSUME NEW s, NEW a, NEW t, NEW b, Plain(s, a), Plain(t, b)
    PROVE  Plain(s \o t, a \o b)
<1>1. s \in Seq(BakerItem) /\ t \in Seq(BakerItem) /\ a \in Seq(BakerTags) /\ b \in Seq(BakerTags)
      /\ Tags(s) = a /\ Tags(t) = b /\ NoUrl(s) /\ NoUrl(t)
  BY DEF Plain
<1>2. s \o t \in Seq(BakerItem) /\ a \o b \in Seq(BakerTags)
  BY <1>1, JoinAt, Zenon
<1>3. Tags(s \o t) = a \o b
  BY <1>1, TagsConcat
<1>4. NoUrl(s \o t)
  BY <1>1, NoUrlConcat
<1> QED
  BY <1>2, <1>3, <1>4 DEF Plain

LEMMA PlainDeclared ==
    ASSUME NEW c, NEW f \in ValueTags, NEW v \in Vals
    PROVE  Plain(Declared(c, f, v), Told(c.has, f, <<f>>))
<1>1. CASE f \in c.has
  BY <1>1, PlainOne DEF Declared, Told
<1>2. CASE f \notin c.has
  BY <1>2, PlainOne DEF Declared, Told
<1> QED
  BY <1>1, <1>2

Keys4 == <<"electionKey", "electionProof", "signatureKey", "signatureProof">>
Keys2 == <<"aggregationKey", "aggregationProof">>

LEMMA PlainFields ==
    ASSUME NEW c, NEW v \in Vals
    PROVE  /\ Plain(DisplayedFirst(c, v), DisplayWire(c.has))
           /\ Plain(CommissionItems(c, v), CommissionWire(c.has))
           /\ Plain(<<<<"suspended", v>>>>, <<"suspended">>)
<1>1. {"capital", "restakeEarnings", "openForDelegation", "transactionFee", "bakingReward",
       "finalizationReward", "suspended"} \subseteq ValueTags
  BY DEF ValueTags
<1>2. Plain(DisplayedFirst(c, v), DisplayWire(c.has))
  <2>1. /\ Plain(Declared(c, "capital", v), Told(c.has, "capital", <<"capital">>))
        /\ Plain(Declared(c, "restakeEarnings", v), Told(c.has, "restakeEarnings", <<"restakeEarnings">>))
        /\ Plain(Declared(c, "openForDelegation", v), Told(c.has, "openForDelegation", <<"openForDelegation">>))
    BY <1>1, PlainDeclared
  <2> QED
    BY <2>1, PlainJoin, Zenon DEF DisplayedFirst, DisplayWire
<1>3. Plain(CommissionItems(c, v), CommissionWire(c.has))
  <2>1. /\ Plain(Declared(c, "transactionFee", v), Told(c.has, "transactionFee", <<"transactionFee">>))
        /\ Plain(Declared(c, "bakingReward", v), Told(c.has, "bakingReward", <<"bakingReward">>))
        /\ Plain(Declared(c, "finalizationReward", v), Told(c.has, "finalizationReward", <<"finalizationReward">>))
    BY <1>1, PlainDeclared
  <2> QED
    BY <2>1, PlainJoin, Zenon DEF CommissionItems, CommissionWire
<1>4. Plain(<<<<"suspended", v>>>>, <<"suspended">>)
  BY <1>1, PlainOne
<1> QED
  BY <1>2, <1>3, <1>4

LEMMA PlainPair ==
    ASSUME NEW a \in ValueTags, NEW b \in ValueTags, NEW v \in Vals
    PROVE  Plain(<<<<a, v>>, <<b, v>>>>, <<a, b>>)
<1> DEFINE x == <<a, v>>
           y == <<b, v>>
<1>1. Plain(<<x>>, <<a>>) /\ Plain(<<y>>, <<b>>)
  BY PlainOne
<1>2. x \in BakerItem /\ y \in BakerItem
  BY ItemTypes
<1> HIDE DEF x, y
<1>3. <<x>> \o <<y>> = <<x, y>>
  BY <1>2, Pair
<1>4. <<a>> \o <<b>> = <<a, b>>
  BY Pair
<1>5. Plain(<<x>> \o <<y>>, <<a>> \o <<b>>)
  BY <1>1, PlainJoin
<1> QED
  BY <1>3, <1>4, <1>5 DEF x, y

LEMMA FourOfTwo ==
    ASSUME NEW X, NEW a \in X, NEW b \in X, NEW c \in X, NEW d \in X
    PROVE  <<a, b>> \o <<c, d>> = <<a, b, c, d>>
<1> DEFINE s == <<a, b>>
           t == <<c, d>>
           u == <<a, b, c, d>>
<1>1. /\ s \in Seq(X) /\ Len(s) = 2 /\ s[1] = a /\ s[2] = b
      /\ t \in Seq(X) /\ Len(t) = 2 /\ t[1] = c /\ t[2] = d
  OBVIOUS
<1>2. u \in Seq(X) /\ Len(u) = 4 /\ u[1] = a /\ u[2] = b /\ u[3] = c /\ u[4] = d
  OBVIOUS
<1> HIDE DEF s, t, u
<1> DEFINE r == s \o t
<1>3. r \in Seq(X) /\ Len(r) = 4 /\ r[1] = a /\ r[2] = b /\ r[3] = c /\ r[4] = d
  <2>0. s \in Seq(X) /\ t \in Seq(X)
    BY <1>1
  <2>1. /\ r \in Seq(X) /\ Len(r) = Len(s) + Len(t)
        /\ \A i \in 1 .. Len(s) + Len(t) : r[i] = IF i <= Len(s) THEN s[i] ELSE t[i - Len(s)]
    BY ONLY <2>0, JoinAt
  <2> HIDE DEF r
  <2>2. r[1] = s[1] /\ r[2] = s[2] /\ r[3] = t[1] /\ r[4] = t[2]
    BY <1>1, <2>1
  <2> QED
    BY <1>1, <2>1, <2>2
<1> HIDE DEF r
<1>4. \A i \in 1 .. 4 : r[i] = u[i]
  BY <1>2, <1>3
<1>5. r = u
  BY <1>2, <1>3, <1>4
<1> QED
  BY <1>5 DEF r, s, t, u

LEMMA PlainKeys ==
    ASSUME NEW k \in Vals
    PROVE  /\ Plain(<<<<"electionKey", k>>, <<"electionProof", k>>,
                      <<"signatureKey", k>>, <<"signatureProof", k>>>>, Keys4)
           /\ Plain(<<<<"aggregationKey", k>>, <<"aggregationProof", k>>>>, Keys2)
<1>1. {"electionKey", "electionProof", "signatureKey", "signatureProof", "aggregationKey",
       "aggregationProof"} \subseteq ValueTags
  BY DEF ValueTags
<1>2. Plain(<<<<"aggregationKey", k>>, <<"aggregationProof", k>>>>, Keys2)
  BY <1>1, PlainPair DEF Keys2
<1> DEFINE a == <<"electionKey", k>>
           b == <<"electionProof", k>>
           c == <<"signatureKey", k>>
           d == <<"signatureProof", k>>
<1>3. Plain(<<a, b>>, <<"electionKey", "electionProof">>)
      /\ Plain(<<c, d>>, <<"signatureKey", "signatureProof">>)
  BY <1>1, PlainPair
<1>4. a \in BakerItem /\ b \in BakerItem /\ c \in BakerItem /\ d \in BakerItem
  BY <1>1, ItemTypes
<1> HIDE DEF a, b, c, d
<1>5. <<a, b>> \o <<c, d>> = <<a, b, c, d>>
  BY <1>4, FourOfTwo
<1>6. <<"electionKey", "electionProof">> \o <<"signatureKey", "signatureProof">> = Keys4
  BY <1>1, FourOfTwo DEF Keys4
<1>7. Plain(<<a, b>> \o <<c, d>>, <<"electionKey", "electionProof">> \o <<"signatureKey", "signatureProof">>)
  BY <1>3, PlainJoin
<1> QED
  BY <1>2, <1>5, <1>6, <1>7 DEF a, b, c, d

LEMMA PlainFirstBatch ==
    ASSUME NEW c, NEW v \in Vals, NEW k \in Vals
    PROVE  /\ "keys" \in c.has => Plain(FirstBatchItems(c, v, k), DisplayWire(c.has) \o Keys4)
           /\ "keys" \notin c.has => Plain(FirstBatchItems(c, v, k), DisplayWire(c.has))
<1>1. Plain(DisplayedFirst(c, v), DisplayWire(c.has))
  BY PlainFields
<1>2. ASSUME "keys" \in c.has PROVE Plain(FirstBatchItems(c, v, k), DisplayWire(c.has) \o Keys4)
  BY <1>1, <1>2, PlainKeys, PlainJoin DEF FirstBatchItems
<1>3. ASSUME "keys" \notin c.has PROVE Plain(FirstBatchItems(c, v, k), DisplayWire(c.has))
  <2>1. FirstBatchItems(c, v, k) = DisplayedFirst(c, v) \o << >>
    BY <1>3 DEF FirstBatchItems
  <2>2. DisplayedFirst(c, v) \in Seq(BakerItem)
    BY <1>1 DEF Plain
  <2>3. DisplayedFirst(c, v) \o << >> = DisplayedFirst(c, v)
    <3> DEFINE s == DisplayedFirst(c, v)
    <3>1. s \in Seq(BakerItem)
      BY <2>2
    <3> HIDE DEF s
    <3>2. s \o << >> = s
      BY <3>1
    <3> QED
      BY <3>2 DEF s
  <2> QED
    BY <1>1, <2>1, <2>3
<1> QED
  BY <1>2, <1>3

\* A stage that is reached has something to feed.
LEMMA SomethingDeclared ==
    ASSUME NEW has
    PROVE  /\ has \cap FirstFields # {} /\ "keys" \notin has => Len(DisplayWire(has)) >= 1
           /\ has \cap Commissions # {} => Len(CommissionWire(has)) >= 1
<1>1. ASSUME NEW f \in ValueTags
      PROVE  /\ Told(has, f, <<f>>) \in Seq(BakerTags)
             /\ Len(Told(has, f, <<f>>)) = IF f \in has THEN 1 ELSE 0
  <2>1. <<f>> \in Seq(BakerTags) /\ Len(<<f>>) = 1 /\ << >> \in Seq(BakerTags)
    BY DEF BakerTags
  <2> QED
    BY <2>1 DEF Told
<1>2. ASSUME NEW a \in Seq(BakerTags), NEW b \in Seq(BakerTags), NEW c \in Seq(BakerTags),
             Len(a) >= 1 \/ Len(b) >= 1 \/ Len(c) >= 1
      PROVE  Len((a \o b) \o c) >= 1
  BY <1>2
<1>3. {"capital", "restakeEarnings", "openForDelegation", "transactionFee", "bakingReward",
       "finalizationReward"} \subseteq ValueTags
  BY DEF ValueTags
<1>4. ASSUME has \cap FirstFields # {}, "keys" \notin has PROVE Len(DisplayWire(has)) >= 1
  <2>1. "capital" \in has \/ "restakeEarnings" \in has \/ "openForDelegation" \in has
    BY <1>4 DEF FirstFields
  <2> DEFINE a == Told(has, "capital", <<"capital">>)
             b == Told(has, "restakeEarnings", <<"restakeEarnings">>)
             c == Told(has, "openForDelegation", <<"openForDelegation">>)
  <2>2. a \in Seq(BakerTags) /\ b \in Seq(BakerTags) /\ c \in Seq(BakerTags)
        /\ (Len(a) >= 1 \/ Len(b) >= 1 \/ Len(c) >= 1)
    BY <1>1, <1>3, <2>1
  <2> HIDE DEF a, b, c
  <2>3. Len((a \o b) \o c) >= 1
    BY <1>2, <2>2
  <2> QED
    BY <2>3 DEF DisplayWire, a, b, c
<1>5. ASSUME has \cap Commissions # {} PROVE Len(CommissionWire(has)) >= 1
  <2>1. "transactionFee" \in has \/ "bakingReward" \in has \/ "finalizationReward" \in has
    BY <1>5 DEF Commissions
  <2> DEFINE a == Told(has, "transactionFee", <<"transactionFee">>)
             b == Told(has, "bakingReward", <<"bakingReward">>)
             c == Told(has, "finalizationReward", <<"finalizationReward">>)
  <2>2. a \in Seq(BakerTags) /\ b \in Seq(BakerTags) /\ c \in Seq(BakerTags)
        /\ (Len(a) >= 1 \/ Len(b) >= 1 \/ Len(c) >= 1)
    BY <1>1, <1>3, <2>1
  <2> HIDE DEF a, b, c
  <2>3. Len((a \o b) \o c) >= 1
    BY <1>2, <2>2
  <2> QED
    BY <2>3 DEF CommissionWire, a, b, c
<1> QED
  BY <1>4, <1>5

-----------------------------------------------------------------------------
(* From a stage to the next, the tags fed are the ones between them. *)

LEMMA Assoc ==
    ASSUME NEW X, NEW a \in Seq(X), NEW b \in Seq(X), NEW c \in Seq(X)
    PROVE  (a \o b) \o c = a \o (b \o c)
  OBVIOUS

LEMMA StageWireKnown ==
    ASSUME NEW has, NEW stage, NEW u \in Nat
    PROVE  StageWire(has, stage, u) \in Seq(BakerTags)
<1>1. << >> \in Seq(BakerTags) /\ Keys4 \in Seq(BakerTags)
  BY DEF BakerTags, ValueTags, Keys4
<1>2. DisplayWire(has) \o Keys4 \in Seq(BakerTags)
  BY <1>1, WiresKnown, JoinAt, Zenon
<1>3. FirstWire(has) \o UrlWire(has, u) \in Seq(BakerTags)
  BY WiresKnown, JoinAt, Zenon
<1>4. (FirstWire(has) \o UrlWire(has, u)) \o CommissionWire(has) \in Seq(BakerTags)
  BY <1>3, WiresKnown, JoinAt, Zenon
<1> QED
  BY <1>1, <1>2, <1>3, <1>4, WiresKnown DEF StageWire, Keys4

\* Stage st and the tags fed in it lead to next, whatever was fed of the URL;
\* more counts the chunks of URL among them.
Leads(has, st, tags, next, more) ==
    \A u \in Nat : StageWire(has, st, u) \o tags = StageWire(has, next, u + more)

LEMMA FirstLeads ==
    ASSUME NEW c
    PROVE  /\ "keys" \notin c.has => Leads(c.has, "FIRST", DisplayWire(c.has), AfterFirst(c), 0)
           /\ Leads(c.has, "FIRST", DisplayWire(c.has) \o Keys4, "AGGREGATION_KEY", 0)
<1>0. 0 \in Nat /\ \A u \in Nat : u + 0 = u
  OBVIOUS
<1>1. Keys4 \in Seq(BakerTags) /\ DisplayWire(c.has) \in Seq(BakerTags)
  BY <1>0, WiresKnown DEF BakerTags, ValueTags, Keys4
<1>2. DisplayWire(c.has) \o Keys4 \in Seq(BakerTags)
  BY <1>1, JoinAt, Zenon
<1>3. ASSUME NEW u \in Nat PROVE StageWire(c.has, "FIRST", u) = << >>
  BY DEF StageWire
<1>4. ASSUME NEW u \in Nat
      PROVE  StageWire(c.has, "AGGREGATION_KEY", u) = DisplayWire(c.has) \o Keys4
  BY DEF StageWire, Keys4
<1>5. << >> \o DisplayWire(c.has) = DisplayWire(c.has)
      /\ << >> \o (DisplayWire(c.has) \o Keys4) = DisplayWire(c.has) \o Keys4
  BY <1>1, <1>2, Joins, Zenon
<1>6. ASSUME "keys" \notin c.has PROVE Leads(c.has, "FIRST", DisplayWire(c.has), AfterFirst(c), 0)
  <2>1. \A u \in Nat : StageWire(c.has, AfterFirst(c), u) = DisplayWire(c.has)
    BY <1>6, AfterFirstWire, NothingSkipped
  <2> QED
    BY <1>0, <1>3, <1>5, <2>1 DEF Leads
<1>7. Leads(c.has, "FIRST", DisplayWire(c.has) \o Keys4, "AGGREGATION_KEY", 0)
  BY <1>0, <1>3, <1>4, <1>5 DEF Leads
<1> QED
  BY <1>6, <1>7

LEMMA AggregationLeads ==
    ASSUME NEW c, "keys" \in c.has
    PROVE  Leads(c.has, "AGGREGATION_KEY", Keys2, AfterFirst(c), 0)
<1>0. 0 \in Nat /\ \A u \in Nat : u + 0 = u
  OBVIOUS
<1> DEFINE d == DisplayWire(c.has)
           k == <<"electionKey", "electionProof", "signatureKey", "signatureProof",
                  "aggregationKey", "aggregationProof">>
<1>1. Keys4 \in Seq(BakerTags) /\ Keys2 \in Seq(BakerTags) /\ d \in Seq(BakerTags)
  BY <1>0, WiresKnown DEF BakerTags, ValueTags, Keys4, Keys2
<1>2. Keys4 \o Keys2 = k
  <2> DEFINE r == Keys4 \o Keys2
  <2>1. Len(Keys4) = 4 /\ Len(Keys2) = 2
    BY DEF Keys4, Keys2
  <2>0. Keys4 \in Seq(BakerTags) /\ Keys2 \in Seq(BakerTags)
    BY <1>1
  <2>a. /\ r \in Seq(BakerTags) /\ Len(r) = Len(Keys4) + Len(Keys2)
        /\ \A i \in 1 .. Len(Keys4) + Len(Keys2) :
              r[i] = IF i <= Len(Keys4) THEN Keys4[i] ELSE Keys2[i - Len(Keys4)]
    BY ONLY <2>0, JoinAt
  <2>2. r \in Seq(BakerTags) /\ Len(r) = 6
        /\ \A i \in 1 .. 6 : r[i] = IF i <= 4 THEN Keys4[i] ELSE Keys2[i - 4]
    BY <2>1, <2>a
  <2>3. k \in Seq(BakerTags) /\ Len(k) = 6
    BY DEF BakerTags, ValueTags
  <2> HIDE DEF r
  <2>4. r[1] = Keys4[1] /\ r[2] = Keys4[2] /\ r[3] = Keys4[3] /\ r[4] = Keys4[4]
        /\ r[5] = Keys2[1] /\ r[6] = Keys2[2]
    BY <2>2
  <2>5. /\ Keys4[1] = k[1] /\ Keys4[2] = k[2] /\ Keys4[3] = k[3] /\ Keys4[4] = k[4]
        /\ Keys2[1] = k[5] /\ Keys2[2] = k[6]
    BY DEF Keys4, Keys2
  <2> HIDE DEF k
  <2>6. \A i \in 1 .. 6 : r[i] = k[i]
    BY <2>4, <2>5
  <2>7. r = k
    BY <2>2, <2>3, <2>6
  <2> QED
    BY <2>7 DEF r
<1>3. FirstWire(c.has) = d \o k
  BY DEF FirstWire, Told
<1> HIDE DEF d, k
<1>4. (d \o Keys4) \o Keys2 = d \o (Keys4 \o Keys2)
  BY ONLY <1>1, Assoc
<1>5. ASSUME NEW u \in Nat
      PROVE  /\ StageWire(c.has, "AGGREGATION_KEY", u) = d \o Keys4
             /\ StageWire(c.has, AfterFirst(c), u) = d \o k
  BY <1>3, AfterFirstWire DEF StageWire, Keys4, d
<1> QED
  BY <1>0, <1>2, <1>4, <1>5 DEF Leads

LEMMA UrlGrows ==
    ASSUME NEW has, NEW u \in Nat, "metadataUrl" \in has
    PROVE  /\ UrlWire(has, 0) = <<"urlLength">>
           /\ UrlWire(has, u) \o <<"url">> = UrlWire(has, u + 1)
<1> DEFINE w(n) == [i \in 1 .. n |-> "url"]
           l == <<"urlLength">>
<1>0. l \in Seq(BakerTags) /\ "url" \in BakerTags
  BY DEF BakerTags
<1>1. ASSUME NEW n \in Nat PROVE w(n) \in Seq(BakerTags) /\ Len(w(n)) = n
  BY <1>0
<1>2. \A n \in Nat : UrlWire(has, n) = l \o w(n)
  BY DEF UrlWire, Told
<1>3. UrlWire(has, 0) = <<"urlLength">>
  <2>1. w(0) = << >>
    OBVIOUS
  <2>2. l \o << >> = l
    BY <1>0, Joins, Zenon
  <2> QED
    BY <1>2, <2>1, <2>2
<1>4. w(u) \o <<"url">> = w(u + 1)
  <2> DEFINE a == w(u)
             b == <<"url">>
             r == a \o b
  <2>1. a \in Seq(BakerTags) /\ Len(a) = u /\ b \in Seq(BakerTags) /\ Len(b) = 1 /\ b[1] = "url"
        /\ \A i \in 1 .. u : a[i] = "url"
    BY <1>0, <1>1
  <2> HIDE DEF a, b
  <2>a. a \in Seq(BakerTags) /\ b \in Seq(BakerTags)
    BY <2>1
  <2>b. /\ r \in Seq(BakerTags) /\ Len(r) = Len(a) + Len(b)
        /\ \A i \in 1 .. Len(a) + Len(b) : r[i] = IF i <= Len(a) THEN a[i] ELSE b[i - Len(a)]
    BY ONLY <2>a, JoinAt
  <2>2. r \in Seq(BakerTags) /\ Len(r) = u + 1
        /\ \A i \in 1 .. u + 1 : r[i] = IF i <= u THEN a[i] ELSE b[i - u]
    BY <2>1, <2>b
  <2> HIDE DEF r
  <2>3. \A i \in 1 .. u + 1 : r[i] = "url"
    BY <2>1, <2>2
  <2>4. r = [i \in 1 .. u + 1 |-> "url"]
    BY <2>2, <2>3
  <2> QED
    BY <2>4 DEF r, a, b
<1>5. u + 1 \in Nat /\ w(u) \in Seq(BakerTags) /\ <<"url">> \in Seq(BakerTags)
  BY <1>0, <1>1
<1> HIDE DEF w, l
<1>6. (l \o w(u)) \o <<"url">> = l \o (w(u) \o <<"url">>)
  <2> DEFINE a == w(u)
             b == <<"url">>
  <2>1. l \in Seq(BakerTags) /\ a \in Seq(BakerTags) /\ b \in Seq(BakerTags)
    BY <1>0, <1>5
  <2> HIDE DEF a, b
  <2>2. (l \o a) \o b = l \o (a \o b)
    BY ONLY <2>1, Assoc
  <2> QED
    BY <2>2 DEF a, b
<1> QED
  BY <1>2, <1>3, <1>4, <1>5, <1>6

LEMMA UrlLeads ==
    ASSUME NEW c, "metadataUrl" \in c.has
    PROVE  /\ \A u \in Nat : StageWire(c.has, "URL_LENGTH", u) \o <<"urlLength">>
                                 = StageWire(c.has, AfterUrl(c), 0)
           /\ \A u \in Nat : StageWire(c.has, "URL_LENGTH", u) \o <<"urlLength">>
                                 = StageWire(c.has, "URL", 0)
           /\ Leads(c.has, "URL", <<"url">>, "URL", 1)
           /\ Leads(c.has, "URL", <<"url">>, AfterUrl(c), 1)
<1>0. 0 \in Nat /\ \A u \in Nat : u + 1 \in Nat
  OBVIOUS
<1> DEFINE f == FirstWire(c.has)
<1>1. ASSUME NEW u \in Nat
      PROVE  /\ StageWire(c.has, "URL_LENGTH", u) = f
             /\ StageWire(c.has, "URL", u) = f \o UrlWire(c.has, u)
             /\ StageWire(c.has, AfterUrl(c), u) = f \o UrlWire(c.has, u)
  BY AfterUrlWire DEF StageWire
<1>2. UrlWire(c.has, 0) = <<"urlLength">>
  BY <1>0, UrlGrows
<1>3. ASSUME NEW u \in Nat
      PROVE  (f \o UrlWire(c.has, u)) \o <<"url">> = f \o UrlWire(c.has, u + 1)
  <2>1. f \in Seq(BakerTags) /\ UrlWire(c.has, u) \in Seq(BakerTags) /\ <<"url">> \in Seq(BakerTags)
    BY WiresKnown DEF BakerTags
  <2>2. (f \o UrlWire(c.has, u)) \o <<"url">> = f \o (UrlWire(c.has, u) \o <<"url">>)
    <3> DEFINE a == UrlWire(c.has, u)
               b == <<"url">>
    <3>1. f \in Seq(BakerTags) /\ a \in Seq(BakerTags) /\ b \in Seq(BakerTags)
      BY <2>1
    <3> HIDE DEF a, b, f
    <3>2. (f \o a) \o b = f \o (a \o b)
      BY ONLY <3>1, Assoc, SMTT(30)
    <3> QED
      BY <3>2 DEF a, b
  <2>3. UrlWire(c.has, u) \o <<"url">> = UrlWire(c.has, u + 1)
    BY UrlGrows
  <2> QED
    BY <2>2, <2>3
<1> HIDE DEF f
<1> QED
  BY <1>0, <1>1, <1>2, <1>3 DEF Leads

LEMMA LastLeads ==
    ASSUME NEW c
    PROVE  /\ Leads(c.has, "COMMISSION_RATES", CommissionWire(c.has),
                    IF "suspended" \in c.has THEN "SUSPENDED" ELSE "END", 0)
           /\ "suspended" \in c.has => Leads(c.has, "SUSPENDED", <<"suspended">>, "END", 0)
<1>0. \A u \in Nat : u + 0 = u
  OBVIOUS
<1> DEFINE a(u) == FirstWire(c.has) \o UrlWire(c.has, u)
           m == CommissionWire(c.has)
<1>1. ASSUME NEW u \in Nat
      PROVE  a(u) \o m \in Seq(BakerTags) /\ (a(u) \o m) \o << >> = a(u) \o m
  <2>1. a(u) \in Seq(BakerTags) /\ m \in Seq(BakerTags)
    BY WiresKnown, JoinAt, Zenon
  <2>2. a(u) \o m \in Seq(BakerTags)
    BY <2>1, JoinAt, Zenon
  <2> QED
    BY <2>2, Joins, Zenon
<1>2. ASSUME NEW u \in Nat
      PROVE  /\ StageWire(c.has, "COMMISSION_RATES", u) = a(u)
             /\ StageWire(c.has, "SUSPENDED", u) = a(u) \o m
             /\ "suspended" \in c.has => StageWire(c.has, "END", u) = (a(u) \o m) \o <<"suspended">>
             /\ "suspended" \notin c.has => StageWire(c.has, "END", u) = (a(u) \o m) \o << >>
  BY DEF StageWire, Wire, Told
<1> HIDE DEF a
<1> QED
  BY <1>0, <1>1, <1>2 DEF Leads

-----------------------------------------------------------------------------
(* The transcript through each step. *)

LEMMA Grown ==
    ASSUME NEW s \in Seq(BakerItem), NEW t \in Seq(BakerItem), NEW has, NEW st, NEW next,
           NEW left, NEW rest, Transcript(s, has, st, left), Len(t) >= 1,
           \A u \in 0 .. Len(s) : \E w \in 0 .. Len(s) + Len(t) :
               StageWire(has, st, u) \o Tags(t) = StageWire(has, next, w),
           UrlTold(s \o t, IF next = "URL" THEN rest ELSE 0),
           next \in BeforeUrl => NoUrl(s \o t), Reached(has, next)
    PROVE  Transcript(s \o t, has, next, rest)
<1> DEFINE r == s \o t
<1>1. PICK u \in 0 .. Len(s) : Tags(s) = Begun \o StageWire(has, st, u)
  BY DEF Transcript
<1>2. PICK w \in 0 .. Len(s) + Len(t) : StageWire(has, st, u) \o Tags(t) = StageWire(has, next, w)
  OBVIOUS
<1>3. /\ r \in Seq(BakerItem) /\ Len(r) = Len(s) + Len(t) /\ Len(s) \in Nat /\ Len(t) \in Nat
      /\ \A i \in 1 .. Len(s) + Len(t) : r[i] = IF i <= Len(s) THEN s[i] ELSE t[i - Len(s)]
  BY JoinAt
<1>4. Len(s) >= 3 /\ s[2] = <<"kind", BAKER>> /\ s[3] = <<"bitmap", has>>
  BY DEF Transcript
<1>5. Tags(r) = Begun \o StageWire(has, next, w)
  <2> DEFINE a == Begun
             b == StageWire(has, st, u)
             c == Tags(t)
  <2>1. a \in Seq(BakerTags) /\ b \in Seq(BakerTags) /\ c \in Seq(BakerTags)
    BY StageWireKnown, TagsKnown, SMTT(30) DEF Begun, BakerTags
  <2>2. Tags(r) = Tags(s) \o c
    BY TagsConcat
  <2> HIDE DEF a, b, c, r
  <2>3. (a \o b) \o c = a \o (b \o c)
    BY ONLY <2>1, Assoc, SMTT(30)
  <2> QED
    BY <1>1, <1>2, <2>2, <2>3 DEF a, b, c
<1>6. r \in Seq(BakerItem) /\ UrlTold(r, IF next = "URL" THEN rest ELSE 0)
      /\ (next \in BeforeUrl => NoUrl(r))
  BY <1>3
<1> HIDE DEF r
<1>7. Len(r) > 3 /\ r[2] = s[2] /\ r[3] = s[3] /\ w \in 0 .. Len(r)
  <2>1. 2 \in 1 .. Len(s) + Len(t) /\ 3 \in 1 .. Len(s) + Len(t) /\ 2 <= Len(s) /\ 3 <= Len(s)
    BY <1>3, <1>4, SMTT(30)
  <2>2. r[2] = s[2] /\ r[3] = s[3]
    BY <1>3, <2>1
  <2>3. Len(r) > 3
    BY <1>3, <1>4
  <2>4. w \in 0 .. Len(r)
    BY <1>3
  <2> QED
    BY <2>2, <2>3, <2>4
<1>8. Len(r) >= 3
  BY <1>3, <1>7
<1>9. Transcript(r, has, next, rest)
  BY <1>4, <1>5, <1>6, <1>7, <1>8 DEF Transcript
<1> QED
  BY <1>9 DEF r

LEMMA PlainStep ==
    ASSUME NEW s \in Seq(BakerItem), NEW t, NEW tags, NEW has, NEW st, NEW next,
           NEW left, NEW rest, Transcript(s, has, st, left), Plain(t, tags), Len(tags) >= 1,
           st # "URL", next # "URL", Leads(has, st, tags, next, 0),
           next \in BeforeUrl => st \in BeforeUrl, Reached(has, next)
    PROVE  Transcript(s \o t, has, next, rest)
<1>1. t \in Seq(BakerItem) /\ Tags(t) = tags /\ NoUrl(t)
  BY DEF Plain
<1>2. Len(t) >= 1
  BY <1>1, TagsKnown
<1>3. UrlTold(s, 0) /\ (st \in BeforeUrl => NoUrl(s))
  BY DEF Transcript
<1>4. UrlTold(s \o t, 0) /\ (NoUrl(s) => NoUrl(s \o t))
  BY <1>1, <1>3, PlainKeepsUrl
<1>5. ASSUME NEW u \in 0 .. Len(s)
      PROVE  \E w \in 0 .. Len(s) + Len(t) : StageWire(has, st, u) \o Tags(t) = StageWire(has, next, w)
  <2>1. u \in Nat /\ u + 0 = u /\ u \in 0 .. Len(s) + Len(t)
    BY <1>1
  <2>2. StageWire(has, st, u) \o Tags(t) = StageWire(has, next, u)
    BY <1>1, <2>1 DEF Leads
  <2> QED
    BY <2>1, <2>2
<1> DEFINE r == s \o t
<1>6. UrlTold(r, IF next = "URL" THEN rest ELSE 0) /\ (next \in BeforeUrl => NoUrl(r))
  BY <1>3, <1>4
<1> QED
  BY <1>1, <1>2, <1>5, <1>6, Grown

\* How a packet ends.
LEMMA AckTells ==
    ASSUME NEW e \in BakerContext, Ack(BAKER, e), e.state # "AWAITING_CONFIRM",
           e.state \in OpenStages => Transcript(hash', e.has, e.state, e.urlLength)
    PROVE  TranscriptInv'
<1>1. ctx' = e /\ reply' = Success(<< >>)
  BY DEF Ack
<1>2. SignedIsComplete'
  BY <1>1 DEF SignedIsComplete, HasSignature, Success
<1>3. ~Parked'
  BY <1>1 DEF Parked, InBakerFlow
<1>4. Open' => Transcript(hash', ctx'.has, StageOf(ctx'), ctx'.urlLength)
  BY <1>1 DEF Open, StageOf
<1> QED
  BY <1>2, <1>3, <1>4 DEF TranscriptInv

LEMMA ReviewTells ==
    ASSUME NEW d \in BakerContext, NEW next, NEW continues, NEW items,
           ReviewStage(d, next, BakerScreen(continues, items)),
           Transcript(hash', d.has, next, d.urlLength), continues \/ next = "END"
    PROVE  TranscriptInv'
<1> DEFINE e == [[d EXCEPT !.firstDisplay = FALSE] EXCEPT !.pendingState = next, !.state = "AWAITING_CONFIRM"]
<1>1. ctx' = e /\ reply' = Owed /\ screen' = BakerScreen(continues, items)
  BY DEF ReviewStage, Review, awaitConfigureBakerConfirm
<1>2. e.has = d.has /\ e.state = "AWAITING_CONFIRM" /\ e.pendingState = next /\ e.urlLength = d.urlLength
  BY DEF BakerContext
<1> HIDE DEF e
<1>3. SignedIsComplete'
  BY <1>1 DEF SignedIsComplete, HasSignature, Owed
<1>4. Transcript(hash', ctx'.has, StageOf(ctx'), ctx'.urlLength)
  BY <1>1, <1>2 DEF StageOf
<1>5. screen'.cb = "sign" => ctx'.pendingState = "END"
  BY <1>1, <1>2 DEF BakerScreen
<1> QED
  BY <1>3, <1>4, <1>5 DEF TranscriptInv

LEMMA ReleasedTells ==
    ASSUME latch' # BAKER \/ ctx' = Wiped, SignedIsComplete'
    PROVE  TranscriptInv'
  BY DEF TranscriptInv, Open, Parked, InBakerFlow

LEMMA ThrowTells ==
    ASSUME Throw
    PROVE  TranscriptInv'
<1>1. ctx' = Wiped /\ reply' = Refused
  BY DEF Throw
<1>2. SignedIsComplete'
  BY <1>1 DEF SignedIsComplete, HasSignature, Refused
<1> QED
  BY <1>1, <1>2, ReleasedTells

LEMMA OpenTranscript ==
    ASSUME TypeOK, TranscriptInv, Enters(BAKER), BakerView.state \in OpenStages
    PROVE  /\ BakerView = ctx /\ ctx \in BakerContext /\ hash \in Seq(BakerItem)
           /\ Transcript(hash, ctx.has, ctx.state, ctx.urlLength)
<1>1. Open /\ BakerView = ctx /\ ctx \in BakerContext
  BY StageIsOpen
<1>2. ctx.state # "AWAITING_CONFIRM"
  BY <1>1 DEF Open, OpenStages
<1>3. StageOf(ctx) = ctx.state
  BY <1>2 DEF StageOf
<1> QED
  BY <1>1, <1>3 DEF TranscriptInv, TypeOK, TranscriptTypes

LEMMA OneThenTwo ==
    ASSUME NEW X, NEW x \in X, NEW y \in X, NEW z \in X
    PROVE  <<x>> \o <<y, z>> = <<x, y, z>>
<1> DEFINE s == <<x>>
           t == <<y, z>>
           u == <<x, y, z>>
<1>1. s \in Seq(X) /\ t \in Seq(X)
  OBVIOUS
<1>2. Len(s) = 1 /\ s[1] = x /\ Len(t) = 2 /\ t[1] = y /\ t[2] = z
  OBVIOUS
<1>3. u \in Seq(X) /\ Len(u) = 3 /\ u[1] = x /\ u[2] = y /\ u[3] = z
  OBVIOUS
<1> HIDE DEF s, t, u
<1> DEFINE r == s \o t
<1>4. /\ r \in Seq(X) /\ Len(r) = Len(s) + Len(t)
      /\ \A i \in 1 .. Len(s) + Len(t) : r[i] = IF i <= Len(s) THEN s[i] ELSE t[i - Len(s)]
  BY ONLY <1>1, JoinAt
<1> HIDE DEF r
<1>5. Len(r) = 3 /\ r[1] = s[1] /\ r[2] = t[1] /\ r[3] = t[2]
  BY <1>2, <1>4
<1>6. \A i \in 1 .. 3 : r[i] = u[i]
  BY <1>2, <1>3, <1>5
<1>7. r = u
  BY <1>3, <1>4, <1>5, <1>6, SMTT(30)
<1> QED
  BY <1>7 DEF r, s, t, u

LEMMA InitialTells ==
    ASSUME TypeOK, BakerInitial
    PROVE  TranscriptInv'
<1>1. PICK h \in Headers, p \in Paths, has \in Bitmaps :
        LET c    == [BakerView EXCEPT !.has = has, !.firstDisplay = TRUE, !.keysHash = << >>]
            head == <<<<"kind", BAKER>>, <<"bitmap", has>>>>
        IN  \/ /\ hashAccountTransactionHeaderAndKind(h, p, head)
               /\ Ack(BAKER, [c EXCEPT !.state = AfterBitmap(c)])
            \/ HeaderThrows(h, p, head)
  BY DEF BakerInitial
<1> DEFINE c    == [BakerView EXCEPT !.has = has, !.firstDisplay = TRUE, !.keysHash = << >>]
           e    == [c EXCEPT !.state = AfterBitmap(c)]
           head == <<<<"kind", BAKER>>, <<"bitmap", has>>>>
<1>2. c \in BakerContext /\ c.has = has
  <2>1. << >> \in Seq(BakerItem) /\ has \in SUBSET Fields
    BY BakerAssumption
  <2> QED
    BY <2>1, ViewType DEF BakerContext
<1> HIDE DEF c
<1>3. e \in BakerContext /\ e.has = has /\ e.state = AfterBitmap(c)
  BY <1>2, StageTypes DEF BakerContext
<1> HIDE DEF e
<1>4. CASE hashAccountTransactionHeaderAndKind(h, p, head) /\ Ack(BAKER, e)
  <2> DEFINE x == <<"header", h>>
             y == <<"kind", BAKER>>
             z == <<"bitmap", has>>
             s == <<x, y, z>>
  <2>1. /\ x \in BakerItem /\ y \in BakerItem /\ z \in BakerItem
        /\ x[1] = "header" /\ y[1] = "kind" /\ z[1] = "bitmap"
    BY ItemTypes
  <2>2. hash' = <<x>> \o <<y, z>>
    BY <1>4 DEF hashAccountTransactionHeaderAndKind
  <2> HIDE DEF x, y, z
  <2>3. <<x>> \o <<y, z>> = s
    BY <2>1, OneThenTwo
  <2>4. s \in Seq(BakerItem) /\ Len(s) = 3 /\ s[1] = x /\ s[2] = y /\ s[3] = z
    BY <2>1
  <2> HIDE DEF s
  <2>5. DOMAIN s = 1 .. 3
    BY <2>4
  <2>6. Tags(s) = Begun
    <3>1. Tags(s) = [i \in 1 .. 3 |-> s[i][1]]
      BY <2>5 DEF Tags
    <3>2. s[1][1] = "header" /\ s[2][1] = "kind" /\ s[3][1] = "bitmap"
      BY <2>1, <2>4
    <3>3. Begun = [i \in 1 .. 3 |-> s[i][1]]
      BY <3>2 DEF Begun
    <3> QED
      BY <3>1, <3>3
  <2>7. NoUrl(s)
    <3> SUFFICES ASSUME NEW i \in 1 .. 3 PROVE s[i][1] \notin {"url", "urlLength"}
      BY <2>5 DEF NoUrl
    <3>1. i = 1 \/ i = 2 \/ i = 3
      OBVIOUS
    <3> QED
      BY <2>1, <2>4, <3>1
  <2>8. \A left : UrlTold(s, left)
    BY <2>7 DEF UrlTold, NoUrl
  <2>9. ASSUME e.state \in OpenStages PROVE Transcript(s, e.has, e.state, e.urlLength)
    <3>1. 0 \in Nat /\ AfterBitmap(c) # "INITIAL"
      BY <1>3, <2>9 DEF OpenStages
    <3>2. StageWire(has, e.state, 0) = << >> /\ Reached(has, e.state) /\ e.state \notin {"URL", "END"}
      BY <1>2, <1>3, <3>1, AfterBitmapWire
    <3>3. Begun \in Seq(BakerTags)
      BY DEF Begun, BakerTags
    <3>4. Begun \o << >> = Begun
      BY <3>3, Joins, Zenon
    <3>5. 0 \in 0 .. Len(s) /\ Tags(s) = Begun \o StageWire(has, e.state, 0)
      <4>1. 0 \in 0 .. Len(s)
        BY <2>4
      <4>2. Begun \o StageWire(has, e.state, 0) = Begun \o << >>
        BY <3>2, Zenon
      <4>3. Tags(s) = Begun \o StageWire(has, e.state, 0)
        BY <2>6, <3>4, <4>2, Zenon
      <4> QED
        BY <4>1, <4>3
    <3>6. Len(s) >= 3 /\ s[2] = <<"kind", BAKER>> /\ s[3] = <<"bitmap", e.has>>
      BY <1>3, <2>4 DEF y, z
    <3> QED
      BY <1>3, <2>7, <2>8, <3>2, <3>5, <3>6 DEF Transcript
  <2>10. e.state # "AWAITING_CONFIRM"
    BY <1>3, AfterIsLater
  <2> QED
    BY <1>3, <1>4, <2>2, <2>3, <2>9, <2>10, AckTells
<1>5. CASE HeaderThrows(h, p, head)
  BY <1>5, ThrowTells DEF HeaderThrows
<1> QED
  BY <1>1, <1>4, <1>5 DEF c, e

LEMMA FirstBatchTells ==
    ASSUME TypeOK, TranscriptInv, BakerFirstBatch
    PROVE  TranscriptInv'
<1> DEFINE c == BakerView
<1>1. PICK v \in Vals, k \in Vals :
        LET d == [c EXCEPT !.blob = DisplayedFirst(c, v)]
        IN  /\ Enters(BAKER) /\ c.state = "FIRST"
            /\ \/ /\ "keys" \in c.has
                  /\ Feed(FirstBatchItems(c, v, k))
                  /\ Ack(BAKER, [d EXCEPT
                         !.state = "AGGREGATION_KEY",
                         !.keysHash = @ \o <<<<"electionKey", k>>, <<"signatureKey", k>>>>])
               \/ /\ "keys" \notin c.has
                  /\ Feed(FirstBatchItems(c, v, k))
                  /\ ReviewStage(d, AfterFirst(c), startConfigureBakerDisplay(d))
               \/ Throw
  BY DEF BakerFirstBatch, ThrowAfterPrefix
<1> DEFINE d == [c EXCEPT !.blob = DisplayedFirst(c, v)]
           e == [d EXCEPT !.state = "AGGREGATION_KEY",
                          !.keysHash = @ \o <<<<"electionKey", k>>, <<"signatureKey", k>>>>]
           t == FirstBatchItems(c, v, k)
<1>2. /\ c \in BakerContext /\ hash \in Seq(BakerItem)
      /\ Transcript(hash, c.has, "FIRST", c.urlLength)
  <2>1. BakerView.state \in OpenStages
    BY <1>1 DEF OpenStages
  <2> QED
    BY <1>1, <2>1, OpenTranscript
<1> HIDE DEF c
<1>3. d \in BakerContext /\ d.has = c.has /\ d.urlLength = c.urlLength
  BY <1>2, FieldTypes DEF BakerContext
<1> HIDE DEF d
<1>4. e \in BakerContext /\ e.has = c.has /\ e.urlLength = c.urlLength /\ e.state = "AGGREGATION_KEY"
  <2>1. <<<<"electionKey", k>>, <<"signatureKey", k>>>> \in Seq(BakerItem)
    BY ItemTypes DEF ValueTags
  <2>2. d.keysHash \o <<<<"electionKey", k>>, <<"signatureKey", k>>>> \in Seq(BakerItem)
    BY <1>3, <2>1, ContextFields
  <2> QED
    BY <1>3, <2>2 DEF BakerContext, BakerStates
<1> HIDE DEF e
<1>5. CASE "keys" \in c.has /\ Feed(t) /\ Ack(BAKER, e)
  <2> DEFINE tags == DisplayWire(c.has) \o Keys4
  <2>1. Plain(t, tags) /\ Leads(c.has, "FIRST", tags, "AGGREGATION_KEY", 0)
    BY <1>5, PlainFirstBatch, FirstLeads
  <2>2. Len(tags) >= 1
    <3>1. DisplayWire(c.has) \in Seq(BakerTags) /\ Keys4 \in Seq(BakerTags) /\ Len(Keys4) = 4
      BY WiresKnown DEF Keys4, BakerTags, ValueTags
    <3> DEFINE a == DisplayWire(c.has)
    <3>2. a \in Seq(BakerTags) /\ Keys4 \in Seq(BakerTags)
      BY <3>1
    <3> HIDE DEF a
    <3>3. Len(a \o Keys4) = Len(a) + Len(Keys4) /\ Len(a) \in Nat
      BY ONLY <3>2, JoinAt
    <3>4. Len(a \o Keys4) >= 1
      BY <3>1, <3>3
    <3> QED
      BY <3>4 DEF a
  <2> HIDE DEF tags, t
  <2>3. Reached(c.has, "AGGREGATION_KEY")
    BY <1>5 DEF Reached
  <2>4. Transcript(hash \o t, c.has, "AGGREGATION_KEY", c.urlLength)
    BY <1>2, <2>1, <2>2, <2>3, PlainStep DEF BeforeUrl
  <2> QED
    BY <1>4, <1>5, <2>4, AckTells DEF Feed
<1>6. CASE "keys" \notin c.has /\ Feed(t) /\ ReviewStage(d, AfterFirst(c), startConfigureBakerDisplay(d))
  <2> DEFINE next == AfterFirst(c)
             cont == "metadataUrl" \in d.has \/ hasCommissionRate(d) \/ "suspended" \in d.has
  <2>1. Plain(t, DisplayWire(c.has)) /\ Leads(c.has, "FIRST", DisplayWire(c.has), next, 0)
    BY <1>6, PlainFirstBatch, FirstLeads
  <2>2. Len(DisplayWire(c.has)) >= 1
    BY <1>2, <1>6, SomethingDeclared DEF Transcript, Reached
  <2>3. Reached(c.has, next) /\ next # "URL"
    BY AfterFirstWire
  <2>4. cont \/ next = "END"
    BY <1>3 DEF AfterFirst, AfterUrl, hasCommissionRate
  <2> HIDE DEF next, t, cont
  <2>5. Transcript(hash \o t, c.has, next, c.urlLength)
    BY <1>2, <2>1, <2>2, <2>3, PlainStep DEF BeforeUrl
  <2>6. ReviewStage(d, next, BakerScreen(cont, addAccountHeaderPairs \cup ItemsOf(d.blob) \cup ItemsOf(d.keysHash)))
    BY <1>6 DEF startConfigureBakerDisplay, next, cont
  <2> QED
    BY <1>3, <1>6, <2>4, <2>5, <2>6, ReviewTells DEF Feed
<1> QED
  BY <1>1, <1>5, <1>6, ThrowTells DEF d, e

LEMMA AggregationKeyTells ==
    ASSUME TypeOK, TranscriptInv, BakerAggregationKey
    PROVE  TranscriptInv'
<1> DEFINE c == BakerView
<1>1. PICK k \in Vals :
        LET d == [c EXCEPT !.keysHash = Append(@, <<"aggregationKey", k>>)]
        IN  /\ Enters(BAKER) /\ c.state = "AGGREGATION_KEY"
            /\ \/ /\ Feed(<<<<"aggregationKey", k>>, <<"aggregationProof", k>>>>)
                  /\ ReviewStage(d, AfterFirst(c), startConfigureBakerDisplay(d))
               \/ Throw
  BY DEF BakerAggregationKey
<1> DEFINE d == [c EXCEPT !.keysHash = Append(@, <<"aggregationKey", k>>)]
           t == <<<<"aggregationKey", k>>, <<"aggregationProof", k>>>>
<1>2. /\ c \in BakerContext /\ hash \in Seq(BakerItem)
      /\ Transcript(hash, c.has, "AGGREGATION_KEY", c.urlLength)
  <2>1. BakerView.state \in OpenStages
    BY <1>1 DEF OpenStages
  <2> QED
    BY <1>1, <2>1, OpenTranscript
<1> HIDE DEF c
<1>3. d \in BakerContext /\ d.has = c.has /\ d.urlLength = c.urlLength
  <2>1. <<"aggregationKey", k>> \in BakerItem
    BY ItemTypes DEF ValueTags
  <2>2. Append(c.keysHash, <<"aggregationKey", k>>) \in Seq(BakerItem)
    BY <1>2, <2>1, ContextFields
  <2> QED
    BY <1>2, <2>2 DEF BakerContext
<1> HIDE DEF d
<1>4. CASE Feed(t) /\ ReviewStage(d, AfterFirst(c), startConfigureBakerDisplay(d))
  <2> DEFINE next == AfterFirst(c)
             cont == "metadataUrl" \in d.has \/ hasCommissionRate(d) \/ "suspended" \in d.has
  <2>1. "keys" \in c.has
    BY <1>2 DEF Transcript, Reached
  <2>2. Plain(t, Keys2) /\ Leads(c.has, "AGGREGATION_KEY", Keys2, next, 0) /\ Len(Keys2) >= 1
    <3>1. Len(Keys2) >= 1
      BY DEF Keys2
    <3> QED
      BY <2>1, <3>1, PlainKeys, AggregationLeads
  <2>3. Reached(c.has, next) /\ next # "URL"
    BY AfterFirstWire
  <2>4. cont \/ next = "END"
    BY <1>3 DEF AfterFirst, AfterUrl, hasCommissionRate
  <2> HIDE DEF next, t, cont
  <2>5. Transcript(hash \o t, c.has, next, c.urlLength)
    BY <1>2, <2>2, <2>3, PlainStep DEF BeforeUrl
  <2>6. ReviewStage(d, next, BakerScreen(cont, addAccountHeaderPairs \cup ItemsOf(d.blob) \cup ItemsOf(d.keysHash)))
    BY <1>4 DEF startConfigureBakerDisplay, next, cont
  <2> QED
    BY <1>3, <1>4, <2>4, <2>5, <2>6, ReviewTells DEF Feed
<1> QED
  BY <1>1, <1>4, ThrowTells DEF d

LEMMA UrlLengthTells ==
    ASSUME TypeOK, TranscriptInv, BakerUrlLength
    PROVE  TranscriptInv'
<1> DEFINE c == BakerView
<1>1. PICK n \in 0 .. UrlMax + 1 :
        LET d == [c EXCEPT !.urlLength = n, !.blob = << >>]
        IN  /\ Enters(BAKER) /\ c.state = "URL_LENGTH"
            /\ \/ Throw
               \/ /\ n = 0
                  /\ Feed(<<<<"urlLength", 0>>>>)
                  /\ ReviewStage(d, AfterUrl(c), startConfigureBakerUrlDisplay(d, TRUE))
               \/ /\ n > 0 /\ UrlLengthFits(n)
                  /\ Feed(<<<<"urlLength", n>>>>)
                  /\ Ack(BAKER, [d EXCEPT !.state = "URL"])
  BY DEF BakerUrlLength
<1> DEFINE d == [c EXCEPT !.urlLength = n, !.blob = << >>]
           e == [d EXCEPT !.state = "URL"]
           x == <<"urlLength", n>>
           t == <<x>>
<1>2. /\ c \in BakerContext /\ hash \in Seq(BakerItem)
      /\ Transcript(hash, c.has, "URL_LENGTH", c.urlLength)
  <2>1. BakerView.state \in OpenStages
    BY <1>1 DEF OpenStages
  <2> QED
    BY <1>1, <2>1, OpenTranscript
<1> HIDE DEF c
<1>3. "metadataUrl" \in c.has /\ NoUrl(hash)
  BY <1>2 DEF Transcript, Reached, BeforeUrl
<1>4. ASSUME n \in 0 .. UrlMax
      PROVE  /\ d \in BakerContext /\ d.has = c.has /\ d.urlLength = n
             /\ e \in BakerContext /\ e.has = c.has /\ e.urlLength = n /\ e.state = "URL"
             /\ t \in Seq(BakerItem) /\ Tags(t) = <<"urlLength">> /\ Len(t) = 1
             /\ UrlTold(hash \o t, n)
  <2>1. << >> \in Seq(BakerItem)
    OBVIOUS
  <2>2. d \in BakerContext /\ d.has = c.has /\ d.urlLength = n
    BY <1>2, <1>4, <2>1 DEF BakerContext
  <2> HIDE DEF d
  <2>3. e \in BakerContext /\ e.has = c.has /\ e.urlLength = n /\ e.state = "URL"
    BY <2>2 DEF BakerContext, BakerStates
  <2>4. x \in BakerItem /\ x[1] = "urlLength"
    BY <1>4, ItemTypes
  <2>5. UrlTold(hash \o t, n)
    BY <1>2, <1>3, <1>4, LengthTold
  <2> HIDE DEF x
  <2>6. t \in Seq(BakerItem) /\ Len(t) = 1
    BY <2>4
  <2>7. Tags(t) = <<"urlLength">>
    BY <2>4, TagsOne
  <2> QED
    BY <2>2, <2>3, <2>5, <2>6, <2>7
<1> HIDE DEF d, e, x
<1>5. CASE n = 0 /\ Feed(t) /\ ReviewStage(d, AfterUrl(c), startConfigureBakerUrlDisplay(d, TRUE))
  <2> DEFINE next == AfterUrl(c)
             cont == hasCommissionRate(d) \/ "suspended" \in d.has
             items == HeaderOnFirstDisplay(d) \cup
                      IF d.urlLength = 0 THEN {<<"urlLength", 0>>} ELSE ItemsOf(d.blob)
  <2>1. n \in 0 .. UrlMax
    BY <1>5, BakerAssumption
  <2>2. Reached(c.has, next) /\ next # "URL" /\ next \notin BeforeUrl
    BY AfterUrlWire
  <2>3. cont \/ next = "END"
    BY <1>4, <2>1 DEF AfterUrl, hasCommissionRate
  <2>4. ASSUME NEW u \in 0 .. Len(hash)
        PROVE  \E w \in 0 .. Len(hash) + Len(t) :
                   StageWire(c.has, "URL_LENGTH", u) \o Tags(t) = StageWire(c.has, next, w)
    <3>1. u \in Nat /\ 0 \in 0 .. Len(hash) + Len(t)
      BY <1>2, <1>4, <2>1
    <3>2. StageWire(c.has, "URL_LENGTH", u) \o Tags(t) = StageWire(c.has, next, 0)
      BY <1>3, <1>4, <2>1, <3>1, UrlLeads
    <3> QED
      BY <3>1, <3>2
  <2>5. startConfigureBakerUrlDisplay(d, TRUE) = BakerScreen(cont, items)
    BY DEF startConfigureBakerUrlDisplay
  <2> HIDE DEF next, cont, t
  <2>6. UrlTold(hash \o t, 0) /\ Len(t) >= 1
    <3>1. n = 0 /\ UrlTold(hash \o t, n) /\ Len(t) = 1
      BY <1>4, <1>5, <2>1, Zenon
    <3>2. UrlTold(hash \o t, 0)
      BY <3>1, Zenon
    <3>3. Len(t) >= 1
      BY <3>1
    <3> QED
      BY <3>2, <3>3
  <2>7. UrlTold(hash \o t, IF next = "URL" THEN n ELSE 0)
    BY <2>2, <2>6
  <2>8. Transcript(hash \o t, c.has, next, n)
    BY <1>2, <1>4, <2>1, <2>2, <2>4, <2>6, <2>7, Grown
  <2>9. ReviewStage(d, next, BakerScreen(cont, items))
    BY <1>5, <2>5 DEF next
  <2> HIDE DEF items
  <2> QED
    BY <1>4, <1>5, <2>1, <2>3, <2>8, <2>9, ReviewTells DEF Feed
<1>6. CASE n > 0 /\ UrlLengthFits(n) /\ Feed(t) /\ Ack(BAKER, e)
  <2>1. n \in 0 .. UrlMax
    BY <1>6, BakerAssumption DEF UrlLengthFits
  <2>2. Reached(c.has, "URL") /\ "URL" \notin BeforeUrl
    BY <1>3 DEF Reached, BeforeUrl
  <2>4. ASSUME NEW u \in 0 .. Len(hash)
        PROVE  \E w \in 0 .. Len(hash) + Len(t) :
                   StageWire(c.has, "URL_LENGTH", u) \o Tags(t) = StageWire(c.has, "URL", w)
    <3>1. u \in Nat /\ 0 \in 0 .. Len(hash) + Len(t)
      BY <1>2, <1>4, <2>1
    <3>2. StageWire(c.has, "URL_LENGTH", u) \o Tags(t) = StageWire(c.has, "URL", 0)
      BY <1>3, <1>4, <2>1, <3>1, UrlLeads
    <3> QED
      BY <3>1, <3>2
  <2> HIDE DEF t
  <2>5. UrlTold(hash \o t, IF "URL" = "URL" THEN n ELSE 0) /\ Len(t) >= 1
    <3>1. UrlTold(hash \o t, n) /\ Len(t) = 1
      BY <1>4, <2>1, Zenon
    <3>2. Len(t) >= 1
      BY <3>1
    <3> QED
      BY <3>1, <3>2, Zenon
  <2>6. Transcript(hash \o t, c.has, "URL", n)
    BY <1>2, <1>4, <2>1, <2>2, <2>4, <2>5, Grown
  <2> QED
    BY <1>4, <1>6, <2>1, <2>6, AckTells DEF Feed
<1>7. CASE Throw
  BY <1>7, ThrowTells
<1> QED
  BY <1>1, <1>5, <1>6, <1>7 DEF d, e, t, x

LEMMA UrlTells ==
    ASSUME TypeOK, TranscriptInv, BakerUrl
    PROVE  TranscriptInv'
<1> DEFINE c == BakerView
<1>1. PICK n \in 1 .. ChunkMax, v \in Vals :
        LET last == c.urlLength = n
            d    == [c EXCEPT !.blob = <<<<"url", v, n>>>>,
                              !.urlLength = IF last THEN @ ELSE @ - n]
        IN  /\ Enters(BAKER) /\ c.state = "URL"
            /\ \/ Throw
               \/ send_rejection(c)
               \/ /\ c.urlLength >= n
                  /\ Feed(<<<<"url", v, n>>>>)
                  /\ ReviewStage(d, IF last THEN AfterUrl(c) ELSE "URL",
                                 startConfigureBakerUrlDisplay(d, last))
  BY DEF BakerUrl
<1> DEFINE last == c.urlLength = n
           d    == [c EXCEPT !.blob = <<<<"url", v, n>>>>,
                             !.urlLength = IF last THEN @ ELSE @ - n]
           x    == <<"url", v, n>>
           t    == <<x>>
           next == IF last THEN AfterUrl(c) ELSE "URL"
<1>2. /\ c \in BakerContext /\ hash \in Seq(BakerItem)
      /\ Transcript(hash, c.has, "URL", c.urlLength)
  <2>1. BakerView.state \in OpenStages
    BY <1>1 DEF OpenStages
  <2> QED
    BY <1>1, <2>1, OpenTranscript
<1> HIDE DEF c
<1>3. "metadataUrl" \in c.has /\ UrlTold(hash, c.urlLength) /\ c.urlLength \in 0 .. UrlMax
  BY <1>2, ContextFields DEF Transcript, Reached
<1>4. x \in BakerItem /\ x[1] = "url"
  BY ItemTypes
<1>5. t \in Seq(BakerItem) /\ Len(t) = 1 /\ Tags(t) = <<"url">>
  <2> HIDE DEF x
  <2> QED
    BY <1>4, TagsOne
<1>6. CASE c.urlLength >= n /\ Feed(t) /\ ReviewStage(d, next, startConfigureBakerUrlDisplay(d, last))
  <2>0. c.urlLength \in Nat /\ n \in Nat /\ n <= c.urlLength
    BY <1>3, <1>6, BakerAssumption
  <2>1. d \in BakerContext /\ d.has = c.has /\ d.urlLength = IF last THEN c.urlLength ELSE c.urlLength - n
    <3> DEFINE m == IF last THEN c.urlLength ELSE c.urlLength - n
    <3>1. m \in 0 .. UrlMax
      <4>1. c.urlLength \in 0 .. UrlMax /\ UrlMax \in Nat
        BY <1>3, BakerAssumption
      <4>2. c.urlLength - n \in 0 .. UrlMax
        BY <2>0, <4>1
      <4> QED
        BY <4>1, <4>2
    <3>2. d = [c EXCEPT !.blob = t, !.urlLength = m]
      BY <1>2 DEF BakerContext
    <3> HIDE DEF m, t, d
    <3>3. d \in BakerContext /\ d.has = c.has /\ d.urlLength = m
      BY <1>2, <1>5, <3>1, <3>2 DEF BakerContext
    <3> QED
      BY <3>3 DEF m
  <2>2. UrlTold(hash \o t, c.urlLength - n)
    BY <1>2, <1>3, <2>0, ChunkTold
  <2> DEFINE cont == ~last \/ hasCommissionRate(d) \/ "suspended" \in d.has
             items == HeaderOnFirstDisplay(d) \cup
                      IF last /\ d.urlLength = 0 THEN {<<"urlLength", 0>>} ELSE ItemsOf(d.blob)
  <2>3. startConfigureBakerUrlDisplay(d, last) = BakerScreen(cont, items)
    BY DEF startConfigureBakerUrlDisplay
  <2> HIDE DEF x, t, d
  <2>4. cont \/ next = "END"
    BY <2>1 DEF AfterUrl, hasCommissionRate
  <2>5. Reached(c.has, next) /\ next \notin BeforeUrl /\ (next = "URL" <=> ~last)
    <3>1. CASE last
      BY <3>1, AfterUrlWire
    <3>2. CASE ~last
      BY <1>3, <3>2 DEF Reached, BeforeUrl
    <3> QED
      BY <3>1, <3>2
  <2>6. Leads(c.has, "URL", <<"url">>, next, 1)
    BY <1>3, UrlLeads
  <2>7. UrlTold(hash \o t, IF next = "URL" THEN d.urlLength ELSE 0)
    <3>1. (IF next = "URL" THEN d.urlLength ELSE 0) = c.urlLength - n
      BY <2>0, <2>1, <2>5
    <3> QED
      BY <2>2, <3>1
  <2> HIDE DEF next, cont, last, items
  <2>8. ASSUME NEW u \in 0 .. Len(hash)
        PROVE  \E w \in 0 .. Len(hash) + Len(t) :
                   StageWire(c.has, "URL", u) \o Tags(t) = StageWire(c.has, next, w)
    <3>1. u \in Nat /\ u + 1 \in 0 .. Len(hash) + Len(t)
      BY <1>2, <1>5
    <3>2. StageWire(c.has, "URL", u) \o Tags(t) = StageWire(c.has, next, u + 1)
      BY <1>5, <2>6, <3>1 DEF Leads
    <3> QED
      BY <3>1, <3>2
  <2>9. Transcript(hash \o t, c.has, next, d.urlLength)
    <3>1. Len(t) >= 1
      BY <1>5
    <3> QED
      BY <1>2, <1>5, <2>5, <2>7, <2>8, <3>1, Grown
  <2>10. ReviewStage(d, next, BakerScreen(cont, items))
    BY <1>6, <2>3
  <2> QED
    BY <1>6, <2>1, <2>4, <2>9, <2>10, ReviewTells DEF Feed
<1>7. CASE Throw
  BY <1>7, ThrowTells
<1>8. CASE send_rejection(c)
  <2>1. latch' = NONE /\ reply' = Refused
    BY <1>8 DEF send_rejection
  <2>2. SignedIsComplete' /\ latch' # BAKER
    BY <2>1 DEF SignedIsComplete, HasSignature, Refused, NONE, BAKER
  <2> QED
    BY <2>2, ReleasedTells
<1> QED
  BY <1>1, <1>6, <1>7, <1>8 DEF d, t, x, next, last

LEMMA CommissionTells ==
    ASSUME TypeOK, TranscriptInv, handleCommissionRates
    PROVE  TranscriptInv'
<1> DEFINE c == BakerView
           next == IF "suspended" \in c.has THEN "SUSPENDED" ELSE "END"
<1>1. PICK v \in Vals :
        LET d == [c EXCEPT !.blob = CommissionItems(c, v)]
        IN  /\ Enters(BAKER) /\ c.state = "COMMISSION_RATES"
            /\ \/ /\ Feed(CommissionItems(c, v))
                  /\ ReviewStage(d, next, startConfigureBakerCommissionDisplay(d))
               \/ Throw
  BY DEF handleCommissionRates, ThrowAfterPrefix
<1> DEFINE t == CommissionItems(c, v)
           d == [c EXCEPT !.blob = t]
<1>2. /\ c \in BakerContext /\ hash \in Seq(BakerItem)
      /\ Transcript(hash, c.has, "COMMISSION_RATES", c.urlLength)
  <2>1. BakerView.state \in OpenStages
    BY <1>1 DEF OpenStages
  <2> QED
    BY <1>1, <2>1, OpenTranscript
<1> HIDE DEF c
<1>3. Plain(t, CommissionWire(c.has)) /\ t \in Seq(BakerItem)
  BY PlainFields DEF Plain
<1> HIDE DEF t
<1>4. d \in BakerContext /\ d.has = c.has /\ d.urlLength = c.urlLength
  BY <1>2, <1>3 DEF BakerContext
<1> HIDE DEF d
<1>5. CASE Feed(t) /\ ReviewStage(d, next, startConfigureBakerCommissionDisplay(d))
  <2> DEFINE cont == "suspended" \in d.has
  <2>1. Leads(c.has, "COMMISSION_RATES", CommissionWire(c.has), next, 0)
    BY LastLeads
  <2>2. Len(CommissionWire(c.has)) >= 1
    BY <1>2, SomethingDeclared DEF Transcript, Reached
  <2>3. Reached(c.has, next) /\ next # "URL" /\ next \notin BeforeUrl
    BY DEF Reached, BeforeUrl
  <2>4. cont \/ next = "END"
    BY <1>4
  <2>5. ReviewStage(d, next, BakerScreen(cont, HeaderOnFirstDisplay(d) \cup ItemsOf(d.blob)))
    BY <1>5 DEF startConfigureBakerCommissionDisplay
  <2> HIDE DEF next, cont
  <2>6. Transcript(hash \o t, c.has, next, c.urlLength)
    BY <1>2, <1>3, <2>1, <2>2, <2>3, PlainStep
  <2> QED
    BY <1>4, <1>5, <2>4, <2>5, <2>6, ReviewTells DEF Feed
<1> QED
  BY <1>1, <1>5, ThrowTells DEF d, t

LEMMA SuspendedTells ==
    ASSUME TypeOK, TranscriptInv, BakerSuspended
    PROVE  TranscriptInv'
<1> DEFINE c == BakerView
<1>1. PICK v \in Vals :
        LET d == [c EXCEPT !.blob = <<<<"suspended", v>>>>]
        IN  /\ Enters(BAKER) /\ c.state = "SUSPENDED"
            /\ \/ /\ Feed(<<<<"suspended", v>>>>)
                  /\ ReviewStage(d, "END", startConfigureBakerSuspendedDisplay(d))
               \/ Throw
  BY DEF BakerSuspended, ThrowAfterPrefix
<1> DEFINE t == <<<<"suspended", v>>>>
           d == [c EXCEPT !.blob = t]
<1>2. /\ c \in BakerContext /\ hash \in Seq(BakerItem)
      /\ Transcript(hash, c.has, "SUSPENDED", c.urlLength)
  <2>1. BakerView.state \in OpenStages
    BY <1>1 DEF OpenStages
  <2> QED
    BY <1>1, <2>1, OpenTranscript
<1> HIDE DEF c
<1>3. Plain(t, <<"suspended">>) /\ t \in Seq(BakerItem)
  BY PlainFields DEF Plain
<1> HIDE DEF t
<1>4. d \in BakerContext /\ d.has = c.has /\ d.urlLength = c.urlLength
  BY <1>2, <1>3 DEF BakerContext
<1> HIDE DEF d
<1>5. CASE Feed(t) /\ ReviewStage(d, "END", startConfigureBakerSuspendedDisplay(d))
  <2>1. "suspended" \in c.has
    BY <1>2 DEF Transcript, Reached
  <2>2. Leads(c.has, "SUSPENDED", <<"suspended">>, "END", 0)
    BY <2>1, LastLeads
  <2>3. Reached(c.has, "END") /\ "END" # "URL" /\ "END" \notin BeforeUrl
    BY DEF Reached, BeforeUrl
  <2>4. Len(<<"suspended">>) >= 1
    OBVIOUS
  <2>5. ReviewStage(d, "END", BakerScreen(FALSE, HeaderOnFirstDisplay(d) \cup ItemsOf(d.blob)))
    BY <1>5 DEF startConfigureBakerSuspendedDisplay
  <2> DEFINE tags == <<"suspended">>
  <2>6. Transcript(hash \o t, c.has, "END", c.urlLength)
    <3>1. Plain(t, tags) /\ Len(tags) >= 1 /\ Leads(c.has, "SUSPENDED", tags, "END", 0)
      BY <1>3, <2>2, <2>4
    <3> HIDE DEF tags
    <3> QED
      BY <1>2, <2>3, <3>1, PlainStep
  <2> QED
    BY <1>4, <1>5, <2>5, <2>6, ReviewTells DEF Feed
<1> QED
  BY <1>1, <1>5, ThrowTells DEF d, t

LEMMA PacketTells ==
    ASSUME TypeOK, TranscriptInv, BakerPacket
    PROVE  TranscriptInv'
<1>1. CASE BakerWrongState
  BY <1>1, ThrowTells DEF BakerWrongState
<1> QED
  BY <1>1, InitialTells, FirstBatchTells, AggregationKeyTells, UrlLengthTells, UrlTells,
     CommissionTells, SuspendedTells DEF BakerPacket

\* The transcript of the last stage is a whole transaction.
LEMMA EndIsComplete ==
    ASSUME NEW s, NEW has, NEW left, Transcript(s, has, "END", left)
    PROVE  IsComplete(s)
<1>1. /\ Len(s) > 3 /\ s[2] = <<"kind", BAKER>> /\ s[3] = <<"bitmap", has>> /\ UrlTold(s, 0)
      /\ \E u \in 0 .. Len(s) : Tags(s) = Begun \o StageWire(has, "END", u)
  BY DEF Transcript
<1>2. s[3][2] = has
  BY <1>1
<1>3. \A u : StageWire(has, "END", u) = Wire(has, u)
  BY DEF StageWire
<1> QED
  BY <1>1, <1>2, <1>3 DEF IsComplete, Begun

LEMMA ButtonTells ==
    ASSUME TypeOK, ReviewInv, AnswerInv, TranscriptInv, BakerButton
    PROVE  TranscriptInv'
<1>1. CASE confirmConfigureBakerStage
  <2>1. Parked
    BY <1>1 DEF confirmConfigureBakerStage, AnswerInv, ReviewUp
  <2>2. ctx.pendingState \in LaterStages /\ ctx # Wiped /\ ctx \in BakerContext
    BY <2>1 DEF ReviewInv, ParkedIsOnScreen, Parked, InBakerFlow, TypeOK, ShellTypes
  <2>3. Transcript(hash, ctx.has, ctx.pendingState, ctx.urlLength)
    BY <2>1 DEF TranscriptInv, Parked, StageOf
  <2>4. ctx' = [ctx EXCEPT !.state = ctx.pendingState] /\ hash' = hash /\ reply' = Success(<< >>)
    BY <1>1, <2>2 DEF confirmConfigureBakerStage
  <2>5. ctx'.state = ctx.pendingState /\ ctx'.has = ctx.has /\ ctx'.urlLength = ctx.urlLength
    BY <2>2, <2>4 DEF BakerContext
  <2>6. ctx'.state # "AWAITING_CONFIRM"
    BY <2>2, <2>5 DEF LaterStages
  <2>7. SignedIsComplete'
    BY <2>4 DEF SignedIsComplete, HasSignature, Success
  <2>8. ~Parked'
    BY <2>6 DEF Parked
  <2>9. Transcript(hash', ctx'.has, StageOf(ctx'), ctx'.urlLength)
    BY <2>3, <2>4, <2>5, <2>6 DEF StageOf
  <2> QED
    BY <2>7, <2>8, <2>9 DEF TranscriptInv
<1>2. CASE buildAndSignTransactionHash
  <2>1. Parked /\ screen.cb = "sign"
    BY <1>2 DEF buildAndSignTransactionHash, AnswerInv, ReviewUp
  <2>2. ctx.state = "AWAITING_CONFIRM" /\ ctx.pendingState = "END"
    BY <2>1 DEF TranscriptInv, Parked
  <2>3. Transcript(hash, ctx.has, "END", ctx.urlLength)
    BY <2>1, <2>2 DEF TranscriptInv, StageOf
  <2>4. IsComplete(hash)
    BY <2>3, EndIsComplete
  <2>5. reply' = Success(<<"signature", hash, path>>) /\ latch' = NONE
    BY <1>2 DEF buildAndSignTransactionHash, send_success, ui_menu_main
  <2>6. SignedItems' = hash
    BY <2>5 DEF SignedItems, Success
  <2>7. SignedIsComplete'
    BY <2>4, <2>6 DEF SignedIsComplete
  <2>8. latch' # BAKER
    BY <2>5 DEF NONE, BAKER
  <2> QED
    BY <2>7, <2>8, ReleasedTells
<1>3. CASE SigningFails
  <2>1. latch' = NONE /\ reply' = Refused
    BY <1>3 DEF SigningFails, CallbackThrow, ui_menu_main
  <2>2. SignedIsComplete' /\ latch' # BAKER
    BY <2>1 DEF SignedIsComplete, HasSignature, Refused, NONE, BAKER
  <2> QED
    BY <2>2, ReleasedTells
<1>4. CASE Decline
  <2>1. latch' = NONE /\ reply' = Declined
    BY <1>4 DEF Decline, send_user_rejection, UserDeclines, ui_menu_main
  <2>2. SignedIsComplete' /\ latch' # BAKER
    BY <2>1 DEF SignedIsComplete, HasSignature, Declined, NONE, BAKER
  <2> QED
    BY <2>2, ReleasedTells
<1> QED
  BY <1>1, <1>2, <1>3, <1>4 DEF BakerButton

\* A command that is answered without touching the flow.
LEMMA KeptTells ==
    ASSUME TranscriptInv, UNCHANGED <<latch, ctx, hash, screen>>, SignedIsComplete'
    PROVE  TranscriptInv'
<1>1. latch' = latch /\ ctx' = ctx /\ hash' = hash /\ screen' = screen
  OBVIOUS
<1>2. (Open' <=> Open) /\ (Parked' <=> Parked)
  BY <1>1 DEF Open, Parked, InBakerFlow
<1> QED
  BY <1>1, <1>2 DEF TranscriptInv

LEMMA OtherTells ==
    ASSUME TypeOK, TranscriptInv, OtherStep
    PROVE  TranscriptInv'
<1>1. ASSUME reply' = Refused \/ reply' = Success(<< >>) PROVE SignedIsComplete'
  BY <1>1 DEF SignedIsComplete, HasSignature, Refused, Success
<1>2. ASSUME reply' = reply PROVE SignedIsComplete'
  <2>1. SignedIsComplete
    BY DEF TranscriptInv
  <2> QED
    BY <1>2, <2>1 DEF SignedIsComplete, HasSignature, SignedItems
<1>3. CASE BadCommand
  <2>1. reply' = Refused /\ UNCHANGED <<latch, ctx, hash, screen>>
    BY <1>3 DEF BadCommand, noFlow
  <2> QED
    BY <1>1, <2>1, KeptTells
<1>4. CASE latch' = NONE /\ (reply' = Refused \/ reply' = Success(<< >>) \/ reply' = reply)
  <2>1. latch' # BAKER
    BY <1>4 DEF NONE, BAKER
  <2> QED
    BY <1>1, <1>2, <1>4, <2>1, ReleasedTells
<1>5. ASSUME NEW ins \in {BAKER, "GET_APP_NAME"}, RefusedByDispatcher(ins) PROVE TranscriptInv'
  <2>1. reply' = Refused /\ latch' = ins /\ ctx' = Union /\ hash' = hash /\ screen' = screen
        /\ latch \in {NONE, ins}
    BY <1>5 DEF RefusedByDispatcher, noFlow, Enters
  <2>2. CASE latch = NONE
    BY <1>1, <2>1, <2>2, ReleasedTells DEF Union, IsInitialCall
  <2>3. CASE latch = ins /\ latch # NONE
    <3>1. ctx' = ctx /\ latch' = latch
      BY <2>1, <2>3 DEF Union, IsInitialCall
    <3> QED
      BY <1>1, <2>1, <3>1, KeptTells
  <2> QED
    BY <2>1, <2>2, <2>3
<1>6. CASE AboutBack
  BY <1>4, <1>6 DEF AboutBack, ui_menu_main
<1>7. CASE AppInfo("GET_APP_NAME") \/ UnknownInstruction
  BY <1>4, <1>7 DEF AppInfo, UnknownInstruction, send_rejection
<1>8. ASSUME NEW ins \in {BAKER, "GET_APP_NAME"}, SwitchGuard(ins) PROVE TranscriptInv'
  BY <1>4, <1>8 DEF SwitchGuard
<1> QED
  BY <1>3, <1>5, <1>6, <1>7, <1>8 DEF OtherStep

LEMMA NextTells ==
    ASSUME TypeOK, ReviewInv, AnswerInv, TranscriptInv, [BakerNext]_deviceVars
    PROVE  TranscriptInv'
<1>1. CASE Restart
  <2>1. ctx' = Wiped /\ reply' = Idle
    BY <1>1 DEF Restart
  <2>2. SignedIsComplete'
    BY <2>1 DEF SignedIsComplete, HasSignature, Idle
  <2> QED
    BY <2>1, <2>2, ReleasedTells
<1>2. CASE UNCHANGED deviceVars
  <2>1. UNCHANGED <<latch, ctx, hash, screen>> /\ reply' = reply
    BY <1>2 DEF deviceVars
  <2>2. SignedIsComplete'
    BY <2>1 DEF TranscriptInv, SignedIsComplete, HasSignature, SignedItems
  <2> QED
    BY <2>1, <2>2, KeptTells
<1>3. CASE Shell({BAKER})
  BY <1>3, OtherTells DEF Shell, OtherStep
<1> QED
  BY <1>1, <1>2, <1>3, PacketTells, ButtonTells DEF BakerNext

\* A signature of the baker flow is only ever made over a whole transaction:
\* the declared fields, each once and in wire order, and a URL of the declared
\* length, whatever packets, refusals and key presses led to it.
THEOREM OnlyWholeTransactionsAreSigned ==
    ASSUME Gated
    PROVE  BakerSpec => []SignedIsComplete
<1>1. DeviceInit => TranscriptInv
  BY DEF DeviceInit, TranscriptInv, Open, Parked, InBakerFlow, SignedIsComplete, HasSignature, Idle
<1>2. TypeOK /\ ReviewInv /\ AnswerInv /\ TranscriptInv /\ [BakerNext]_deviceVars => TranscriptInv'
  BY NextTells
<1>3. TranscriptInv => SignedIsComplete
  BY DEF TranscriptInv
<1> QED
  BY <1>1, <1>2, <1>3, TypeCorrect, ReviewDrivesFlow, AnswersMatchReviews, PTL DEF BakerSpec
=============================================================================
