---------------------------- MODULE AccountProofs ----------------------------
(***************************************************************************)
(* Proofs about AccountFlows, for every set of headers, paths and values,  *)
(* every length of data, proof, name, parameters, source and token payload *)
(* and every size of chunk, on either screen technology, with the SDK      *)
(* holding commands back while an answer is owed.                          *)
(***************************************************************************)
EXTENDS AccountFlows, FlowLemmas

-----------------------------------------------------------------------------
(* Types. *)

ValueTags == {"remaining", "amount", "to", "index", "token", "version", "moduleRef", "subIndex"}
                 \cup DelegationFields

AccountItem ==
    UNION {{"header"} \X Headers, {"kind"} \X AccountInss, ValueTags \X Vals,
           {"cborLength", "proof", "sourceLength", "nameLength", "paramsLength"} \X Nat,
           {"cbor"} \X Vals \X (1 .. CborChunkMax),
           {"bitmap"} \X SUBSET DelegationFields,
           {"source", "name", "params"} \X Seq(Vals),
           {"plt"} \X PltItems}

RegisterContexts ==
    {c \in [view : {"register"}, state : RegisterStates, dataLength : 0 .. CborMax,
            cbor : [length : 0 .. CborMax, buf : Seq(Vals \X (1 .. CborChunkMax))]] :
        c.cbor.length = c.dataLength /\ c.dataLength + BufLen(c.cbor.buf) <= CborMax}

ToPublicContexts ==
    [view : {"public"}, state : ToPublicStates, amount : Vals \cup {"none"},
     to : Vals \cup {"none"}, proofSize : 0 .. ProofMax]

DelegationContexts == [view : {"delegation"}, texts : Seq(DelegationFields \X Vals)]

DeployContexts ==
    [view : {"deploy"}, version : Vals \cup {"none"}, remaining : 0 .. LengthMax, source : Seq(Vals)]

ContractStates == {"zero", "NAME_FIRST", "NAME_NEXT", "PARAMS_FIRST", "PARAMS_NEXT"}

ContractContexts ==
    {c \in [view : {"contract"}, state : ContractStates, head : SUBSET (ValueTags \X Vals),
            nameLength : 0 .. LengthMax, remainingName : 0 .. LengthMax,
            remainingParams : 0 .. LengthMax, nameDisplay : Seq(Vals), payload : Seq(Vals)] :
        Len(c.nameDisplay) < NameSize}

PltContexts ==
    {c \in [view : {"plt"}, state : PltStates, tokenId : Vals \cup {"none"},
            cborTotalLength : 0 .. PltMax, cborBuf : Seq(PltItems)] :
        Len(c.cborBuf) <= c.cborTotalLength}

AccountContexts ==
    UNION {RegisterContexts, ToPublicContexts, DelegationContexts, DeployContexts,
           ContractContexts, PltContexts}

\* While an instruction holds the latch, the union is empty or its own.
OwnContext(ins, c) ==
    /\ ins = REGISTER => c \in RegisterContexts
    /\ ins = TOPUBLIC => c \in ToPublicContexts
    /\ ins = DELEGATION => c \in DelegationContexts
    /\ ins = DEPLOY => c \in DeployContexts
    /\ ins \in {INITIALIZE, UPDATE} => c \in ContractContexts
    /\ ins = PLT => c \in PltContexts

AccountTexts == [header : Headers \cup {"none"}, network : Networks]

Typed ==
    /\ latch \in AccountInss \cup {NONE, "GET_APP_NAME"}
    /\ ctx \in AccountContexts \cup {Wiped}
    /\ ctx # Wiped => OwnContext(latch, ctx)
    /\ hash \in Seq(AccountItem)
    /\ path \in Paths \cup {NoPath}
    /\ account \in AccountTexts

ReviewUp == screen.cb \in {"proceed", "data", "sign"}

AnswerInv ==
    /\ screen.cb \in {"home", "stale", "proceed", "data", "sign"}
    /\ keyPending = FALSE
    /\ reply = Owed <=> ReviewUp
    /\ reply = Owed \/ reply.sw # "owed"
    /\ ~ReviewUp => screen.items = {}

-----------------------------------------------------------------------------
(* How the transcript s, the union c, the account texts a, the path p and   *)
(* the rows shown agree while a flow is open.                              *)

Headed(ins, s, a, p) ==
    /\ Len(s) >= 2 /\ s[1] = <<"header", a.header>> /\ s[2] = <<"kind", ins>>
    /\ a.network = NetworkOf(p)

RegisterFlow(s, c, p, shown) ==
    /\ c.state \in {"PAYLOAD_START", "PAYLOAD"}
    /\ c.state = "PAYLOAD_START" =>
          Len(s) = 3 /\ s[3] = <<"cborLength", c.dataLength>> /\ c.cbor.buf = << >>
    /\ c.state = "PAYLOAD" =>
          /\ Len(s) = 4 /\ s[3] = <<"cborLength", c.dataLength + BufLen(c.cbor.buf)>>
          /\ IsCbor(s[4]) /\ BlobOf(s) = c.cbor.buf
    /\ s[1] \in shown /\ <<"network", NetworkOf(p)>> \in shown

ToPublicFlow(s, c) ==
    /\ c.state \in {"REMAINING_AMOUNT", "PROOF"}
    /\ c.state = "REMAINING_AMOUNT" => Len(s) = 2
    /\ c.state = "PROOF" =>
          /\ Len(s) >= 6 /\ s[3][1] = "remaining" /\ s[4] = <<"amount", c.amount>>
          /\ s[5] = <<"to", c.to>> /\ s[6][1] = "index"
          /\ \A i \in 7 .. Len(s) : s[i][1] = "proof"

DeployFlow(s, c) ==
    /\ Len(s) >= 4 /\ s[3] = <<"version", c.version>>
    /\ s[4] = <<"sourceLength", c.remaining + Len(c.source)>>
    /\ \A i \in 5 .. Len(s) : s[i][1] = "source"
    /\ Bytes(s, "source") = c.source

\* Where the fields of the first packet end.
HeadEnd(ins) == IF ins = INITIALIZE THEN 4 ELSE 5

HeadIn(ins, s, c, v) ==
    /\ s[3] = <<"amount", v>>
    /\ ins = INITIALIZE =>
          s[4] = <<"moduleRef", v>> /\ c.head = {<<"amount", v>>, <<"moduleRef", v>>}
    /\ ins = UPDATE =>
          /\ s[4] = <<"index", v>> /\ s[5] = <<"subIndex", v>>
          /\ c.head = {<<"amount", v>>, <<"index", v>>, <<"subIndex", v>>}

\* The name stands after position b, up to position k.
NameIn(s, b, k, c) ==
    /\ k \in Nat /\ b + 1 <= k /\ k <= Len(s)
    /\ s[b + 1] = <<"nameLength", c.nameLength>>
    /\ \A i \in b + 2 .. k : s[i][1] = "name"
    /\ c.nameLength = c.remainingName + Len(Bytes(s, "name"))
    /\ c.nameDisplay = IF NameIsKept(c.nameLength) THEN Bytes(s, "name") ELSE << >>
    /\ c.payload = Bytes(s, "name") \o Bytes(s, "params")

\* The parameters follow it.
ParamsIn(s, k, c) ==
    /\ k + 1 < Len(s)
    /\ s[k + 1] = <<"paramsLength", c.remainingParams + Len(Bytes(s, "params"))>>
    /\ \A i \in k + 2 .. Len(s) : s[i][1] = "params"

ContractFlow(ins, s, c) ==
    /\ Len(s) >= HeadEnd(ins)
    /\ \E v \in Vals : HeadIn(ins, s, c, v)
    /\ c.state \in ContractStates \ {"zero"}
    /\ c.state = "NAME_FIRST" =>
          /\ Len(s) = HeadEnd(ins)
          /\ c.nameDisplay = << >> /\ c.payload = << >>
          /\ c.remainingName = 0 /\ c.remainingParams = 0
    /\ c.state \in {"NAME_NEXT", "PARAMS_FIRST"} =>
          /\ NameIn(s, HeadEnd(ins), Len(s), c)
          /\ c.remainingParams = 0
          /\ c.state = "PARAMS_FIRST" => c.remainingName = 0
    /\ c.state = "PARAMS_NEXT" =>
          /\ c.remainingName = 0
          /\ \E k \in 1 .. Len(s) : NameIn(s, HeadEnd(ins), k, c) /\ ParamsIn(s, k, c)

PltFlow(s, c) ==
    /\ c.state = "CBOR"
    /\ Len(s) = 4 + Len(c.cborBuf)
    /\ s[3] = <<"token", c.tokenId>> /\ s[4] = <<"cborLength", c.cborTotalLength>>
    /\ \A i \in 1 .. Len(c.cborBuf) : s[4 + i] = <<"plt", c.cborBuf[i]>>

Flow(ins, s, c, a, p, shown) ==
    /\ Headed(ins, s, a, p)
    /\ ins # DELEGATION
    /\ ins = REGISTER => RegisterFlow(s, c, p, shown)
    /\ ins = TOPUBLIC => ToPublicFlow(s, c)
    /\ ins = DEPLOY => DeployFlow(s, c)
    /\ ins \in {INITIALIZE, UPDATE} => ContractFlow(ins, s, c)
    /\ ins = PLT => PltFlow(s, c)

\* A flow that still takes packets.
Open == latch \in AccountInss /\ ctx # Wiped /\ screen.cb \notin {"data", "sign"}

FlowInv == Open => Flow(latch, hash, ctx, account, path, approved \cup screen.items)

Whole(s) ==
    IsRegistration(s) \/ IsToPublic(s) \/ IsDelegation(s) \/ IsContractTransaction(s) \/ IsPlt(s)

Ready(s, p, shown) ==
    Whole(s) /\ AccountRows(s) \subseteq shown /\ <<"network", NetworkOf(p)>> \in shown

\* The last review shows all that was not accepted before.
LastReview ==
    /\ screen.cb \in {"data", "sign"} => Ready(hash, path, approved \cup screen.items)
    /\ screen.cb = "data" => latch = REGISTER /\ ctx # Wiped /\ ctx.dataLength = 0

-----------------------------------------------------------------------------
(* Items. *)

LEMMA AccountItems ==
    /\ \A h \in Headers : <<"header", h>> \in AccountItem
    /\ \A k \in AccountInss : <<"kind", k>> \in AccountItem
    /\ \A t \in ValueTags, v \in Vals : <<t, v>> \in AccountItem
    /\ \A n \in Nat : /\ <<"cborLength", n>> \in AccountItem /\ <<"proof", n>> \in AccountItem
                      /\ <<"sourceLength", n>> \in AccountItem
                      /\ <<"nameLength", n>> \in AccountItem /\ <<"paramsLength", n>> \in AccountItem
    /\ \A v \in Vals, n \in 1 .. CborChunkMax : CborItem(v, n) \in AccountItem
    /\ \A has \in SUBSET DelegationFields : <<"bitmap", has>> \in AccountItem
    /\ \A b \in Seq(Vals) : /\ <<"source", b>> \in AccountItem /\ <<"name", b>> \in AccountItem
                            /\ <<"params", b>> \in AccountItem
    /\ \A x \in PltItems : <<"plt", x>> \in AccountItem
<1>1. ASSUME NEW h \in Headers PROVE <<"header", h>> \in AccountItem
  <2>1. <<"header", h>> \in {"header"} \X Headers
    OBVIOUS
  <2> QED
    BY <2>1, Zenon DEF AccountItem
<1>2. ASSUME NEW k \in AccountInss PROVE <<"kind", k>> \in AccountItem
  <2>1. <<"kind", k>> \in {"kind"} \X AccountInss
    OBVIOUS
  <2> QED
    BY <2>1, Zenon DEF AccountItem
<1>3. ASSUME NEW t \in ValueTags, NEW v \in Vals PROVE <<t, v>> \in AccountItem
  <2>1. <<t, v>> \in ValueTags \X Vals
    OBVIOUS
  <2> QED
    BY <2>1, Zenon DEF AccountItem
<1>4. ASSUME NEW n \in Nat,
             NEW t \in {"cborLength", "proof", "sourceLength", "nameLength", "paramsLength"}
      PROVE  <<t, n>> \in AccountItem
  <2>1. <<t, n>> \in {"cborLength", "proof", "sourceLength", "nameLength", "paramsLength"} \X Nat
    OBVIOUS
  <2> QED
    BY <2>1, Zenon DEF AccountItem
<1>5. ASSUME NEW v \in Vals, NEW n \in 1 .. CborChunkMax PROVE CborItem(v, n) \in AccountItem
  <2>1. CborItem(v, n) \in {"cbor"} \X Vals \X (1 .. CborChunkMax)
    BY DEF CborItem
  <2> QED
    BY <2>1, Zenon DEF AccountItem
<1>6. ASSUME NEW has \in SUBSET DelegationFields PROVE <<"bitmap", has>> \in AccountItem
  <2>1. <<"bitmap", has>> \in {"bitmap"} \X SUBSET DelegationFields
    OBVIOUS
  <2> QED
    BY <2>1, Zenon DEF AccountItem
<1>7. ASSUME NEW b \in Seq(Vals), NEW t \in {"source", "name", "params"} PROVE <<t, b>> \in AccountItem
  <2>1. <<t, b>> \in {"source", "name", "params"} \X Seq(Vals)
    OBVIOUS
  <2> QED
    BY <2>1, Zenon DEF AccountItem
<1>8. ASSUME NEW x \in PltItems PROVE <<"plt", x>> \in AccountItem
  <2>1. <<"plt", x>> \in {"plt"} \X PltItems
    OBVIOUS
  <2> QED
    BY <2>1, Zenon DEF AccountItem
<1> QED
  BY <1>1, <1>2, <1>3, <1>4, <1>5, <1>6, <1>7, <1>8

LEMMA ChunksOfBytes ==
    ASSUME NEW x \in AccountItem, x[1] \in {"source", "name", "params"}
    PROVE  x[2] \in Seq(Vals)
<1>1. x \in {"source", "name", "params"} \X Seq(Vals)
  <2>1. \/ x \in {"header"} \X Headers \/ x \in {"kind"} \X AccountInss \/ x \in ValueTags \X Vals
        \/ x \in {"cborLength", "proof", "sourceLength", "nameLength", "paramsLength"} \X Nat
        \/ x \in {"cbor"} \X Vals \X (1 .. CborChunkMax)
        \/ x \in {"bitmap"} \X SUBSET DelegationFields
        \/ x \in {"source", "name", "params"} \X Seq(Vals)
        \/ x \in {"plt"} \X PltItems
    BY Zenon DEF AccountItem
  <2> QED
    BY <2>1 DEF ValueTags, DelegationFields
<1> QED
  BY <1>1

-----------------------------------------------------------------------------
(* The bytes of a streamed part. *)

BytesStep(before, item, tag) == IF item[1] = tag THEN before \o item[2] ELSE before

StreamTags == {"source", "name", "params"}

LEMMA BytesIsFold ==
    ASSUME NEW s \in Seq(AccountItem), NEW tag \in StreamTags
    PROVE  \E f \in [0 .. Len(s) -> Seq(Vals)] :
              /\ f[0] = << >>
              /\ \A i \in 1 .. Len(s) : f[i] = BytesStep(f[i - 1], s[i], tag)
              /\ Bytes(s, tag) = f[Len(s)]
<1> DEFINE B == Seq(Vals)
           G == [i \in 1 .. Len(s) |-> [x \in B |-> BytesStep(x, s[i], tag)]]
           Folds(f) == f = [i \in 0 .. Len(s) |->
                               IF i = 0 THEN << >>
                               ELSE IF s[i][1] = tag THEN f[i - 1] \o s[i][2]
                               ELSE f[i - 1]]
<1>1. G \in [1 .. Len(s) -> [B -> B]]
  <2> SUFFICES ASSUME NEW i \in 1 .. Len(s), NEW x \in B PROVE BytesStep(x, s[i], tag) \in B
    OBVIOUS
  <2>1. s[i] \in AccountItem
    OBVIOUS
  <2>2. s[i][1] = tag => s[i][2] \in B
    BY <2>1, ChunksOfBytes DEF StreamTags
  <2> QED
    BY <2>2 DEF BytesStep
<1>2. Len(s) \in Nat /\ << >> \in B
  OBVIOUS
<1> HIDE DEF G, B
<1>3. PICK f : Solves(f, Len(s), << >>, G, B)
  BY <1>1, <1>2, RecursionIsDefined
<1>4. f \in [0 .. Len(s) -> B] /\ f[0] = << >>
  BY <1>3 DEF Solves
<1>5. ASSUME NEW i \in 1 .. Len(s) PROVE f[i] = BytesStep(f[i - 1], s[i], tag)
  <2>1. i - 1 \in 0 .. Len(s) /\ f[i - 1] \in B
    BY <1>2, <1>4
  <2>2. f[i] = G[i][f[i - 1]]
    BY <1>3 DEF Solves
  <2> QED
    BY <2>1, <2>2 DEF G
<1>6. Folds(f)
  <2> DEFINE h == [i \in 0 .. Len(s) |->
                     IF i = 0 THEN << >>
                     ELSE IF s[i][1] = tag THEN f[i - 1] \o s[i][2]
                     ELSE f[i - 1]]
  <2>1. ASSUME NEW i \in 0 .. Len(s) PROVE f[i] = h[i]
    <3>1. CASE i = 0
      BY <3>1, <1>4
    <3>2. CASE i \in 1 .. Len(s)
      BY <3>2, <1>5 DEF BytesStep
    <3> QED
      BY <3>1, <3>2, <1>2
  <2> QED
    BY <2>1, <1>4
<1>7. PICK g : Folds(g) /\ Bytes(s, tag) = g[Len(s)]
  BY <1>6 DEF Bytes
<1>8. ASSUME NEW i \in 1 .. Len(s) PROVE g[i] = BytesStep(g[i - 1], s[i], tag)
  <2>1. i \in 0 .. Len(s) /\ i # 0
    BY <1>2
  <2> QED
    BY <2>1, <1>7 DEF BytesStep
<1>9. g[0] = << >>
  BY <1>2, <1>7
<1>10. \A i \in 1 .. Len(s) : g[i - 1] = f[i - 1] => g[i] = f[i]
  BY <1>5, <1>8
<1>11. g[Len(s)] = f[Len(s)]
  BY <1>2, <1>4, <1>9, <1>10, StepwiseEqual
<1> QED
  BY <1>4, <1>5, <1>7, <1>11 DEF B

LEMMA BytesKnown ==
    ASSUME NEW s \in Seq(AccountItem), NEW tag \in StreamTags
    PROVE  Bytes(s, tag) \in Seq(Vals)
<1>1. PICK f \in [0 .. Len(s) -> Seq(Vals)] : Bytes(s, tag) = f[Len(s)]
  BY BytesIsFold
<1>2. Len(s) \in 0 .. Len(s)
  OBVIOUS
<1> QED
  BY <1>1, <1>2

LEMMA BytesAppend ==
    ASSUME NEW s \in Seq(AccountItem), NEW item \in AccountItem, NEW tag \in StreamTags
    PROVE  Bytes(Append(s, item), tag) = BytesStep(Bytes(s, tag), item, tag)
<1> DEFINE t == Append(s, item)
<1>1. /\ t \in Seq(AccountItem) /\ Len(s) \in Nat /\ Len(t) = Len(s) + 1
      /\ t[Len(s) + 1] = item /\ \A i \in 1 .. Len(s) : t[i] = s[i]
  OBVIOUS
<1>2. PICK f : /\ f[0] = << >>
               /\ \A i \in 1 .. Len(s) : f[i] = BytesStep(f[i - 1], s[i], tag)
               /\ Bytes(s, tag) = f[Len(s)]
  BY BytesIsFold
<1> HIDE DEF t
<1>3. PICK g : /\ g[0] = << >>
               /\ \A i \in 1 .. Len(t) : g[i] = BytesStep(g[i - 1], t[i], tag)
               /\ Bytes(t, tag) = g[Len(t)]
  BY <1>1, BytesIsFold
<1>4. \A i \in 1 .. Len(s) : i \in 1 .. Len(t) /\ g[i] = BytesStep(g[i - 1], s[i], tag)
  BY <1>1, <1>3
<1>5. f[Len(s)] = g[Len(s)]
  <2>1. \A i \in 1 .. Len(s) : f[i - 1] = g[i - 1] => f[i] = g[i]
    BY <1>2, <1>4
  <2> QED
    BY <1>1, <1>2, <1>3, <2>1, StepwiseEqual
<1>6. Len(t) \in 1 .. Len(t) /\ Len(t) - 1 = Len(s)
  BY <1>1
<1>7. g[Len(t)] = BytesStep(g[Len(s)], item, tag)
  BY <1>1, <1>3, <1>6
<1> QED
  BY <1>2, <1>3, <1>5, <1>7 DEF t

\* A transcript without chunks of a part holds no byte of it.
LEMMA BytesNone ==
    ASSUME NEW s \in Seq(AccountItem), NEW tag \in StreamTags,
           \A i \in 1 .. Len(s) : s[i][1] # tag
    PROVE  Bytes(s, tag) = << >>
<1>1. PICK f : /\ f[0] = << >>
               /\ \A i \in 1 .. Len(s) : f[i] = BytesStep(f[i - 1], s[i], tag)
               /\ Bytes(s, tag) = f[Len(s)]
  BY BytesIsFold
<1> DEFINE g == [i \in 0 .. Len(s) |-> << >>]
<1>2. Len(s) \in Nat /\ g[0] = << >> /\ g[Len(s)] = << >>
  OBVIOUS
<1>3. \A i \in 1 .. Len(s) : f[i - 1] = g[i - 1] => f[i] = g[i]
  <2>1. ASSUME NEW i \in 1 .. Len(s) PROVE g[i - 1] = << >> /\ g[i] = << >>
    BY <1>2
  <2>2. ASSUME NEW i \in 1 .. Len(s), NEW x PROVE BytesStep(x, s[i], tag) = x
    BY DEF BytesStep
  <2> HIDE DEF g
  <2> QED
    BY <1>1, <2>1, <2>2, Zenon
<1> HIDE DEF g
<1>4. f[Len(s)] = g[Len(s)]
  BY <1>1, <1>2, <1>3, StepwiseEqual
<1> QED
  BY <1>1, <1>2, <1>4

-----------------------------------------------------------------------------
(* What a packet may come to. *)

Extended == Len(hash) <= Len(hash') /\ SubSeq(hash', 1, Len(hash)) = hash

\* Refused: the latch is free again.
Closed == latch' = NONE /\ reply' = Refused /\ screen' = screen

\* Acknowledged: the flow goes on.
Acked ==
    /\ reply' = Success(<< >>) /\ screen' = screen
    /\ latch' \in AccountInss /\ ctx' # Wiped
    /\ Flow(latch', hash', ctx', account', path', approved')

\* A review that is not the last.
Drawn ==
    /\ reply' = Owed /\ screen'.cb = "proceed"
    /\ latch' \in AccountInss /\ ctx' # Wiped
    /\ Flow(latch', hash', ctx', account', path', approved' \cup screen'.items)

\* The last review.
DrawnLast ==
    /\ reply' = Owed /\ screen'.cb \in {"data", "sign"}
    /\ Ready(hash', path', approved' \cup screen'.items)
    /\ screen'.cb = "data" => latch' = REGISTER /\ ctx' # Wiped /\ ctx'.dataLength = 0

PacketEffect ==
    /\ Typed' /\ keyPending' = keyPending
    /\ Closed \/ Acked \/ Drawn \/ DrawnLast
    /\ approved' = {} \/ (approved' = approved /\ Extended)

-----------------------------------------------------------------------------
(* Contexts. *)

LEMMA NamesDiffer ==
    /\ NONE \notin AccountInss /\ "GET_APP_NAME" \notin AccountInss
    /\ REGISTER \in AccountInss /\ TOPUBLIC \in AccountInss /\ DELEGATION \in AccountInss
    /\ DEPLOY \in AccountInss /\ INITIALIZE \in AccountInss /\ UPDATE \in AccountInss
    /\ PLT \in AccountInss
  BY DEF AccountInss, NONE, REGISTER, TOPUBLIC, DELEGATION, DEPLOY, INITIALIZE, UPDATE, PLT

LEMMA ContextViews ==
    /\ \A c \in RegisterContexts : c.view = "register"
    /\ \A c \in ToPublicContexts : c.view = "public"
    /\ \A c \in DelegationContexts : c.view = "delegation"
    /\ \A c \in DeployContexts : c.view = "deploy"
    /\ \A c \in ContractContexts : c.view = "contract"
    /\ \A c \in PltContexts : c.view = "plt"
  BY DEF RegisterContexts, ToPublicContexts, DelegationContexts, DeployContexts, ContractContexts,
     PltContexts

LEMMA ContextKnown ==
    /\ RegisterContexts \subseteq AccountContexts /\ ToPublicContexts \subseteq AccountContexts
    /\ DelegationContexts \subseteq AccountContexts /\ DeployContexts \subseteq AccountContexts
    /\ ContractContexts \subseteq AccountContexts /\ PltContexts \subseteq AccountContexts
    /\ Wiped \notin AccountContexts
<1>1. /\ RegisterContexts \subseteq AccountContexts /\ ToPublicContexts \subseteq AccountContexts
      /\ DelegationContexts \subseteq AccountContexts /\ DeployContexts \subseteq AccountContexts
      /\ ContractContexts \subseteq AccountContexts /\ PltContexts \subseteq AccountContexts
  BY Zenon DEF AccountContexts
<1>2. ASSUME NEW c \in AccountContexts
      PROVE  \/ c \in RegisterContexts \/ c \in ToPublicContexts \/ c \in DelegationContexts
             \/ c \in DeployContexts \/ c \in ContractContexts \/ c \in PltContexts
  BY Zenon DEF AccountContexts
<1>3. ASSUME NEW c \in AccountContexts PROVE c # Wiped
  <2>1. c.view # Wiped.view
    BY <1>2, ContextViews DEF Wiped
  <2> QED
    BY <2>1
<1> QED
  BY <1>1, <1>3

\* The union at the first packet of an instruction is empty, later it is the
\* instruction's own.
LEMMA UnionKnown ==
    ASSUME Gated, Typed, NEW ins \in AccountInss, Enters(ins)
    PROVE  /\ reply # Owed
           /\ \/ latch = NONE /\ IsInitialCall /\ Union = Wiped
              \/ latch = ins /\ ~IsInitialCall /\ Union = ctx /\ (ctx # Wiped => OwnContext(ins, ctx))
  BY NamesDiffer DEF Enters, Delivered, Typed, Union, IsInitialCall

-----------------------------------------------------------------------------
(* Generic steps. *)

LEMMA FeedExtends ==
    ASSUME NEW X, hash \in Seq(X), NEW items \in Seq(X), Feed(items)
    PROVE  /\ hash' \in Seq(X) /\ Extended
           /\ Len(hash') = Len(hash) + Len(items)
           /\ \A i \in 1 .. Len(hash) : hash'[i] = hash[i]
           /\ \A i \in 1 .. Len(items) : hash'[Len(hash) + i] = items[i]
<1>1. hash' = hash \o items
  BY DEF Feed
<1>2. /\ hash' \in Seq(X) /\ Len(hash') = Len(hash) + Len(items)
      /\ \A i \in 1 .. Len(hash) : hash'[i] = hash[i]
      /\ \A i \in 1 .. Len(items) : hash'[Len(hash) + i] = items[i]
  BY <1>1
<1>3. Extended
  BY <1>1 DEF Extended
<1> QED
  BY <1>2, <1>3

LEMMA SameExtends == ASSUME NEW X, hash \in Seq(X), hash' = hash PROVE Extended
  BY DEF Extended

LEMMA ClosedEffect ==
    ASSUME latch' = NONE, reply' = Refused, UNCHANGED <<screen, keyPending>>,
           ctx' \in AccountContexts \cup {Wiped}, hash' \in Seq(AccountItem),
           path' \in Paths \cup {NoPath}, account' \in AccountTexts,
           approved' = {} \/ (approved' = approved /\ Extended)
    PROVE  PacketEffect
<1>1. OwnContext(NONE, ctx')
  BY DEF OwnContext, NONE, REGISTER, TOPUBLIC, DELEGATION, DEPLOY, INITIALIZE, UPDATE, PLT
<1>2. Typed'
  BY <1>1 DEF Typed
<1> QED
  BY <1>2 DEF PacketEffect, Closed

LEMMA HeaderTexts ==
    ASSUME NEW h \in Headers, NEW p \in Paths
    PROVE  /\ AccountSender(h, p) \in AccountTexts /\ p \in Paths \cup {NoPath}
           /\ AccountSender(h, p).header = h /\ AccountSender(h, p).network = NetworkOf(p)
  BY DEF AccountSender, AccountTexts, Networks

LEMMA HeaderThrowsEffect ==
    ASSUME Typed, NEW h \in Headers, NEW p \in Paths, NEW items \in Seq(AccountItem),
           HeaderThrows(h, p, items)
    PROVE  PacketEffect
<1>1. <<"header", h>> \in AccountItem /\ hash \in Seq(AccountItem)
  BY AccountItems DEF Typed
<1>2. /\ hash' \in Seq(AccountItem) /\ path' \in {path, p}
      /\ account' \in {account, AccountSender(h, p)}
  BY <1>1, HeaderThrowsTypes
<1>3. AccountSender(h, p) \in AccountTexts /\ p \in Paths \cup {NoPath}
  BY HeaderTexts
<1>4. latch' = NONE /\ ctx' = Wiped /\ reply' = Refused /\ UNCHANGED <<screen, keyPending>> /\ approved' = {}
  BY DEF HeaderThrows, Throw
<1>5. path' \in Paths \cup {NoPath} /\ account' \in AccountTexts
  BY <1>2, <1>3 DEF Typed
<1> QED
  BY <1>2, <1>4, <1>5, ClosedEffect

\* A packet after the first that throws, or is refused.
LEMMA RefusedEffect ==
    ASSUME Typed, UNCHANGED txConst,
           Throw \/ (\E c \in AccountContexts : send_rejection(c)),
           hash' = hash \/ \E items \in Seq(AccountItem) : Feed(items)
    PROVE  PacketEffect
<1>1. hash \in Seq(AccountItem) /\ path \in Paths \cup {NoPath} /\ account \in AccountTexts
  BY DEF Typed
<1>2. hash' \in Seq(AccountItem) /\ Extended
  BY <1>1, FeedExtends, SameExtends
<1>3. UNCHANGED <<path, account, approved>>
  BY DEF txConst
<1>4. /\ latch' = NONE /\ ctx' \in AccountContexts \cup {Wiped} /\ reply' = Refused
      /\ UNCHANGED <<screen, keyPending>>
  BY DEF Throw, send_rejection
<1> QED
  BY <1>1, <1>2, <1>3, <1>4, ClosedEffect

LEMMA PrefixEffect ==
    ASSUME Typed, UNCHANGED txConst, NEW items \in Seq(AccountItem), ThrowAfterPrefix(items)
    PROVE  PacketEffect
<1>1. PICK k \in 0 .. Len(items) : Feed(SubSeq(items, 1, k))
  BY DEF ThrowAfterPrefix
<1>2. SubSeq(items, 1, k) \in Seq(AccountItem)
  BY PrefixOfSeq
<1>3. Throw
  BY DEF ThrowAfterPrefix
<1> QED
  BY <1>1, <1>2, <1>3, RefusedEffect

\* The first packet of a flow.
LEMMA BegunTypes ==
    ASSUME NEW h \in Headers, NEW p \in Paths, NEW items \in Seq(AccountItem), Len(items) > 0,
           hashAccountTransactionHeaderAndKind(h, p, items),
           NEW ins \in AccountInss, latch' = ins, items[1] = <<"kind", ins>>,
           ctx' \in AccountContexts, OwnContext(ins, ctx')
    PROVE  /\ Typed' /\ approved' = {} /\ path' = p /\ account' = AccountSender(h, p)
           /\ Headed(ins, hash', account', p)
           /\ hash' \in Seq(AccountItem) /\ Len(hash') = Len(items) + 1
           /\ \A i \in 1 .. Len(items) : hash'[i + 1] = items[i]
           /\ hash'[1] = <<"header", h>>
<1>1. <<"header", h>> \in AccountItem
  BY AccountItems
<1>2. /\ hash' \in Seq(AccountItem) /\ Len(hash') = Len(items) + 1
      /\ hash'[1] = <<"header", h>>
      /\ \A i \in 1 .. Len(items) : hash'[i + 1] = items[i]
  BY <1>1, HeadTypes
<1>3. path' = p /\ account' = AccountSender(h, p) /\ approved' = {}
  BY DEF hashAccountTransactionHeaderAndKind
<1>4. /\ account' \in AccountTexts /\ path' \in Paths \cup {NoPath}
      /\ account'.header = h /\ account'.network = NetworkOf(p)
  BY <1>3, HeaderTexts
<1>5. Typed'
  BY <1>2, <1>4 DEF Typed
<1>6. hash'[2] = <<"kind", ins>> /\ Len(hash') >= 2
  <2>1. 1 \in 1 .. Len(items) /\ Len(items) \in Nat
    OBVIOUS
  <2>2. hash'[1 + 1] = items[1]
    BY <1>2, <2>1
  <2> QED
    BY <1>2, <2>1, <2>2
<1>7. Headed(ins, hash', account', p)
  BY <1>2, <1>4, <1>6 DEF Headed
<1> QED
  BY <1>2, <1>3, <1>5, <1>7

\* A later packet of a flow.
LEMMA ContinuedTypes ==
    ASSUME Typed, NEW items \in Seq(AccountItem), Feed(items), UNCHANGED txConst,
           NEW ins \in AccountInss, latch' = ins, ctx' \in AccountContexts, OwnContext(ins, ctx')
    PROVE  /\ Typed' /\ UNCHANGED <<path, account, approved>> /\ Extended
           /\ hash \in Seq(AccountItem) /\ hash' \in Seq(AccountItem)
           /\ Len(hash') = Len(hash) + Len(items)
           /\ \A i \in 1 .. Len(hash) : hash'[i] = hash[i]
           /\ \A i \in 1 .. Len(items) : hash'[Len(hash) + i] = items[i]
<1>1. hash \in Seq(AccountItem)
  BY DEF Typed
<1>2. /\ hash' \in Seq(AccountItem) /\ Extended
      /\ Len(hash') = Len(hash) + Len(items)
      /\ \A i \in 1 .. Len(hash) : hash'[i] = hash[i]
      /\ \A i \in 1 .. Len(items) : hash'[Len(hash) + i] = items[i]
  BY <1>1, FeedExtends
<1>3. UNCHANGED <<path, account, approved>>
  BY DEF txConst
<1>4. Typed'
  BY <1>2, <1>3 DEF Typed
<1> QED
  BY <1>1, <1>2, <1>3, <1>4

\* The head stays in place.
LEMMA StillHeaded ==
    ASSUME NEW ins, Headed(ins, hash, account, path), Len(hash) \in Nat, Len(hash') >= Len(hash),
           \A i \in 1 .. Len(hash) : hash'[i] = hash[i], UNCHANGED <<path, account>>, Len(hash') \in Nat
    PROVE  Headed(ins, hash', account', path') /\ hash'[1] = hash[1] /\ hash'[2] = hash[2]
<1>1. 1 \in 1 .. Len(hash) /\ 2 \in 1 .. Len(hash)
  BY DEF Headed
<1> QED
  BY <1>1 DEF Headed

\* A packet finds no review on screen.
LEMMA NoReview ==
    ASSUME AnswerInv, reply # Owed
    PROVE  screen.cb \in {"home", "stale"} /\ screen.items = {} /\ ~ReviewUp
  BY DEF AnswerInv, ReviewUp

LEMMA OpenFlow ==
    ASSUME AnswerInv, FlowInv, reply # Owed, latch \in AccountInss, ctx # Wiped
    PROVE  Flow(latch, hash, ctx, account, path, approved)
<1>1. screen.cb \notin {"data", "sign"} /\ screen.items = {}
  BY NoReview
<1>2. approved \cup screen.items = approved
  BY <1>1
<1> QED
  BY <1>1, <1>2 DEF FlowInv, Open


-----------------------------------------------------------------------------
(* What must be seen goes by the kind of the transaction. *)

LEMMA RowsByKind ==
    ASSUME NEW s, NEW ins, Len(s) \in Nat, Len(s) >= 2, s[2] = <<"kind", ins>>
    PROVE  /\ ins = REGISTER => AccountRows(s) = RegisterRows(s)
           /\ ins = TOPUBLIC => AccountRows(s) = ToPublicRows(s)
           /\ ins = DELEGATION => AccountRows(s) = DelegationRows(s)
           /\ ins \in {DEPLOY, INITIALIZE, UPDATE} => AccountRows(s) = ContractRows(s)
           /\ ins = PLT => AccountRows(s) = PltRows(s)
<1>1. KindOf(s) = ins
  BY DEF KindOf
<1> QED
  BY <1>1 DEF AccountRows, REGISTER, TOPUBLIC, DELEGATION, DEPLOY, INITIALIZE, UPDATE, PLT

-----------------------------------------------------------------------------
(* Registering data. *)

RegisterItems(n) == <<<<"kind", REGISTER>>, <<"cborLength", n>>>>

RegisterBegun(n) ==
    [view |-> "register", state |-> "PAYLOAD_START", dataLength |-> n,
     cbor |-> [length |-> n, buf |-> << >>]]

LEMMA RegisterInitialParts ==
    ASSUME Gated, AnswerInv, Typed, FlowInv, RegisterInitial
    PROVE  /\ reply # Owed
           /\ \E h \in Headers, p \in Paths, n \in 0 .. CborMax + 1 :
                 \/ /\ CborLengthFits(n)
                    /\ hashAccountTransactionHeaderAndKind(h, p, RegisterItems(n))
                    /\ Review(REGISTER, RegisterBegun(n),
                              uiRegisterDataInitialDisplay(AccountSender(h, p)))
                 \/ HeaderThrows(h, p, SubSeq(RegisterItems(n), 1, 1))
<1>1. Enters(REGISTER) /\ RegisterView.state = "INITIAL"
  BY Zenon DEF RegisterInitial
<1>2. REGISTER \in AccountInss
  BY NamesDiffer
<1>3. /\ reply # Owed
      /\ \/ latch = NONE /\ IsInitialCall /\ Union = Wiped
         \/ latch = REGISTER /\ ~IsInitialCall /\ Union = ctx
  BY <1>1, <1>2, UnionKnown
<1>4. latch = NONE /\ IsInitialCall /\ Union = Wiped
  <2> SUFFICES ASSUME latch = REGISTER, ~IsInitialCall, Union = ctx PROVE FALSE
    BY <1>3
  <2>1. CASE ctx = Wiped
    BY <1>1, <2>1 DEF RegisterView, RegisterUnion, RegisterZero
  <2>2. CASE ctx # Wiped
    <3>1. Flow(latch, hash, ctx, account, path, approved)
      BY <1>2, <1>3, <2>2, OpenFlow
    <3>2. ctx.state \in {"PAYLOAD_START", "PAYLOAD"}
      BY <3>1 DEF Flow, RegisterFlow
    <3> QED
      BY <1>1, <2>2, <3>2 DEF RegisterView, RegisterUnion
  <2> QED
    BY <2>1, <2>2
<1>5. RegisterView = [view |-> "register", state |-> "INITIAL", dataLength |-> 0,
                      cbor |-> [length |-> 0, buf |-> << >>]]
  BY <1>4 DEF RegisterView, RegisterUnion, RegisterZero, CborZero
<1>6. ASSUME NEW n
      PROVE  [RegisterView EXCEPT !.dataLength = n, !.cbor.length = n, !.state = "PAYLOAD_START"]
               = RegisterBegun(n)
  <2> DEFINE c == RegisterView
             b == [length |-> n, buf |-> << >>]
             d == [c EXCEPT !.dataLength = n, !.cbor.length = n, !.state = "PAYLOAD_START"]
  <2>1. /\ c \in [view : {"register"}, state : {"INITIAL"}, dataLength : {0},
                  cbor : [length : {0}, buf : {<< >>}]]
        /\ [c.cbor EXCEPT !.length = n] = b
    BY <1>5
  <2> HIDE DEF c, b
  <2>2. /\ d \in [view : {"register"}, state : {"PAYLOAD_START"}, dataLength : {n},
                  cbor : [length : {n}, buf : {<< >>}]]
    BY <2>1
  <2>3. d = [view |-> "register", state |-> "PAYLOAD_START", dataLength |-> n, cbor |-> b]
    <3>1. d.cbor = b
      BY <2>2 DEF b
    <3> HIDE DEF d
    <3> QED
      BY <2>2, <3>1
  <2> QED
    BY <2>3 DEF RegisterBegun, b, c, d
<1>7. PICK h \in Headers, p \in Paths, n \in 0 .. CborMax + 1 :
         \/ /\ CborLengthFits(n)
            /\ hashAccountTransactionHeaderAndKind(h, p, RegisterItems(n))
            /\ Review(REGISTER,
                      [RegisterView EXCEPT !.dataLength = n, !.cbor.length = n,
                                           !.state = "PAYLOAD_START"],
                      uiRegisterDataInitialDisplay(AccountSender(h, p)))
         \/ HeaderThrows(h, p, SubSeq(RegisterItems(n), 1, 1))
  BY Zenon DEF RegisterInitial, RegisterItems
<1>8. \/ /\ CborLengthFits(n)
         /\ hashAccountTransactionHeaderAndKind(h, p, RegisterItems(n))
         /\ Review(REGISTER, RegisterBegun(n), uiRegisterDataInitialDisplay(AccountSender(h, p)))
      \/ HeaderThrows(h, p, SubSeq(RegisterItems(n), 1, 1))
  BY <1>6, <1>7, Zenon
<1> QED
  BY <1>3, <1>8

LEMMA RegisterInitialEffect ==
    ASSUME Gated, AnswerInv, Typed, FlowInv, RegisterInitial
    PROVE  reply # Owed /\ PacketEffect
<1>0. reply # Owed
  BY RegisterInitialParts
<1>1. PICK h \in Headers, p \in Paths, n \in 0 .. CborMax + 1 :
         \/ /\ CborLengthFits(n)
            /\ hashAccountTransactionHeaderAndKind(h, p, RegisterItems(n))
            /\ Review(REGISTER, RegisterBegun(n),
                      uiRegisterDataInitialDisplay(AccountSender(h, p)))
         \/ HeaderThrows(h, p, SubSeq(RegisterItems(n), 1, 1))
  BY RegisterInitialParts
<1> DEFINE all == RegisterItems(n)
           one == SubSeq(RegisterItems(n), 1, 1)
<1>2. /\ all \in Seq(AccountItem) /\ Len(all) = 2
      /\ all[1] = <<"kind", REGISTER>> /\ all[2] = <<"cborLength", n>>
  <2> DEFINE x == <<"kind", REGISTER>>
             y == <<"cborLength", n>>
  <2>0. n \in Nat /\ REGISTER \in AccountInss
    BY CborAssumption, NamesDiffer
  <2>1. x \in AccountItem /\ y \in AccountItem
    BY <2>0, AccountItems, Zenon
  <2> HIDE DEF x, y
  <2>2. <<x, y>> \in Seq(AccountItem) /\ Len(<<x, y>>) = 2 /\ <<x, y>>[1] = x /\ <<x, y>>[2] = y
    BY <2>1
  <2> QED
    BY <2>2 DEF RegisterItems, x, y
<1>3. one \in Seq(AccountItem)
  <2> HIDE DEF all
  <2>1. SubSeq(all, 1, 1) \in Seq(AccountItem)
    BY <1>2, PrefixOfSeq
  <2> QED
    BY <2>1 DEF all
<1> HIDE DEF all, one
<1>4. CASE HeaderThrows(h, p, one)
  BY <1>0, <1>3, <1>4, HeaderThrowsEffect
<1>5. CASE /\ CborLengthFits(n)
           /\ hashAccountTransactionHeaderAndKind(h, p, all)
           /\ Review(REGISTER, RegisterBegun(n), uiRegisterDataInitialDisplay(AccountSender(h, p)))
  <2>1. /\ latch' = REGISTER /\ ctx' = RegisterBegun(n) /\ reply' = Owed
        /\ screen' = uiRegisterDataInitialDisplay(AccountSender(h, p)) /\ keyPending' = keyPending
    BY <1>5 DEF Review
  <2>2. n \in 0 .. CborMax /\ n \in Nat
    BY <1>5, CborAssumption DEF CborLengthFits
  <2>3. RegisterBegun(n) \in RegisterContexts
    <3>1. RegisterBegun(n) \in
             [view : {"register"}, state : RegisterStates, dataLength : 0 .. CborMax,
              cbor : [length : 0 .. CborMax, buf : Seq(Vals \X (1 .. CborChunkMax))]]
      BY <2>2 DEF RegisterBegun, RegisterStates
    <3>2. RegisterBegun(n).dataLength + BufLen(RegisterBegun(n).cbor.buf) <= CborMax
      BY <2>2, BufLenEmpty DEF RegisterBegun
    <3> QED
      BY <3>1, <3>2 DEF RegisterContexts, RegisterBegun
  <2>4. ctx' \in AccountContexts /\ OwnContext(REGISTER, ctx') /\ ctx' # Wiped
    BY <2>1, <2>3, ContextKnown DEF OwnContext, REGISTER, TOPUBLIC, DELEGATION, DEPLOY, INITIALIZE,
       UPDATE, PLT
  <2>5. /\ Typed' /\ approved' = {} /\ path' = p /\ account' = AccountSender(h, p)
        /\ Headed(REGISTER, hash', account', p)
        /\ hash' \in Seq(AccountItem) /\ Len(hash') = Len(all) + 1
        /\ \A i \in 1 .. Len(all) : hash'[i + 1] = all[i]
        /\ hash'[1] = <<"header", h>>
    <3>1. REGISTER \in AccountInss /\ Len(all) > 0
      BY <1>2, NamesDiffer
    <3> QED
      BY <1>2, <1>5, <2>1, <2>4, <3>1, BegunTypes, Zenon
  <2>6. Len(hash') = 3 /\ hash'[3] = <<"cborLength", n>>
    <3>1. 2 \in 1 .. Len(all) /\ 2 + 1 = 3
      BY <1>2
    <3> QED
      BY <1>2, <2>5, <3>1
  <2>7. screen'.cb = "proceed" /\ screen'.items = {<<"header", h>>, <<"network", NetworkOf(p)>>}
    BY <2>1 DEF uiRegisterDataInitialDisplay, HeaderPairs, AccountSender
  <2>8. RegisterFlow(hash', ctx', path', approved' \cup screen'.items)
    <3>1. /\ ctx'.state = "PAYLOAD_START" /\ ctx'.dataLength = n /\ ctx'.cbor.buf = << >>
      BY <2>1 DEF RegisterBegun
    <3> QED
      BY <2>5, <2>6, <2>7, <3>1 DEF RegisterFlow
  <2>9. Flow(latch', hash', ctx', account', path', approved' \cup screen'.items)
    BY <2>1, <2>5, <2>8 DEF Flow, REGISTER, TOPUBLIC, DELEGATION, DEPLOY, INITIALIZE, UPDATE, PLT
  <2>10. Drawn
    BY <2>1, <2>4, <2>7, <2>9, NamesDiffer DEF Drawn
  <2> QED
    BY <1>0, <2>1, <2>5, <2>10 DEF PacketEffect
<1> QED
  BY <1>1, <1>4, <1>5 DEF all, one

\* A chunk of data, counted, kept and hashed.
Datum(c, v, n) ==
    [c EXCEPT !.dataLength = c.dataLength - n,
              !.cbor = ReadChunk(c.state = "PAYLOAD_START", c.cbor, v, n), !.state = "PAYLOAD"]

LEMMA DatumKnown ==
    ASSUME NEW c \in RegisterContexts, NEW v \in Vals, NEW n \in 1 .. CborChunkMax,
           n <= c.dataLength, c.state \in {"PAYLOAD_START", "PAYLOAD"},
           c.state = "PAYLOAD_START" => c.cbor.buf = << >>
    PROVE  /\ Datum(c, v, n) \in RegisterContexts
           /\ Datum(c, v, n).dataLength = c.dataLength - n /\ Datum(c, v, n).state = "PAYLOAD"
           /\ Datum(c, v, n).cbor.buf = Append(c.cbor.buf, <<v, n>>)
           /\ c.dataLength - n \in Nat
           /\ (c.dataLength - n) + BufLen(Append(c.cbor.buf, <<v, n>>))
                 = c.dataLength + BufLen(c.cbor.buf)
           /\ c.dataLength + BufLen(c.cbor.buf) <= CborMax /\ BufLen(c.cbor.buf) \in Nat
<1> DEFINE M == [length : 0 .. CborMax, buf : Seq(Vals \X (1 .. CborChunkMax))]
           first == c.state = "PAYLOAD_START"
           m == ReadChunk(first, c.cbor, v, n)
           d == [c EXCEPT !.dataLength = c.dataLength - n, !.cbor = m, !.state = "PAYLOAD"]
<1>1. /\ c \in [view : {"register"}, state : RegisterStates, dataLength : 0 .. CborMax, cbor : M]
      /\ c.dataLength \in 0 .. CborMax /\ c.cbor \in M /\ c.cbor.length = c.dataLength
      /\ c.cbor.buf \in Seq(Vals \X (1 .. CborChunkMax))
      /\ c.dataLength + BufLen(c.cbor.buf) <= CborMax /\ first \in BOOLEAN
  BY DEF RegisterContexts
<1>2. BufLen(c.cbor.buf) \in Nat /\ BufLen(Append(c.cbor.buf, <<v, n>>)) = BufLen(c.cbor.buf) + n
  BY <1>1, BufGrows
<1>3. FitsChunk(first, c.cbor, n)
  BY <1>1, <1>2, CborAssumption DEF FitsChunk, ChunkFits, ContentFits
<1>4. /\ m \in M /\ m.length = c.cbor.length - n
      /\ first => m.buf = <<<<v, n>>>>
      /\ ~first => m.buf = Append(c.cbor.buf, <<v, n>>)
  <2> HIDE DEF first
  <2> QED
    BY <1>1, <1>3, ReadChunkKnown, SMTT(30)
<1>5. m.buf = Append(c.cbor.buf, <<v, n>>)
  <2>1. Append(<< >>, <<v, n>>) = <<<<v, n>>>>
    OBVIOUS
  <2> QED
    BY <1>4, <2>1
<1> HIDE DEF m, M, first
<1>6. c.dataLength - n \in 0 .. CborMax /\ c.dataLength - n \in Nat
      /\ (c.dataLength - n) + (BufLen(c.cbor.buf) + n) = c.dataLength + BufLen(c.cbor.buf)
  BY <1>1, <1>2, CborAssumption
<1>7. /\ d \in [view : {"register"}, state : RegisterStates, dataLength : 0 .. CborMax, cbor : M]
      /\ d.dataLength = c.dataLength - n /\ d.cbor = m /\ d.state = "PAYLOAD"
  BY <1>1, <1>4, <1>6 DEF RegisterStates
<1>8. d.cbor.length = d.dataLength /\ d.dataLength + BufLen(d.cbor.buf) <= CborMax
  BY <1>1, <1>2, <1>4, <1>5, <1>6, <1>7
<1> HIDE DEF d
<1>9. d \in RegisterContexts
  BY <1>7, <1>8 DEF RegisterContexts, M
<1>10. d = Datum(c, v, n)
  BY DEF d, Datum, m, first
<1> QED
  BY <1>1, <1>2, <1>5, <1>6, <1>7, <1>9, <1>10

\* What a chunk that was counted and hashed comes to.
DatumEnds(v, n) ==
    \/ Throw
    \/ TakesDatum(ctx, ctx.dataLength - n) /\ send_rejection(Datum(ctx, v, n))
    \/ /\ TakesDatum(ctx, ctx.dataLength - n) /\ ctx.dataLength - n = 0
       /\ Review(REGISTER, Datum(ctx, v, n), uiRegisterDataPayloadDisplay(Datum(ctx, v, n)))
    \/ /\ TakesDatum(ctx, ctx.dataLength - n) /\ ctx.dataLength - n > 0
       /\ Ack(REGISTER, Datum(ctx, v, n))

LEMMA RegisterDatumParts ==
    ASSUME Gated, AnswerInv, Typed, FlowInv, RegisterDatum
    PROVE  /\ reply # Owed /\ UNCHANGED txConst
           /\ \/ Throw /\ UNCHANGED hash
              \/ /\ latch = REGISTER /\ ctx # Wiped /\ ctx \in RegisterContexts
                 /\ Flow(REGISTER, hash, ctx, account, path, approved)
                 /\ \E v \in Vals, n \in 1 .. CborChunkMax :
                       /\ n <= ctx.dataLength /\ Feed(<<CborItem(v, n)>>) /\ DatumEnds(v, n)
<1>1. Enters(REGISTER) /\ UNCHANGED txConst
  BY Zenon DEF RegisterDatum
<1>2. REGISTER \in AccountInss
  BY NamesDiffer
<1>3. /\ reply # Owed
      /\ \/ latch = NONE /\ IsInitialCall /\ Union = Wiped
         \/ latch = REGISTER /\ ~IsInitialCall /\ Union = ctx /\ (ctx # Wiped => OwnContext(REGISTER, ctx))
  BY <1>1, <1>2, UnionKnown
<1>4. PICK v \in Vals, n \in 1 .. CborChunkMax :
         \/ RegisterView.dataLength < n /\ Throw /\ UNCHANGED hash
         \/ /\ RegisterView.dataLength >= n
            /\ Feed(<<CborItem(v, n)>>)
            /\ \/ ~TakesDatum(RegisterView, RegisterView.dataLength - n) /\ Throw
               \/ /\ TakesDatum(RegisterView, RegisterView.dataLength - n)
                  /\ RegisterView.dataLength - n = 0 /\ send_rejection(Datum(RegisterView, v, n))
               \/ /\ TakesDatum(RegisterView, RegisterView.dataLength - n)
                  /\ RegisterView.dataLength - n = 0
                  /\ Review(REGISTER, Datum(RegisterView, v, n),
                            uiRegisterDataPayloadDisplay(Datum(RegisterView, v, n)))
               \/ /\ TakesDatum(RegisterView, RegisterView.dataLength - n)
                  /\ RegisterView.dataLength - n > 0 /\ Ack(REGISTER, Datum(RegisterView, v, n))
  BY Zenon DEF RegisterDatum, Datum, ReadChunk
<1>5. CASE latch = REGISTER /\ ~IsInitialCall /\ Union = ctx /\ ctx # Wiped
  <2>1. RegisterView = ctx
    BY <1>5 DEF RegisterView, RegisterUnion
  <2>2. Flow(REGISTER, hash, ctx, account, path, approved)
    BY <1>2, <1>3, <1>5, OpenFlow
  <2>3. ctx \in RegisterContexts
    BY <1>3, <1>5 DEF OwnContext
  <2>4. ctx.dataLength \in Nat /\ n \in Nat
    BY <2>3, CborAssumption DEF RegisterContexts
  <2>5. CASE Throw /\ UNCHANGED hash
    BY <1>1, <1>3, <2>5
  <2>6. CASE n <= ctx.dataLength /\ Feed(<<CborItem(v, n)>>) /\ DatumEnds(v, n)
    BY <1>1, <1>3, <1>5, <2>2, <2>3, <2>6
  <2>7. (ctx.dataLength >= n) => (n <= ctx.dataLength)
    BY <2>4
  <2> QED
    BY <1>4, <2>1, <2>5, <2>6, <2>7, Zenon DEF DatumEnds
<1>6. CASE latch = NONE \/ ctx = Wiped
  <2>0. Union = Wiped
    BY <1>2, <1>3, <1>6, NamesDiffer
  <2>1. RegisterView.dataLength = 0
    <3>1. RegisterZero.dataLength = 0 /\ [RegisterZero EXCEPT !.state = "INITIAL"].dataLength = 0
      BY DEF RegisterZero
    <3> QED
      BY <2>0, <3>1 DEF RegisterView, RegisterUnion
  <2>2. ~(RegisterView.dataLength >= n)
    BY <2>1
  <2> QED
    BY <1>1, <1>3, <1>4, <2>2
<1> QED
  BY <1>3, <1>5, <1>6

\* What a registration holds once a chunk is hashed.
LEMMA DatumHashed ==
    ASSUME Typed, ctx \in RegisterContexts, RegisterFlow(hash, ctx, path, approved),
           Headed(REGISTER, hash, account, path),
           NEW v \in Vals, NEW n \in 1 .. CborChunkMax, n <= ctx.dataLength, Feed(<<CborItem(v, n)>>)
    PROVE  /\ hash' \in Seq(AccountItem) /\ Extended
           /\ Len(hash') = IF ctx.state = "PAYLOAD_START" THEN 4 ELSE 5
           /\ hash'[1] = hash[1] /\ hash'[2] = hash[2]
           /\ hash'[3] = <<"cborLength", Datum(ctx, v, n).dataLength + BufLen(Datum(ctx, v, n).cbor.buf)>>
           /\ \A i \in 4 .. Len(hash') : IsCbor(hash'[i])
           /\ BlobOf(hash') = Datum(ctx, v, n).cbor.buf
<1> DEFINE x == CborItem(v, n)
           b == ctx.cbor.buf
<1>1. x \in AccountItem /\ hash \in Seq(AccountItem)
  BY AccountItems DEF Typed
<1>2. IsCbor(x) /\ <<x[2], x[3]>> = <<v, n>>
  BY DEF CborItem, IsCbor
<1>3. /\ ctx.state \in {"PAYLOAD_START", "PAYLOAD"}
      /\ ctx.state = "PAYLOAD_START" =>
            Len(hash) = 3 /\ hash[3] = <<"cborLength", ctx.dataLength>> /\ b = << >>
      /\ ctx.state = "PAYLOAD" =>
            /\ Len(hash) = 4 /\ hash[3] = <<"cborLength", ctx.dataLength + BufLen(b)>>
            /\ IsCbor(hash[4]) /\ BlobOf(hash) = b
  BY DEF RegisterFlow
<1>31. /\ ctx.state \in {"PAYLOAD_START", "PAYLOAD"}
       /\ ctx.state = "PAYLOAD_START" => Len(hash) = 3
       /\ ctx.state = "PAYLOAD" => Len(hash) = 4
       /\ ctx.state = "PAYLOAD_START" => b = << >>
  BY <1>3, Zenon
<1>4. /\ Datum(ctx, v, n).dataLength + BufLen(Datum(ctx, v, n).cbor.buf) = ctx.dataLength + BufLen(b)
      /\ Datum(ctx, v, n).cbor.buf = Append(b, <<v, n>>)
  <2>1. /\ Datum(ctx, v, n).dataLength = ctx.dataLength - n
        /\ Datum(ctx, v, n).cbor.buf = Append(b, <<v, n>>)
        /\ (ctx.dataLength - n) + BufLen(Append(b, <<v, n>>)) = ctx.dataLength + BufLen(b)
    BY <1>31, DatumKnown
  <2> QED
    BY <2>1, Zenon
<1> HIDE DEF x
<1>5. /\ hash' = Append(hash, x) /\ hash' \in Seq(AccountItem)
      /\ Len(hash') = Len(hash) + 1 /\ hash'[Len(hash) + 1] = x
      /\ \A i \in 1 .. Len(hash) : hash'[i] = hash[i]
  BY <1>1, FeedOne DEF x
<1>6. BlobOf(hash) = b
  <2>1. CASE ctx.state = "PAYLOAD_START"
    <3>1. hash[1] = <<"header", account.header>> /\ hash[2] = <<"kind", REGISTER>>
      BY DEF Headed
    <3>2. \A i \in 1 .. 3 : i = 1 \/ i = 2 \/ i = 3
      OBVIOUS
    <3>3. ~IsCbor(hash[1]) /\ ~IsCbor(hash[2]) /\ ~IsCbor(hash[3])
      <4>1. hash[3] = <<"cborLength", ctx.dataLength>>
        BY <1>3, <2>1
      <4> QED
        BY <3>1, <4>1 DEF IsCbor
    <3>4. \A i \in 1 .. Len(hash) : ~IsCbor(hash[i])
      BY <1>31, <2>1, <3>2, <3>3
    <3> QED
      BY <1>1, <1>31, <2>1, <3>4, BlobOfPlain
  <2> QED
    BY <1>3, <2>1
<1>7. BlobOf(Append(hash, x)) = BlobStep(BlobOf(hash), x)
  BY <1>1, BlobOfAppend
<1>8. BlobOf(hash') = Append(b, <<v, n>>)
  BY <1>2, <1>5, <1>6, <1>7 DEF BlobStep
<1>9. BufLen(<< >>) = 0 /\ ctx.dataLength \in Nat
  BY BufLenEmpty, CborAssumption DEF RegisterContexts
<1>10. hash[3] = <<"cborLength", ctx.dataLength + BufLen(b)>>
  BY <1>3, <1>9
<1>11. Len(hash') = (IF ctx.state = "PAYLOAD_START" THEN 4 ELSE 5)
  <2>1. Len(hash') = Len(hash) + 1
    BY <1>5
  <2>2. Len(hash) = 3 => Len(hash') = 4
    BY <2>1
  <2>3. Len(hash) = 4 => Len(hash') = 5
    BY <2>1
  <2> QED
    BY <1>31, <2>2, <2>3
<1>12. hash'[1] = hash[1] /\ hash'[2] = hash[2] /\ hash'[3] = hash[3]
  <2>1. 1 \in 1 .. Len(hash) /\ 2 \in 1 .. Len(hash) /\ 3 \in 1 .. Len(hash)
    BY <1>3
  <2> QED
    BY <1>5, <2>1
<1>13. ASSUME NEW i \in 4 .. Len(hash') PROVE IsCbor(hash'[i])
  <2>1. CASE ctx.state = "PAYLOAD_START"
    <3>1. i = Len(hash) + 1
      <4>1. Len(hash) = 3 /\ i \in 4 .. 4
        BY <1>31, <1>11, <2>1
      <4> QED
        BY <4>1
    <3> QED
      BY <1>2, <1>5, <3>1
  <2>2. CASE ctx.state = "PAYLOAD"
    <3>1. i = Len(hash) + 1 \/ (i = 4 /\ 4 \in 1 .. Len(hash))
      <4>1. Len(hash) = 4 /\ i \in 4 .. 5
        BY <1>31, <1>11, <2>2
      <4> QED
        BY <4>1
    <3> QED
      BY <1>2, <1>3, <1>5, <2>2, <3>1
  <2> QED
    BY <1>3, <2>1, <2>2
<1>14. Extended
  BY <1>1, <1>5 DEF Extended
<1> QED
  BY <1>4, <1>5, <1>8, <1>10, <1>11, <1>12, <1>13, <1>14

LEMMA RegisterDatumEffect ==
    ASSUME Gated, AnswerInv, Typed, FlowInv, RegisterDatum
    PROVE  reply # Owed /\ PacketEffect
<1>0. reply # Owed /\ UNCHANGED txConst
  BY RegisterDatumParts
<1>1. CASE Throw /\ UNCHANGED hash
  BY <1>0, <1>1, RefusedEffect
<1>2. CASE /\ latch = REGISTER /\ ctx # Wiped /\ ctx \in RegisterContexts
           /\ Flow(REGISTER, hash, ctx, account, path, approved)
           /\ \E v \in Vals, n \in 1 .. CborChunkMax :
                 /\ n <= ctx.dataLength /\ Feed(<<CborItem(v, n)>>) /\ DatumEnds(v, n)
  <2>1. PICK v \in Vals, n \in 1 .. CborChunkMax :
           n <= ctx.dataLength /\ Feed(<<CborItem(v, n)>>) /\ DatumEnds(v, n)
    BY <1>2
  <2> DEFINE x == CborItem(v, n)
             d == Datum(ctx, v, n)
  <2>2. x \in AccountItem
    BY AccountItems
  <2>3. Headed(REGISTER, hash, account, path) /\ RegisterFlow(hash, ctx, path, approved)
    BY <1>2 DEF Flow
  <2>4. /\ ctx.state \in {"PAYLOAD_START", "PAYLOAD"}
        /\ ctx.state = "PAYLOAD_START" => ctx.cbor.buf = << >>
    BY <2>3 DEF RegisterFlow
  <2>5. /\ d \in RegisterContexts /\ d.dataLength = ctx.dataLength - n /\ d.state = "PAYLOAD"
        /\ d.dataLength \in Nat
        /\ d.dataLength + BufLen(d.cbor.buf) = ctx.dataLength + BufLen(ctx.cbor.buf)
        /\ ctx.dataLength + BufLen(ctx.cbor.buf) <= CborMax
        /\ BufLen(ctx.cbor.buf) \in Nat /\ ctx.dataLength \in Nat
    <3>1. /\ d \in RegisterContexts /\ d.dataLength = ctx.dataLength - n /\ d.state = "PAYLOAD"
          /\ d.cbor.buf = Append(ctx.cbor.buf, <<v, n>>)
          /\ ctx.dataLength - n \in Nat
          /\ (ctx.dataLength - n) + BufLen(Append(ctx.cbor.buf, <<v, n>>))
                = ctx.dataLength + BufLen(ctx.cbor.buf)
          /\ ctx.dataLength + BufLen(ctx.cbor.buf) <= CborMax /\ BufLen(ctx.cbor.buf) \in Nat
      BY <1>2, <2>1, <2>4, DatumKnown
    <3>2. ctx.dataLength \in Nat
      BY <1>2, CborAssumption DEF RegisterContexts
    <3> HIDE DEF d
    <3> QED
      BY <3>1, <3>2, Zenon
  <2>6. /\ hash' \in Seq(AccountItem) /\ Extended
        /\ Len(hash') = (IF ctx.state = "PAYLOAD_START" THEN 4 ELSE 5)
        /\ hash'[1] = hash[1] /\ hash'[2] = hash[2]
        /\ hash'[3] = <<"cborLength", d.dataLength + BufLen(d.cbor.buf)>>
        /\ \A i \in 4 .. Len(hash') : IsCbor(hash'[i])
        /\ BlobOf(hash') = d.cbor.buf
    BY <1>2, <2>1, <2>3, DatumHashed
  <2> DEFINE items == <<x>>
  <2>7. items \in Seq(AccountItem) /\ Feed(items)
    BY <2>1, <2>2
  <2> HIDE DEF x, d, items
  <2>8. d \in AccountContexts /\ OwnContext(REGISTER, d) /\ d # Wiped
    BY <2>5, ContextKnown DEF OwnContext, REGISTER, TOPUBLIC, DELEGATION, DEPLOY, INITIALIZE,
       UPDATE, PLT
  <2>9. ASSUME latch' = REGISTER, ctx' = d
        PROVE  Typed' /\ UNCHANGED <<path, account, approved>> /\ Headed(REGISTER, hash', account', path')
    <3>1. Typed' /\ UNCHANGED <<path, account, approved>>
      BY <1>0, <2>7, <2>8, <2>9, NamesDiffer, ContinuedTypes
    <3>2. Len(hash') >= 2
      BY <2>6
    <3> QED
      BY <2>3, <2>6, <3>1, <3>2 DEF Headed
  <2>10. CASE Throw \/ send_rejection(d)
    BY <1>0, <2>7, <2>8, <2>10, RefusedEffect
  <2>11. CASE ctx.dataLength - n = 0 /\ Review(REGISTER, d, uiRegisterDataPayloadDisplay(d))
    <3>1. /\ latch' = REGISTER /\ ctx' = d /\ reply' = Owed /\ keyPending' = keyPending
          /\ screen'.cb \in {"data", "sign"} /\ screen'.items = {<<"blob", d.cbor.buf>>}
      BY <2>11 DEF Review, uiRegisterDataPayloadDisplay, CborRows
    <3>2. Typed' /\ UNCHANGED <<path, account, approved>> /\ Headed(REGISTER, hash', account', path')
      BY <2>9, <3>1
    <3>3. /\ d.dataLength = 0 /\ BufLen(d.cbor.buf) = ctx.dataLength + BufLen(ctx.cbor.buf)
          /\ hash'[3] = <<"cborLength", BufLen(d.cbor.buf)>> /\ BufLen(d.cbor.buf) <= CborMax
      <4>1. BufLen(d.cbor.buf) \in Nat
        <5>1. d.cbor.buf \in Seq(Vals \X (1 .. CborChunkMax))
          BY <2>5 DEF RegisterContexts
        <5>2. Vals \X (1 .. CborChunkMax) \subseteq Vals \X Nat
          BY CborAssumption
        <5>3. d.cbor.buf \in Seq(Vals \X Nat)
          BY <5>1, <5>2
        <5> QED
          BY <5>3, BufLenNat
      <4> QED
        BY <2>5, <2>6, <2>11, <4>1
    <3>4. hash'[1] = <<"header", account'.header>> /\ hash'[2] = <<"kind", REGISTER>>
      BY <3>2 DEF Headed
    <3>5. IsRegistration(hash')
      BY <2>6, <3>3, <3>4 DEF IsRegistration
    <3>6. Whole(hash')
      BY <3>5 DEF Whole
    <3>7. AccountRows(hash') = RegisterRows(hash')
      BY <2>6, <3>4, RowsByKind
    <3>8. RegisterRows(hash') \subseteq {hash'[1], <<"blob", d.cbor.buf>>}
      <4>1. ASSUME NEW i \in 1 .. Len(hash'), hash'[i][1] = "header" PROVE hash'[i] = hash'[1]
        <5>1. i = 1 \/ i = 2 \/ i = 3 \/ i \in 4 .. Len(hash')
          BY <2>6
        <5> QED
          BY <2>6, <3>4, <4>1, <5>1 DEF IsCbor
      <4>2. DOMAIN hash' = 1 .. Len(hash')
        <5>1. hash' \in Seq(AccountItem)
          BY <2>6
        <5> QED
          BY <5>1
      <4>3. \A item \in ItemsOf(hash') : item[1] = "header" => item = hash'[1]
        BY <4>1, <4>2 DEF ItemsOf
      <4> QED
        BY <2>6, <4>3 DEF RegisterRows
    <3>9. hash'[1] \in approved' /\ <<"network", NetworkOf(path')>> \in approved'
      BY <2>3, <2>6, <3>2 DEF RegisterFlow
    <3>10. Ready(hash', path', approved' \cup screen'.items)
      BY <3>1, <3>6, <3>7, <3>8, <3>9 DEF Ready
    <3>11. DrawnLast
      BY <2>8, <3>1, <3>3, <3>10 DEF DrawnLast
    <3>12. approved' = approved
      BY <3>2
    <3> QED
      BY <1>0, <2>6, <3>1, <3>2, <3>11, <3>12, Zenon DEF PacketEffect
  <2>12. CASE /\ TakesDatum(ctx, ctx.dataLength - n) /\ ctx.dataLength - n > 0 /\ Ack(REGISTER, d)
    <3>1. /\ latch' = REGISTER /\ ctx' = d /\ reply' = Success(<< >>)
          /\ screen' = screen /\ keyPending' = keyPending
      BY <2>12 DEF Ack
    <3>2. Typed' /\ UNCHANGED <<path, account, approved>> /\ Headed(REGISTER, hash', account', path')
      BY <2>9, <3>1
    <3>3. ctx.state = "PAYLOAD_START"
      BY <2>5, <2>12 DEF TakesDatum
    <3>4. RegisterFlow(hash', ctx', path', approved')
      <4>1. Len(hash') = 4 /\ 4 \in 4 .. Len(hash')
        BY <2>6, <3>3
      <4>2. hash'[1] \in approved' /\ <<"network", NetworkOf(path')>> \in approved'
        BY <2>3, <2>6, <3>2 DEF RegisterFlow
      <4> QED
        BY <2>5, <2>6, <3>1, <4>1, <4>2 DEF RegisterFlow
    <3>5. Flow(latch', hash', ctx', account', path', approved')
      BY <3>1, <3>2, <3>4 DEF Flow, REGISTER, TOPUBLIC, DELEGATION, DEPLOY, INITIALIZE, UPDATE, PLT
    <3>6. Acked
      BY <2>8, <3>1, <3>5, NamesDiffer DEF Acked
    <3>7. approved' = approved
      BY <3>2
    <3> QED
      BY <1>0, <2>6, <3>1, <3>2, <3>6, <3>7, Zenon DEF PacketEffect
  <2> QED
    BY <2>1, <2>10, <2>11, <2>12 DEF DatumEnds, d
<1> QED
  BY <1>0, <1>1, <1>2, RegisterDatumParts

-----------------------------------------------------------------------------
(* Unshielding an amount. *)

ToPublicBegun ==
    [view |-> "public", state |-> "REMAINING_AMOUNT", amount |-> "none", to |-> "none",
     proofSize |-> 0]

\* What a packet of the flow finds: nothing, or its own flow.
LEMMA ToPublicFound ==
    ASSUME Gated, AnswerInv, Typed, FlowInv, Enters(TOPUBLIC)
    PROVE  /\ reply # Owed
           /\ ToPublicView.state = "INITIAL" =>
                 ToPublicView = [view |-> "public", state |-> "INITIAL", amount |-> "none",
                                 to |-> "none", proofSize |-> 0]
           /\ ToPublicView.state \in {"REMAINING_AMOUNT", "PROOF"} =>
                 /\ latch = TOPUBLIC /\ ToPublicView = ctx /\ ctx \in ToPublicContexts
                 /\ ToPublicFlow(hash, ctx) /\ Headed(TOPUBLIC, hash, account, path)
<1>1. TOPUBLIC \in AccountInss
  BY NamesDiffer
<1>2. /\ reply # Owed
      /\ \/ latch = NONE /\ IsInitialCall
         \/ latch = TOPUBLIC /\ ~IsInitialCall /\ (ctx # Wiped => OwnContext(TOPUBLIC, ctx))
  BY <1>1, UnionKnown
<1>3. CASE latch = NONE /\ IsInitialCall
  <2>1. ToPublicView = [view |-> "public", state |-> "INITIAL", amount |-> "none",
                        to |-> "none", proofSize |-> 0]
    BY <1>3 DEF ToPublicView, ToPublicZero
  <2> QED
    BY <1>2, <2>1
<1>4. CASE latch = TOPUBLIC /\ ~IsInitialCall /\ ctx = Wiped
  <2>1. ToPublicView.state = "zero"
    BY <1>4 DEF ToPublicView, ToPublicZero
  <2> QED
    BY <1>2, <2>1
<1>5. CASE latch = TOPUBLIC /\ ~IsInitialCall /\ ctx # Wiped
  <2>1. ToPublicView = ctx /\ ctx \in ToPublicContexts
    BY <1>2, <1>5 DEF ToPublicView, OwnContext
  <2>2. Flow(TOPUBLIC, hash, ctx, account, path, approved)
    BY <1>1, <1>2, <1>5, OpenFlow
  <2>3. ToPublicFlow(hash, ctx) /\ Headed(TOPUBLIC, hash, account, path)
    BY <2>2 DEF Flow
  <2>4. ctx.state \in {"REMAINING_AMOUNT", "PROOF"}
    BY <2>3 DEF ToPublicFlow
  <2> QED
    BY <1>2, <1>5, <2>1, <2>3, <2>4
<1> QED
  BY <1>2, <1>3, <1>4, <1>5

LEMMA ToPublicOwn ==
    ASSUME NEW c \in ToPublicContexts
    PROVE  c \in AccountContexts /\ c # Wiped /\ OwnContext(TOPUBLIC, c)
  BY ContextKnown DEF OwnContext, REGISTER, TOPUBLIC, DELEGATION, DEPLOY, INITIALIZE, UPDATE, PLT

LEMMA ToPublicFlows ==
    ASSUME NEW s, NEW c, NEW a, NEW p, NEW shown, Headed(TOPUBLIC, s, a, p), ToPublicFlow(s, c)
    PROVE  Flow(TOPUBLIC, s, c, a, p, shown)
  BY DEF Flow, REGISTER, TOPUBLIC, DELEGATION, DEPLOY, INITIALIZE, UPDATE, PLT

LEMMA ToPublicInitialEffect ==
    ASSUME Gated, AnswerInv, Typed, FlowInv, ToPublicInitial
    PROVE  reply # Owed /\ PacketEffect
<1> DEFINE items == <<<<"kind", TOPUBLIC>>>>
<1>1. Enters(TOPUBLIC) /\ ToPublicView.state = "INITIAL"
  BY Zenon DEF ToPublicInitial
<1>2. reply # Owed /\ ToPublicView = [view |-> "public", state |-> "INITIAL", amount |-> "none",
                                      to |-> "none", proofSize |-> 0]
  BY <1>1, ToPublicFound
<1>3. PICK h \in Headers, p \in Paths :
         \/ /\ hashAccountTransactionHeaderAndKind(h, p, items)
            /\ Ack(TOPUBLIC, [ToPublicView EXCEPT !.state = "REMAINING_AMOUNT"])
         \/ HeaderThrows(h, p, items)
  BY Zenon DEF ToPublicInitial
<1>4. [ToPublicView EXCEPT !.state = "REMAINING_AMOUNT"] = ToPublicBegun
  BY <1>2 DEF ToPublicBegun
<1>5. TOPUBLIC \in AccountInss /\ <<"kind", TOPUBLIC>> \in AccountItem
  BY NamesDiffer, AccountItems
<1>6. items \in Seq(AccountItem) /\ Len(items) = 1 /\ items[1] = <<"kind", TOPUBLIC>>
  BY <1>5
<1> HIDE DEF items
<1>7. CASE HeaderThrows(h, p, items)
  BY <1>2, <1>6, <1>7, HeaderThrowsEffect
<1>8. CASE hashAccountTransactionHeaderAndKind(h, p, items) /\ Ack(TOPUBLIC, ToPublicBegun)
  <2>1. /\ latch' = TOPUBLIC /\ ctx' = ToPublicBegun /\ reply' = Success(<< >>)
        /\ screen' = screen /\ keyPending' = keyPending
    BY <1>8 DEF Ack
  <2>2. ToPublicBegun \in ToPublicContexts /\ ToPublicBegun.state = "REMAINING_AMOUNT"
    BY ProofAssumption DEF ToPublicBegun, ToPublicContexts, ToPublicStates
  <2>3. ctx' \in AccountContexts /\ ctx' # Wiped /\ OwnContext(TOPUBLIC, ctx')
    BY <2>1, <2>2, ToPublicOwn
  <2>4. Len(items) > 0
    BY <1>6
  <2>5. /\ Typed' /\ approved' = {} /\ path' = p /\ account' = AccountSender(h, p)
        /\ Headed(TOPUBLIC, hash', account', p)
        /\ Len(hash') = Len(items) + 1
    BY <1>5, <1>6, <1>8, <2>1, <2>3, <2>4, BegunTypes, Zenon
  <2>6. ToPublicFlow(hash', ctx')
    <3>1. Len(hash') = 2
      BY <1>6, <2>5
    <3> QED
      BY <2>1, <2>2, <3>1 DEF ToPublicFlow
  <2>7. Flow(latch', hash', ctx', account', path', approved')
    BY <2>1, <2>5, <2>6, ToPublicFlows
  <2>8. Acked
    BY <1>5, <2>1, <2>3, <2>7 DEF Acked
  <2> QED
    BY <1>2, <2>1, <2>5, <2>8 DEF PacketEffect
<1> QED
  BY <1>3, <1>4, <1>7, <1>8

AmountsItems(a, r) == <<<<"remaining", a>>, <<"amount", a>>, <<"to", r>>, <<"index", a>>>>

LEMMA AmountsItemsKnown ==
    ASSUME NEW a \in Vals, NEW r \in Vals
    PROVE  /\ AmountsItems(a, r) \in Seq(AccountItem) /\ Len(AmountsItems(a, r)) = 4
           /\ AmountsItems(a, r)[1] = <<"remaining", a>> /\ AmountsItems(a, r)[2] = <<"amount", a>>
           /\ AmountsItems(a, r)[3] = <<"to", r>> /\ AmountsItems(a, r)[4] = <<"index", a>>
<1> DEFINE w == <<"remaining", a>>
           x == <<"amount", a>>
           y == <<"to", r>>
           z == <<"index", a>>
<1>1. w \in AccountItem /\ x \in AccountItem /\ y \in AccountItem /\ z \in AccountItem
  <2>1. {"remaining", "amount", "to", "index"} \subseteq ValueTags
    BY DEF ValueTags
  <2> QED
    BY <2>1, AccountItems
<1> HIDE DEF w, x, y, z
<1>2. /\ <<w, x, y, z>> \in Seq(AccountItem) /\ Len(<<w, x, y, z>>) = 4
      /\ <<w, x, y, z>>[1] = w /\ <<w, x, y, z>>[2] = x
      /\ <<w, x, y, z>>[3] = y /\ <<w, x, y, z>>[4] = z
  BY <1>1
<1> QED
  BY <1>2 DEF AmountsItems, w, x, y, z

LEMMA ToPublicAmountsEffect ==
    ASSUME Gated, AnswerInv, Typed, FlowInv, ToPublicAmounts
    PROVE  reply # Owed /\ PacketEffect
<1>1. Enters(TOPUBLIC) /\ ToPublicView.state = "REMAINING_AMOUNT" /\ UNCHANGED txConst
  BY Zenon DEF ToPublicAmounts
<1>2. /\ reply # Owed /\ latch = TOPUBLIC /\ ToPublicView = ctx /\ ctx \in ToPublicContexts
      /\ ToPublicFlow(hash, ctx) /\ Headed(TOPUBLIC, hash, account, path)
  BY <1>1, ToPublicFound
<1>3. PICK a \in Vals, r \in Vals, n \in 0 .. ProofMax :
         \/ /\ Feed(AmountsItems(a, r))
            /\ Ack(TOPUBLIC, [ToPublicView EXCEPT !.amount = a, !.to = r, !.proofSize = n,
                                                  !.state = "PROOF"])
         \/ ThrowAfterPrefix(AmountsItems(a, r))
  BY Zenon DEF ToPublicAmounts, AmountsItems
<1> DEFINE items == AmountsItems(a, r)
           d == [ctx EXCEPT !.amount = a, !.to = r, !.proofSize = n, !.state = "PROOF"]
<1>4. /\ items \in Seq(AccountItem) /\ Len(items) = 4
      /\ items[1] = <<"remaining", a>> /\ items[2] = <<"amount", a>>
      /\ items[3] = <<"to", r>> /\ items[4] = <<"index", a>>
  BY AmountsItemsKnown
<1>5. d \in ToPublicContexts /\ d.state = "PROOF" /\ d.amount = a /\ d.to = r
  BY <1>2 DEF ToPublicContexts, ToPublicStates
<1> HIDE DEF items, d
<1>6. CASE ThrowAfterPrefix(items)
  BY <1>1, <1>2, <1>4, <1>6, PrefixEffect
<1>7. CASE Feed(items) /\ Ack(TOPUBLIC, d)
  <2>1. /\ latch' = TOPUBLIC /\ ctx' = d /\ reply' = Success(<< >>)
        /\ screen' = screen /\ keyPending' = keyPending
    BY <1>7 DEF Ack
  <2>2. ctx' \in AccountContexts /\ ctx' # Wiped /\ OwnContext(TOPUBLIC, ctx') /\ TOPUBLIC \in AccountInss
    BY <1>5, <2>1, ToPublicOwn, NamesDiffer
  <2>3. /\ Typed' /\ UNCHANGED <<path, account, approved>> /\ Extended
        /\ hash \in Seq(AccountItem) /\ hash' \in Seq(AccountItem)
        /\ Len(hash') = Len(hash) + Len(items)
        /\ \A i \in 1 .. Len(hash) : hash'[i] = hash[i]
        /\ \A i \in 1 .. Len(items) : hash'[Len(hash) + i] = items[i]
    BY <1>1, <1>4, <1>7, <2>1, <2>2, ContinuedTypes
  <2>4. Len(hash) = 2
    BY <1>1, <1>2 DEF ToPublicFlow
  <2>5. Len(hash') = 6 /\ hash'[3] = items[1] /\ hash'[4] = items[2] /\ hash'[5] = items[3] /\ hash'[6] = items[4]
    <3>1. 1 \in 1 .. Len(items) /\ 2 \in 1 .. Len(items) /\ 3 \in 1 .. Len(items) /\ 4 \in 1 .. Len(items)
      BY <1>4
    <3>2. \A i \in 1 .. Len(items) : hash'[2 + i] = items[i]
      BY <2>3, <2>4
    <3>3. hash'[2 + 1] = items[1] /\ hash'[2 + 2] = items[2] /\ hash'[2 + 3] = items[3] /\ hash'[2 + 4] = items[4]
      BY <3>1, <3>2
    <3> QED
      BY <1>4, <2>3, <2>4, <3>3
  <2>6. Headed(TOPUBLIC, hash', account', path')
    <3>1. Len(hash) \in Nat /\ Len(hash') \in Nat /\ Len(hash') >= Len(hash)
      BY <2>4, <2>5
    <3> QED
      BY <1>2, <2>3, <3>1, StillHeaded
  <2>7. ToPublicFlow(hash', ctx')
    <3>1. \A i \in 7 .. Len(hash') : FALSE
      BY <2>5
    <3>2. hash'[3][1] = "remaining" /\ hash'[4] = <<"amount", d.amount>> /\ hash'[5] = <<"to", d.to>>
          /\ hash'[6][1] = "index" /\ Len(hash') >= 6
      BY <1>4, <1>5, <2>5
    <3> QED
      BY <1>5, <2>1, <3>1, <3>2 DEF ToPublicFlow
  <2>8. Flow(latch', hash', ctx', account', path', approved')
    BY <2>1, <2>6, <2>7, ToPublicFlows
  <2>9. Acked
    BY <2>1, <2>2, <2>8 DEF Acked
  <2>10. approved' = approved
    BY <2>3
  <2> QED
    BY <1>2, <2>1, <2>3, <2>9, <2>10, Zenon DEF PacketEffect
<1> QED
  BY <1>2, <1>3, <1>6, <1>7 DEF items, d

LEMMA ToPublicProofEffect ==
    ASSUME Gated, AnswerInv, Typed, FlowInv, ToPublicProof
    PROVE  reply # Owed /\ PacketEffect
<1>1. Enters(TOPUBLIC) /\ ToPublicView.state = "PROOF" /\ UNCHANGED txConst
  BY Zenon DEF ToPublicProof
<1>2. /\ reply # Owed /\ latch = TOPUBLIC /\ ToPublicView = ctx /\ ctx \in ToPublicContexts
      /\ ToPublicFlow(hash, ctx) /\ Headed(TOPUBLIC, hash, account, path)
  BY <1>1, ToPublicFound
<1>3. PICK n \in 1 .. ProofChunkMax :
         /\ Feed(<<<<"proof", n>>>>)
         /\ \/ ToPublicView.proofSize = n
               /\ Review(TOPUBLIC, ToPublicView, uiSignTransferToPublicDisplay(ToPublicView))
            \/ ToPublicView.proofSize < n /\ Throw
            \/ /\ ToPublicView.proofSize > n
               /\ Ack(TOPUBLIC, [ToPublicView EXCEPT !.proofSize = @ - n])
  BY Zenon DEF ToPublicProof
<1> DEFINE item == <<"proof", n>>
           items == <<item>>
           d == [ctx EXCEPT !.proofSize = @ - n]
<1>4. n \in Nat /\ item \in AccountItem /\ item[1] = "proof"
  <2>1. n \in Nat
    BY ProofAssumption
  <2> QED
    BY <2>1, AccountItems
<1>5. items \in Seq(AccountItem) /\ Len(items) = 1 /\ items[1] = item
  BY <1>4
<1> HIDE DEF item, items
<1>6. /\ ctx.state = "PROOF" /\ Len(hash) >= 6 /\ hash[3][1] = "remaining"
      /\ hash[4] = <<"amount", ctx.amount>>
      /\ hash[5] = <<"to", ctx.to>> /\ hash[6][1] = "index"
      /\ \A i \in 7 .. Len(hash) : hash[i][1] = "proof"
  BY <1>1, <1>2 DEF ToPublicFlow
<1>7. Feed(items)
  BY <1>3 DEF items, item
\* The flow with one more part of the proof.
<1>8. ASSUME NEW c \in ToPublicContexts, latch' = TOPUBLIC, ctx' = c, c.state = "PROOF",
             c.amount = ctx.amount, c.to = ctx.to
      PROVE  /\ Typed' /\ UNCHANGED <<path, account, approved>> /\ Extended
             /\ Headed(TOPUBLIC, hash', account', path') /\ ToPublicFlow(hash', c)
             /\ hash' \in Seq(AccountItem) /\ Len(hash') > 6 /\ hash'[7][1] = "proof"
  <2>1. ctx' \in AccountContexts /\ OwnContext(TOPUBLIC, ctx') /\ TOPUBLIC \in AccountInss
    BY <1>8, ToPublicOwn, NamesDiffer
  <2>2. /\ Typed' /\ UNCHANGED <<path, account, approved>> /\ Extended
        /\ hash \in Seq(AccountItem) /\ hash' \in Seq(AccountItem)
        /\ Len(hash') = Len(hash) + Len(items)
        /\ \A i \in 1 .. Len(hash) : hash'[i] = hash[i]
        /\ \A i \in 1 .. Len(items) : hash'[Len(hash) + i] = items[i]
    BY <1>1, <1>5, <1>7, <1>8, <2>1, ContinuedTypes
  <2>3. Len(hash) \in Nat /\ Len(hash') = Len(hash) + 1 /\ hash'[Len(hash) + 1] = item
    BY <1>5, <2>2
  <2>4. Headed(TOPUBLIC, hash', account', path')
    <3>1. Len(hash') \in Nat /\ Len(hash') >= Len(hash)
      BY <2>3
    <3> QED
      BY <1>2, <2>2, <2>3, <3>1, StillHeaded
  <2>5. ASSUME NEW i \in 3 .. 6 PROVE hash'[i] = hash[i]
    BY <1>6, <2>2, <2>3
  <2>6. ASSUME NEW i \in 7 .. Len(hash') PROVE hash'[i][1] = "proof"
    <3>1. i \in 7 .. Len(hash) \/ i = Len(hash) + 1
      BY <2>3
    <3>2. i \in 7 .. Len(hash) => i \in 1 .. Len(hash)
      BY <2>3
    <3> QED
      BY <1>4, <1>6, <2>2, <2>3, <3>1, <3>2
  <2>7. Len(hash') > 6 /\ 7 \in 7 .. Len(hash')
    BY <1>6, <2>3
  <2>8. hash'[3] = hash[3] /\ hash'[4] = hash[4] /\ hash'[5] = hash[5] /\ hash'[6] = hash[6]
    <3>1. 3 \in 3 .. 6 /\ 4 \in 3 .. 6 /\ 5 \in 3 .. 6 /\ 6 \in 3 .. 6
      OBVIOUS
    <3> QED
      BY <2>5, <3>1
  <2>9. Len(hash') >= 6
    BY <2>7, <2>3
  <2>10. ToPublicFlow(hash', c)
    BY <1>6, <1>8, <2>6, <2>8, <2>9 DEF ToPublicFlow
  <2> QED
    BY <2>2, <2>4, <2>6, <2>7, <2>10
<1>9. CASE Throw
  BY <1>1, <1>2, <1>5, <1>7, <1>9, RefusedEffect
<1>10. CASE Review(TOPUBLIC, ctx, uiSignTransferToPublicDisplay(ctx))
  <2>1. /\ latch' = TOPUBLIC /\ ctx' = ctx /\ reply' = Owed /\ keyPending' = keyPending
        /\ screen'.cb = "sign"
        /\ screen'.items = {<<"header", account.header>>, <<"network", account.network>>}
                              \cup {<<"amount", ctx.amount>>, <<"to", ctx.to>>}
    BY <1>10 DEF Review, uiSignTransferToPublicDisplay, addAccountHeaderPairs, HeaderPairs
  <2>2. /\ Typed' /\ UNCHANGED <<path, account, approved>> /\ Extended
        /\ Headed(TOPUBLIC, hash', account', path') /\ ToPublicFlow(hash', ctx)
        /\ hash' \in Seq(AccountItem) /\ Len(hash') > 6 /\ hash'[7][1] = "proof"
    BY <1>2, <1>6, <1>8, <2>1
  <2>3. /\ hash'[1] = <<"header", account.header>> /\ hash'[2] = <<"kind", TOPUBLIC>>
        /\ account.network = NetworkOf(path) /\ path' = path
    BY <2>2 DEF Headed
  <2>4. /\ hash'[3][1] = "remaining" /\ hash'[4] = <<"amount", ctx.amount>>
        /\ hash'[5] = <<"to", ctx.to>> /\ hash'[6][1] = "index"
        /\ \A i \in 7 .. Len(hash') : hash'[i][1] = "proof"
    BY <1>6, <2>2 DEF ToPublicFlow
  <2>5. IsToPublic(hash')
    <3>1. /\ hash'[1][1] = "header" /\ hash'[2][1] = "kind" /\ hash'[2][2] = TOPUBLIC
          /\ hash'[4][1] = "amount" /\ hash'[5][1] = "to"
      BY <2>3, <2>4
    <3> DEFINE f == [i \in 1 .. 6 |-> hash'[i][1]]
               t == <<"header", "kind", "remaining", "amount", "to", "index">>
    <3>2. f \in [1 .. 6 -> {f[i] : i \in 1 .. 6}] /\ DOMAIN t = 1 .. 6
      OBVIOUS
    <3>3. f[1] = t[1] /\ f[2] = t[2] /\ f[3] = t[3] /\ f[4] = t[4] /\ f[5] = t[5] /\ f[6] = t[6]
      BY <2>4, <3>1
    <3>4. \A i \in 1 .. 6 : i = 1 \/ i = 2 \/ i = 3 \/ i = 4 \/ i = 5 \/ i = 6
      OBVIOUS
    <3>5. f = t
      <4>1. \A i \in 1 .. 6 : f[i] = t[i]
        <5> HIDE DEF f, t
        <5> QED
          BY <3>3, <3>4
      <4>2. DOMAIN f = 1 .. 6 /\ f = [i \in 1 .. 6 |-> f[i]]
        OBVIOUS
      <4>3. t = [i \in 1 .. 6 |-> t[i]]
        BY <3>2
      <4> HIDE DEF f, t
      <4> QED
        BY <4>1, <4>2, <4>3
    <3> QED
      BY <2>2, <2>4, <3>1, <3>5 DEF IsToPublic
  <2>6. Whole(hash')
    BY <2>5 DEF Whole
  <2>7. AccountRows(hash') = ToPublicRows(hash')
    <3>1. Len(hash') \in Nat /\ Len(hash') >= 2
      BY <2>2
    <3> QED
      BY <2>3, <3>1, RowsByKind
  <2>8. ToPublicRows(hash') \subseteq screen'.items
    <3>1. ASSUME NEW i \in 1 .. Len(hash'), hash'[i][1] \in {"header", "amount", "to"}
          PROVE  hash'[i] \in screen'.items
      <4>1. i = 1 \/ i = 2 \/ i = 3 \/ i = 4 \/ i = 5 \/ i = 6 \/ i \in 7 .. Len(hash')
        BY <2>2
      <4>2. hash'[2][1] = "kind" /\ hash'[3][1] = "remaining" /\ hash'[6][1] = "index"
            /\ \A j \in 7 .. Len(hash') : hash'[j][1] = "proof"
        BY <2>3, <2>4
      <4>3. i = 1 \/ i = 4 \/ i = 5
        BY <3>1, <4>1, <4>2
      <4>4. hash'[1] \in screen'.items /\ hash'[4] \in screen'.items /\ hash'[5] \in screen'.items
        BY <2>1, <2>3, <2>4
      <4> QED
        BY <4>3, <4>4
    <3>2. DOMAIN hash' = 1 .. Len(hash')
      <4>1. hash' \in Seq(AccountItem)
        BY <2>2
      <4> QED
        BY <4>1
    <3> QED
      BY <3>1, <3>2 DEF ToPublicRows, ItemsOf
  <2>9. Ready(hash', path', approved' \cup screen'.items)
    BY <2>1, <2>3, <2>6, <2>7, <2>8 DEF Ready
  <2>10. DrawnLast
    BY <2>1, <2>9 DEF DrawnLast
  <2>11. approved' = approved
    BY <2>2
  <2> QED
    BY <1>2, <2>1, <2>2, <2>10, <2>11, Zenon DEF PacketEffect
<1>11. CASE ctx.proofSize > n /\ Ack(TOPUBLIC, d)
  <2>1. /\ latch' = TOPUBLIC /\ ctx' = d /\ reply' = Success(<< >>)
        /\ screen' = screen /\ keyPending' = keyPending
    BY <1>11 DEF Ack
  <2>2. d \in ToPublicContexts /\ d.state = "PROOF" /\ d.amount = ctx.amount /\ d.to = ctx.to
    <3>1. ctx.proofSize - n \in 0 .. ProofMax
      BY <1>2, <1>4, <1>11, ProofAssumption DEF ToPublicContexts
    <3> QED
      BY <1>2, <1>6, <3>1 DEF ToPublicContexts
  <2> HIDE DEF d
  <2>3. /\ Typed' /\ UNCHANGED <<path, account, approved>> /\ Extended
        /\ Headed(TOPUBLIC, hash', account', path') /\ ToPublicFlow(hash', d)
    BY <1>8, <2>1, <2>2
  <2>4. Flow(latch', hash', ctx', account', path', approved')
    BY <2>1, <2>3, ToPublicFlows
  <2>5. latch' \in AccountInss /\ ctx' # Wiped
    BY <2>1, <2>2, ToPublicOwn, NamesDiffer
  <2>6. Acked
    BY <2>1, <2>4, <2>5 DEF Acked
  <2>7. approved' = approved
    BY <2>3
  <2> QED
    BY <1>2, <2>1, <2>3, <2>6, <2>7, Zenon DEF PacketEffect
<1> QED
  BY <1>2, <1>3, <1>9, <1>10, <1>11

-----------------------------------------------------------------------------
(* Configuring delegation. *)

LEMMA DelegationItemsKnown ==
    ASSUME NEW has \in SUBSET DelegationFields, NEW v \in Vals
    PROVE  /\ DelegationItems(has, v) \in Seq(DelegationFields \X {v})
           /\ DelegationItems(has, v) \in Seq(DelegationFields \X Vals)
           /\ DelegationItems(has, v) \in Seq(AccountItem)
           /\ has # {} => Len(DelegationItems(has, v)) > 0
<1> DEFINE F == DelegationFields \X {v}
           a == IfDeclared("capital", has, v)
           b == IfDeclared("restakeEarnings", has, v)
           c == IfDeclared("delegationTarget", has, v)
<1>1. ASSUME NEW f \in DelegationFields
      PROVE  IfDeclared(f, has, v) \in Seq(F) /\ (f \in has => Len(IfDeclared(f, has, v)) = 1)
  <2>1. <<f, v>> \in F
    OBVIOUS
  <2> HIDE DEF F
  <2>2. <<<<f, v>>>> \in Seq(F) /\ Len(<<<<f, v>>>>) = 1 /\ << >> \in Seq(F)
    BY <2>1
  <2> QED
    BY <2>2 DEF IfDeclared
<1>2. /\ "capital" \in DelegationFields /\ "restakeEarnings" \in DelegationFields
      /\ "delegationTarget" \in DelegationFields
  BY DEF DelegationFields
<1>3. /\ a \in Seq(F) /\ b \in Seq(F) /\ c \in Seq(F)
      /\ ("capital" \in has => Len(a) = 1) /\ ("restakeEarnings" \in has => Len(b) = 1)
      /\ ("delegationTarget" \in has => Len(c) = 1)
  BY <1>1, <1>2
<1>4. has # {} => ("capital" \in has \/ "restakeEarnings" \in has \/ "delegationTarget" \in has)
  BY DEF DelegationFields
<1>5. F \subseteq DelegationFields \X Vals /\ F \subseteq AccountItem
  <2>1. F \subseteq DelegationFields \X Vals
    OBVIOUS
  <2>2. DelegationFields \X Vals \subseteq ValueTags \X Vals
    BY DEF ValueTags
  <2>3. ValueTags \X Vals \subseteq AccountItem
    BY Zenon DEF AccountItem
  <2> QED
    BY <2>1, <2>2, <2>3
<1> HIDE DEF a, b, c, F
<1>6. a \o b \in Seq(F) /\ Len(a \o b) = Len(a) + Len(b) /\ Len(a) \in Nat /\ Len(b) \in Nat /\ Len(c) \in Nat
  BY <1>3
<1>7. (a \o b) \o c \in Seq(F) /\ Len((a \o b) \o c) = Len(a) + Len(b) + Len(c)
  BY <1>3, <1>6
<1>8. DelegationItems(has, v) = (a \o b) \o c
  BY DEF DelegationItems, a, b, c
<1>9. has # {} => Len(DelegationItems(has, v)) > 0
  BY <1>3, <1>4, <1>6, <1>7, <1>8
<1>10. DelegationItems(has, v) \in Seq(F)
  BY <1>7, <1>8
<1>11. DelegationItems(has, v) \in Seq(DelegationFields \X Vals) /\ DelegationItems(has, v) \in Seq(AccountItem)
  BY <1>5, <1>10
<1> QED
  BY <1>9, <1>10, <1>11 DEF F

LEMMA DelegationEffect ==
    ASSUME Gated, AnswerInv, Typed, FlowInv, handle_sign_configure_delegation
    PROVE  reply # Owed /\ PacketEffect
<1>1. Enters(DELEGATION)
  BY Zenon DEF handle_sign_configure_delegation
<1>2. reply # Owed /\ DELEGATION \in AccountInss
  BY <1>1, NamesDiffer, UnionKnown
<1>3. PICK h \in Headers, p \in Paths, has \in SUBSET DelegationFields, v \in Vals :
         \/ /\ has # {}
            /\ hashAccountTransactionHeaderAndKind(h, p,
                  <<<<"kind", DELEGATION>>, <<"bitmap", has>>>> \o DelegationItems(has, v))
            /\ Review(DELEGATION, DelegationContext(has, v),
                      startConfigureDelegationDisplay(DelegationContext(has, v), AccountSender(h, p)))
         \/ HeaderThrows(h, p, <<<<"kind", DELEGATION>>, <<"bitmap", has>>>> \o DelegationItems(has, v))
  BY Zenon DEF handle_sign_configure_delegation
<1> DEFINE kind == <<"kind", DELEGATION>>
           bitmap == <<"bitmap", has>>
           start == <<kind, bitmap>>
           D == DelegationItems(has, v)
           items == start \o D
<1>4. kind \in AccountItem /\ bitmap \in AccountItem
  BY <1>2, AccountItems
<1> HIDE DEF kind, bitmap
<1>5. start \in Seq(AccountItem) /\ Len(start) = 2 /\ start[1] = kind /\ start[2] = bitmap
  BY <1>4
<1>6. /\ D \in Seq(DelegationFields \X {v}) /\ D \in Seq(DelegationFields \X Vals)
      /\ D \in Seq(AccountItem) /\ (has # {} => Len(D) > 0) /\ Len(D) \in Nat
  <2>1. /\ D \in Seq(DelegationFields \X {v}) /\ D \in Seq(DelegationFields \X Vals)
        /\ D \in Seq(AccountItem) /\ (has # {} => Len(D) > 0)
    BY DelegationItemsKnown, Zenon
  <2> HIDE DEF D
  <2>2. Len(D) \in Nat
    BY <2>1
  <2> QED
    BY <2>1, <2>2
<1> HIDE DEF start, D
<1>7. /\ items \in Seq(AccountItem) /\ Len(items) = Len(D) + 2
      /\ items[1] = kind /\ items[2] = bitmap
      /\ \A i \in 1 .. Len(D) : items[i + 2] = D[i]
  <2>1. start \in Seq(AccountItem) /\ D \in Seq(AccountItem)
    BY <1>5, <1>6
  <2>2. /\ items \in Seq(AccountItem) /\ Len(items) = Len(start) + Len(D)
        /\ \A i \in 1 .. Len(start) : items[i] = start[i]
        /\ \A i \in 1 .. Len(D) : items[i + Len(start)] = D[i]
    BY <2>1
  <2>3. 1 \in 1 .. Len(start) /\ 2 \in 1 .. Len(start)
    BY <1>5
  <2> HIDE DEF items
  <2> QED
    BY <1>5, <1>6, <2>2, <2>3
<1> HIDE DEF items
<1>8. CASE HeaderThrows(h, p, items)
  BY <1>2, <1>7, <1>8, HeaderThrowsEffect
<1>9. CASE /\ has # {}
           /\ hashAccountTransactionHeaderAndKind(h, p, items)
           /\ Review(DELEGATION, DelegationContext(has, v),
                     startConfigureDelegationDisplay(DelegationContext(has, v), AccountSender(h, p)))
  <2>1. /\ latch' = DELEGATION /\ ctx' = [view |-> "delegation", texts |-> D]
        /\ reply' = Owed /\ keyPending' = keyPending /\ screen'.cb = "sign"
        /\ screen'.items = {<<"header", h>>, <<"network", NetworkOf(p)>>} \cup ItemsOf(D)
    BY <1>9 DEF Review, startConfigureDelegationDisplay, DelegationContext, HeaderPairs, AccountSender, D
  <2>2. ctx' \in DelegationContexts
    BY <1>6, <2>1 DEF DelegationContexts
  <2>3. ctx' \in AccountContexts /\ OwnContext(DELEGATION, ctx')
    BY <2>2, ContextKnown DEF OwnContext, REGISTER, TOPUBLIC, DELEGATION, DEPLOY, INITIALIZE, UPDATE, PLT
  <2>4. Len(items) > 0 /\ items[1] = <<"kind", DELEGATION>>
    BY <1>6, <1>7 DEF kind
  <2>5. /\ Typed' /\ approved' = {} /\ path' = p
        /\ Headed(DELEGATION, hash', account', p)
        /\ hash' \in Seq(AccountItem) /\ Len(hash') = Len(items) + 1
        /\ \A i \in 1 .. Len(items) : hash'[i + 1] = items[i]
        /\ hash'[1] = <<"header", h>>
    BY <1>2, <1>7, <1>9, <2>1, <2>3, <2>4, BegunTypes, ZenonT(30)
  <2>6. Len(D) > 0 /\ Len(hash') = Len(D) + 3 /\ Len(hash') \in Nat
    BY <1>6, <1>7, <1>9, <2>5
  <2>7. hash'[2] = kind /\ hash'[3] = bitmap
    <3>1. 1 \in 1 .. Len(items) /\ 2 \in 1 .. Len(items)
      BY <1>6, <1>7
    <3>2. hash'[1 + 1] = items[1] /\ hash'[2 + 1] = items[2]
      BY <2>5, <3>1
    <3> QED
      BY <1>7, <3>2
  <2>8. ASSUME NEW i \in 1 .. Len(D) PROVE hash'[i + 3] = D[i]
    <3>1. i + 2 \in 1 .. Len(items) /\ (i + 2) + 1 = i + 3
      BY <1>6, <1>7
    <3> QED
      BY <1>7, <2>5, <3>1
  <2>9. hash'[4] = D[1] /\ D[1][2] = v
    <3>1. 1 \in 1 .. Len(D) /\ 1 + 3 = 4
      BY <2>6
    <3>2. D[1] \in DelegationFields \X {v}
      BY <1>6, <3>1
    <3> QED
      BY <2>8, <3>1, <3>2
  <2>10. SubSeq(hash', 4, Len(hash')) = D
    <3> DEFINE t == SubSeq(hash', 4, Len(hash'))
    <3>1. t = [i \in 1 .. Len(D) |-> hash'[i + 3]]
      <4>1. t = [i \in 1 .. (Len(hash') - 4 + 1) |-> hash'[4 + i - 1]]
        BY <2>5
      <4>2. Len(hash') - 4 + 1 = Len(D) /\ \A i \in 1 .. Len(D) : 4 + i - 1 = i + 3
        BY <1>6, <2>6
      <4> HIDE DEF t
      <4> QED
        BY <4>1, <4>2
    <3>2. D = [i \in 1 .. Len(D) |-> D[i]]
      BY <1>6
    <3> HIDE DEF t
    <3>3. t = D
      BY <2>8, <3>1, <3>2
    <3> QED
      BY <3>3 DEF t
  <2>11. IsDelegation(hash')
    <3>1. hash'[3][2] = has /\ hash'[4][2] = v /\ hash'[3][1] = "bitmap"
      BY <2>7, <2>9 DEF bitmap
    <3>2. Len(hash') > 3 /\ hash'[1][1] = "header" /\ hash'[2] = <<"kind", DELEGATION>>
      BY <2>5, <2>6, <2>7 DEF kind
    <3> QED
      BY <2>10, <3>1, <3>2 DEF IsDelegation, D
  <2>12. Whole(hash')
    BY <2>11 DEF Whole
  <2>13. AccountRows(hash') = DelegationRows(hash')
    <3>1. hash'[2] = <<"kind", DELEGATION>> /\ Len(hash') >= 2
      BY <2>6, <2>7 DEF kind
    <3> QED
      BY <2>6, <3>1, RowsByKind
  <2>14. DelegationRows(hash') \subseteq screen'.items
    <3>1. ASSUME NEW i \in 1 .. Len(hash'), hash'[i][1] \in {"header"} \cup DelegationFields
          PROVE  hash'[i] \in screen'.items
      <4>1. i = 1 \/ i = 2 \/ i = 3 \/ (i - 3 \in 1 .. Len(D) /\ (i - 3) + 3 = i)
        BY <1>6, <2>6
      <4>2. hash'[2][1] = "kind" /\ hash'[3][1] = "bitmap"
        BY <2>7 DEF kind, bitmap
      <4>3. CASE i = 1
        BY <2>1, <2>5, <4>3
      <4>4. CASE i - 3 \in 1 .. Len(D) /\ (i - 3) + 3 = i
        <5>1. hash'[i] = D[i - 3]
          BY <2>8, <4>4
        <5>2. D[i - 3] \in ItemsOf(D)
          <6>1. DOMAIN D = 1 .. Len(D)
            BY <1>6
          <6> QED
            BY <4>4, <6>1 DEF ItemsOf
        <5> QED
          BY <2>1, <5>1, <5>2
      <4>5. i # 2 /\ i # 3
        BY <3>1, <4>2 DEF DelegationFields
      <4> QED
        BY <4>1, <4>3, <4>4, <4>5
    <3>2. DOMAIN hash' = 1 .. Len(hash')
      <4>1. hash' \in Seq(AccountItem)
        BY <2>5
      <4> QED
        BY <4>1
    <3> QED
      BY <3>1, <3>2 DEF DelegationRows, ItemsOf
  <2>15. Ready(hash', path', approved' \cup screen'.items)
    <3>1. <<"network", NetworkOf(p)>> \in screen'.items
      BY <2>1
    <3> QED
      BY <2>5, <2>12, <2>13, <2>14, <3>1 DEF Ready
  <2>16. DrawnLast
    BY <2>1, <2>15 DEF DrawnLast
  <2> QED
    BY <1>2, <2>1, <2>5, <2>16, Zenon DEF PacketEffect
<1> QED
  BY <1>3, <1>8, <1>9 DEF items, start, kind, bitmap, D

-----------------------------------------------------------------------------
(* Deploying a module. *)

LEMMA ChunksKnown ==
    ASSUME NEW low \in Nat, NEW bytes \in Chunks(low)
    PROVE  bytes \in Seq(Vals) /\ Len(bytes) \in Nat /\ Len(bytes) >= low
<1>1. PICK n \in low .. ChunkMax : bytes \in [1 .. n -> Vals]
  BY Zenon DEF Chunks
<1>2. n \in Nat /\ n >= low
  BY <1>1, ContractsAssumption
<1>3. bytes \in Seq(Vals) /\ Len(bytes) = n
  BY <1>1, <1>2
<1> QED
  BY <1>2, <1>3

LEMMA ConcatBytes ==
    ASSUME NEW a \in Seq(Vals), NEW b \in Seq(Vals)
    PROVE  a \o b \in Seq(Vals) /\ Len(a \o b) = Len(a) + Len(b)
  OBVIOUS

LEMMA NoBytes ==
    ASSUME NEW a \in Seq(Vals)
    PROVE  << >> \in Seq(Vals) /\ Len(<< >>) = 0 /\ << >> \o a = a /\ a \o << >> = a
  OBVIOUS

DeployBegun(v, n) == [view |-> "deploy", version |-> v, remaining |-> n, source |-> << >>]

DeployItems(v, n) == <<<<"kind", DEPLOY>>, <<"version", v>>, <<"sourceLength", n>>>>

LEMMA DeployOwn ==
    ASSUME NEW c \in DeployContexts
    PROVE  c \in AccountContexts /\ c # Wiped /\ OwnContext(DEPLOY, c)
  BY ContextKnown DEF OwnContext, REGISTER, TOPUBLIC, DELEGATION, DEPLOY, INITIALIZE, UPDATE, PLT

LEMMA DeployFlows ==
    ASSUME NEW s, NEW c, NEW a, NEW p, NEW shown, Headed(DEPLOY, s, a, p), DeployFlow(s, c)
    PROVE  Flow(DEPLOY, s, c, a, p, shown)
  BY DEF Flow, REGISTER, TOPUBLIC, DELEGATION, DEPLOY, INITIALIZE, UPDATE, PLT

LEMMA DeployInitialEffect ==
    ASSUME Gated, AnswerInv, Typed, FlowInv, DeployInitial
    PROVE  reply # Owed /\ PacketEffect
<1>1. Enters(DEPLOY) /\ IsInitialCall
  BY Zenon DEF DeployInitial
<1>2. reply # Owed /\ DEPLOY \in AccountInss /\ Union = Wiped
  BY <1>1, NamesDiffer, UnionKnown
<1>3. PICK h \in Headers, p \in Paths, v \in Vals, n \in 0 .. LengthMax :
         \/ /\ hashAccountTransactionHeaderAndKind(h, p, DeployItems(v, n))
            /\ Ack(DEPLOY, [DeployView EXCEPT !.version = v, !.remaining = n])
         \/ HeaderThrows(h, p, DeployItems(v, n))
  BY Zenon DEF DeployInitial, DeployItems
<1>4. [DeployView EXCEPT !.version = v, !.remaining = n] = DeployBegun(v, n)
  <2> DEFINE c == DeployView
             d == [c EXCEPT !.version = v, !.remaining = n]
  <2>1. c \in [view : {"deploy"}, version : {"none"}, remaining : {0}, source : {<< >>}]
    BY <1>2 DEF DeployView, DeployZero
  <2> HIDE DEF c
  <2>2. d \in [view : {"deploy"}, version : {v}, remaining : {n}, source : {<< >>}]
    BY <2>1
  <2> HIDE DEF d
  <2>3. d = [view |-> "deploy", version |-> v, remaining |-> n, source |-> << >>]
    BY <2>2
  <2> QED
    BY <2>3 DEF DeployBegun, c, d
<1> DEFINE items == DeployItems(v, n)
           x == <<"kind", DEPLOY>>
           y == <<"version", v>>
           z == <<"sourceLength", n>>
<1>5. x \in AccountItem /\ y \in AccountItem /\ z \in AccountItem
  <2>1. n \in Nat /\ "version" \in ValueTags
    BY ContractsAssumption DEF ValueTags
  <2> QED
    BY <1>2, <2>1, AccountItems, Zenon
<1> HIDE DEF x, y, z
<1>6. items \in Seq(AccountItem) /\ Len(items) = 3 /\ items[1] = x /\ items[2] = y /\ items[3] = z
  <2>1. /\ <<x, y, z>> \in Seq(AccountItem) /\ Len(<<x, y, z>>) = 3
        /\ <<x, y, z>>[1] = x /\ <<x, y, z>>[2] = y /\ <<x, y, z>>[3] = z
    BY <1>5
  <2> QED
    BY <2>1 DEF DeployItems, x, y, z
<1> HIDE DEF items
<1>7. CASE HeaderThrows(h, p, items)
  BY <1>2, <1>6, <1>7, HeaderThrowsEffect
<1>8. CASE hashAccountTransactionHeaderAndKind(h, p, items) /\ Ack(DEPLOY, DeployBegun(v, n))
  <2>1. /\ latch' = DEPLOY /\ ctx' = DeployBegun(v, n) /\ reply' = Success(<< >>)
        /\ screen' = screen /\ keyPending' = keyPending
    BY <1>8 DEF Ack
  <2>2. /\ DeployBegun(v, n) \in DeployContexts /\ DeployBegun(v, n).version = v
        /\ DeployBegun(v, n).remaining = n /\ DeployBegun(v, n).source = << >>
    BY DEF DeployBegun, DeployContexts
  <2>3. ctx' \in AccountContexts /\ ctx' # Wiped /\ OwnContext(DEPLOY, ctx')
    BY <2>1, <2>2, DeployOwn
  <2>4. Len(items) > 0 /\ items[1] = <<"kind", DEPLOY>>
    BY <1>6 DEF x
  <2>5. /\ Typed' /\ approved' = {} /\ path' = p
        /\ Headed(DEPLOY, hash', account', p)
        /\ hash' \in Seq(AccountItem) /\ Len(hash') = Len(items) + 1
        /\ \A i \in 1 .. Len(items) : hash'[i + 1] = items[i]
        /\ hash'[1] = <<"header", h>>
    BY <1>2, <1>6, <1>8, <2>1, <2>3, <2>4, BegunTypes, Zenon
  <2>6. Len(hash') = 4 /\ hash'[2] = x /\ hash'[3] = y /\ hash'[4] = z
    <3>1. 1 \in 1 .. Len(items) /\ 2 \in 1 .. Len(items) /\ 3 \in 1 .. Len(items)
      BY <1>6
    <3>2. hash'[1 + 1] = items[1] /\ hash'[2 + 1] = items[2] /\ hash'[3 + 1] = items[3]
      BY <2>5, <3>1
    <3> QED
      BY <1>6, <2>5, <3>2
  <2>7. Bytes(hash', "source") = << >>
    <3>1. \A i \in 1 .. 4 : i = 1 \/ i = 2 \/ i = 3 \/ i = 4
      OBVIOUS
    <3>2. hash'[1][1] # "source" /\ hash'[2][1] # "source" /\ hash'[3][1] # "source" /\ hash'[4][1] # "source"
      BY <2>5, <2>6 DEF x, y, z
    <3>3. \A i \in 1 .. Len(hash') : hash'[i][1] # "source"
      BY <2>6, <3>1, <3>2
    <3>4. "source" \in StreamTags
      BY DEF StreamTags
    <3> QED
      BY <2>5, <3>3, <3>4, BytesNone
  <2>8. DeployFlow(hash', ctx')
    <3>1. n + Len(<< >>) = n
      BY ContractsAssumption
    <3>2. \A i \in 5 .. Len(hash') : FALSE
      BY <2>6
    <3>3. Len(hash') >= 4
      BY <2>6
    <3> QED
      BY <2>1, <2>2, <2>6, <2>7, <3>1, <3>2, <3>3 DEF DeployFlow, y, z
  <2>9. Flow(latch', hash', ctx', account', path', approved')
    BY <2>1, <2>5, <2>8, DeployFlows
  <2>10. Acked
    BY <1>2, <2>1, <2>3, <2>9 DEF Acked
  <2> QED
    BY <1>2, <2>1, <2>5, <2>10, Zenon DEF PacketEffect
<1> QED
  BY <1>3, <1>4, <1>7, <1>8 DEF items

DeployRead(c, bytes) == [c EXCEPT !.remaining = c.remaining - Len(bytes), !.source = @ \o bytes]

LEMMA DeploySourceParts ==
    ASSUME Gated, AnswerInv, Typed, FlowInv, DeploySource
    PROVE  /\ reply # Owed /\ UNCHANGED txConst
           /\ \/ Throw /\ UNCHANGED hash
              \/ /\ latch = DEPLOY /\ ctx \in DeployContexts
                 /\ DeployFlow(hash, ctx) /\ Headed(DEPLOY, hash, account, path)
                 /\ \E bytes \in Chunks(1) :
                       /\ Len(bytes) <= ctx.remaining /\ Feed(<<<<"source", bytes>>>>)
                       /\ \/ Throw
                          \/ Ack(DEPLOY, DeployRead(ctx, bytes))
                          \/ /\ ctx.remaining - Len(bytes) = 0
                             /\ Review(DEPLOY, DeployRead(ctx, bytes),
                                       uiDeployModuleDisplay(DeployRead(ctx, bytes)))
<1>1. Enters(DEPLOY) /\ UNCHANGED txConst
  BY Zenon DEF DeploySource
<1>2. DEPLOY \in AccountInss /\ NONE # DEPLOY
  BY NamesDiffer
<1>3. /\ reply # Owed
      /\ \/ latch = NONE /\ IsInitialCall /\ Union = Wiped
         \/ latch = DEPLOY /\ ~IsInitialCall /\ Union = ctx /\ (ctx # Wiped => OwnContext(DEPLOY, ctx))
  BY <1>1, <1>2, UnionKnown
<1>4. PICK bytes \in Chunks(1) :
         \/ Throw /\ UNCHANGED hash
         \/ /\ DeployView.remaining > 0 /\ SourceFits(DeployView, bytes)
            /\ Feed(<<<<"source", bytes>>>>)
            /\ \/ Ack(DEPLOY, DeployRead(DeployView, bytes))
               \/ /\ DeployView.remaining - Len(bytes) = 0
                  /\ Review(DEPLOY, DeployRead(DeployView, bytes),
                            uiDeployModuleDisplay(DeployRead(DeployView, bytes)))
               \/ Throw
  BY Zenon DEF DeploySource, DeployRead
<1>5. CASE Union = Wiped
  <2>1. ~(DeployView.remaining > 0)
    <3>1. DeployView.remaining = 0
      BY <1>5 DEF DeployView, DeployZero
    <3> QED
      BY <3>1
  <2> QED
    BY <1>1, <1>3, <1>4, <2>1, Zenon
<1>6. CASE Union # Wiped
  <2>1. /\ latch = DEPLOY /\ ctx # Wiped /\ DeployView = ctx /\ ctx \in DeployContexts
    BY <1>3, <1>6 DEF DeployView, OwnContext
  <2>2. Flow(DEPLOY, hash, ctx, account, path, approved)
    BY <1>2, <1>3, <2>1, OpenFlow
  <2>3. DeployFlow(hash, ctx) /\ Headed(DEPLOY, hash, account, path)
    BY <2>2 DEF Flow
  <2> QED
    BY <1>1, <1>3, <1>4, <2>1, <2>3, Zenon DEF SourceFits
<1> QED
  BY <1>5, <1>6

\* A part that stands in one piece, from its announcement at i up to hi.
LEMMA PartAt ==
    ASSUME NEW s \in Seq(AccountItem), NEW length, NEW tag, length # tag,
           NEW i \in 1 .. Len(s), NEW hi \in i .. Len(s),
           s[i][1] = length, s[i][2] = Len(Bytes(s, tag)),
           \A j \in i + 1 .. hi : s[j][1] = tag,
           \A j \in 1 .. Len(s) : j < i \/ j > hi => s[j][1] # length /\ s[j][1] # tag
    PROVE  IsPart(s, length, tag)
<1>1. i \in Nat /\ hi \in Nat /\ Len(s) \in Nat /\ DOMAIN s = 1 .. Len(s)
  OBVIOUS
<1>2. ASSUME NEW j \in 1 .. Len(s) PROVE j < i \/ j > hi \/ j = i \/ j \in i + 1 .. hi
  BY <1>1
<1>3. ASSUME NEW j \in 1 .. Len(s), s[j][1] = length PROVE i = j
  BY <1>2, <1>3
<1>4. ASSUME NEW j \in 1 .. Len(s), s[j][1] = tag PROVE j > i /\ s[j - 1][1] \in {length, tag}
  <2>1. j \in i + 1 .. hi
    BY <1>2, <1>4
  <2>2. j > i /\ (j - 1 = i \/ j - 1 \in i + 1 .. hi)
    BY <1>1, <2>1
  <2> QED
    BY <2>2
<1>5. i \in DOMAIN s
  BY <1>1
<1> QED
  BY <1>1, <1>3, <1>4, <1>5 DEF IsPart

LEMMA DeployReadKnown ==
    ASSUME NEW c \in DeployContexts, NEW bytes \in Seq(Vals), Len(bytes) <= c.remaining
    PROVE  /\ DeployRead(c, bytes) \in DeployContexts
           /\ DeployRead(c, bytes).remaining = c.remaining - Len(bytes)
           /\ DeployRead(c, bytes).version = c.version
           /\ DeployRead(c, bytes).source = c.source \o bytes
           /\ c.remaining \in Nat /\ c.source \in Seq(Vals)
<1> DEFINE left == c.remaining - Len(bytes)
           t == c.source \o bytes
<1>1. /\ c.remaining \in 0 .. LengthMax /\ c.source \in Seq(Vals)
      /\ c \in [view : {"deploy"}, version : Vals \cup {"none"}, remaining : 0 .. LengthMax, source : Seq(Vals)]
  BY DEF DeployContexts
<1>2. left \in 0 .. LengthMax /\ c.remaining \in Nat
  BY <1>1, ContractsAssumption
<1>3. t \in Seq(Vals)
  BY <1>1, ConcatBytes
<1> HIDE DEF left, t
<1> DEFINE d == [c EXCEPT !.remaining = left, !.source = t]
<1>4. /\ d \in [view : {"deploy"}, version : Vals \cup {"none"}, remaining : 0 .. LengthMax, source : Seq(Vals)]
      /\ d.remaining = left /\ d.version = c.version /\ d.source = t
  BY <1>1, <1>2, <1>3
<1>5. DeployRead(c, bytes) = d
  BY <1>1 DEF DeployRead, left, t
<1> QED
  BY <1>1, <1>2, <1>4, <1>5 DEF DeployContexts, left, t

LEMMA DeploySourceEffect ==
    ASSUME Gated, AnswerInv, Typed, FlowInv, DeploySource
    PROVE  reply # Owed /\ PacketEffect
<1>0. reply # Owed /\ UNCHANGED txConst
  BY DeploySourceParts
<1>1. CASE Throw /\ UNCHANGED hash
  BY <1>0, <1>1, RefusedEffect
<1>2. CASE /\ latch = DEPLOY /\ ctx \in DeployContexts
           /\ DeployFlow(hash, ctx) /\ Headed(DEPLOY, hash, account, path)
           /\ \E bytes \in Chunks(1) :
                 /\ Len(bytes) <= ctx.remaining /\ Feed(<<<<"source", bytes>>>>)
                 /\ \/ Throw
                    \/ Ack(DEPLOY, DeployRead(ctx, bytes))
                    \/ /\ ctx.remaining - Len(bytes) = 0
                       /\ Review(DEPLOY, DeployRead(ctx, bytes),
                                 uiDeployModuleDisplay(DeployRead(ctx, bytes)))
  <2>1. PICK bytes \in Chunks(1) :
           /\ Len(bytes) <= ctx.remaining /\ Feed(<<<<"source", bytes>>>>)
           /\ \/ Throw
              \/ Ack(DEPLOY, DeployRead(ctx, bytes))
              \/ /\ ctx.remaining - Len(bytes) = 0
                 /\ Review(DEPLOY, DeployRead(ctx, bytes),
                           uiDeployModuleDisplay(DeployRead(ctx, bytes)))
    BY <1>2
  <2>2. bytes \in Seq(Vals) /\ Len(bytes) \in Nat
    BY ChunksKnown
  <2> DEFINE d == DeployRead(ctx, bytes)
             item == <<"source", bytes>>
             items == <<item>>
  <2>3. /\ d \in DeployContexts /\ d.remaining = ctx.remaining - Len(bytes)
        /\ d.version = ctx.version /\ d.source = ctx.source \o bytes
        /\ ctx.remaining \in Nat /\ ctx.source \in Seq(Vals)
    BY <1>2, <2>1, <2>2, DeployReadKnown
  <2>4. item \in AccountItem /\ item[1] = "source" /\ item[2] = bytes
    BY <2>2, AccountItems
  <2> HIDE DEF d, item
  <2>5. items \in Seq(AccountItem) /\ Len(items) = 1 /\ items[1] = item
    BY <2>4
  <2> HIDE DEF items
  <2>6. Feed(items)
    BY <2>1 DEF items, item
  <2>7. CASE Throw
    BY <1>0, <2>5, <2>6, <2>7, RefusedEffect
  <2>8. d \in AccountContexts /\ d # Wiped /\ OwnContext(DEPLOY, d) /\ DEPLOY \in AccountInss
    BY <2>3, DeployOwn, NamesDiffer
  <2>9. ASSUME latch' = DEPLOY, ctx' = d
        PROVE  /\ Typed' /\ UNCHANGED <<path, account, approved>> /\ Extended
               /\ Headed(DEPLOY, hash', account', path') /\ DeployFlow(hash', d)
               /\ hash' \in Seq(AccountItem) /\ Len(hash') > 4
    <3>1. /\ Typed' /\ UNCHANGED <<path, account, approved>> /\ Extended
          /\ hash \in Seq(AccountItem) /\ hash' \in Seq(AccountItem)
          /\ Len(hash') = Len(hash) + Len(items)
          /\ \A i \in 1 .. Len(hash) : hash'[i] = hash[i]
          /\ \A i \in 1 .. Len(items) : hash'[Len(hash) + i] = items[i]
      BY <1>0, <2>5, <2>6, <2>8, <2>9, ContinuedTypes
    <3>2. Len(hash) \in Nat /\ Len(hash') = Len(hash) + 1 /\ hash'[Len(hash) + 1] = item
      BY <2>5, <3>1
    <3>3. /\ Len(hash) >= 4 /\ hash[3] = <<"version", ctx.version>>
          /\ hash[4] = <<"sourceLength", ctx.remaining + Len(ctx.source)>>
          /\ \A i \in 5 .. Len(hash) : hash[i][1] = "source"
          /\ Bytes(hash, "source") = ctx.source
      BY <1>2 DEF DeployFlow
    <3>4. Headed(DEPLOY, hash', account', path')
      <4>1. Len(hash') \in Nat /\ Len(hash') >= Len(hash)
        BY <3>2
      <4> QED
        BY <1>2, <3>1, <3>2, <4>1, StillHeaded
    <3>5. hash'[3] = hash[3] /\ hash'[4] = hash[4]
      <4>1. 3 \in 1 .. Len(hash) /\ 4 \in 1 .. Len(hash)
        BY <3>2, <3>3
      <4> QED
        BY <3>1, <4>1
    <3>6. ASSUME NEW i \in 5 .. Len(hash') PROVE hash'[i][1] = "source"
      <4>1. i \in 5 .. Len(hash) \/ i = Len(hash) + 1
        BY <3>2
      <4>2. i \in 5 .. Len(hash) => i \in 1 .. Len(hash)
        BY <3>2
      <4> QED
        BY <2>4, <3>1, <3>2, <3>3, <4>1, <4>2
    <3>7. Bytes(hash', "source") = d.source
      <4>1. "source" \in StreamTags
        BY DEF StreamTags
      <4>2. hash' = Append(hash, item)
        <5>1. Feed(<<item>>)
          BY <2>6 DEF items
        <5> QED
          BY <2>4, <3>1, <5>1, FeedOne
      <4>3. Bytes(Append(hash, item), "source") = BytesStep(Bytes(hash, "source"), item, "source")
        BY <2>4, <3>1, <4>1, BytesAppend
      <4> QED
        BY <2>3, <2>4, <3>3, <4>2, <4>3 DEF BytesStep
    <3>8. ctx.remaining + Len(ctx.source) = d.remaining + Len(d.source)
      <4>1. Len(ctx.source \o bytes) = Len(ctx.source) + Len(bytes) /\ Len(ctx.source) \in Nat
        BY <2>2, <2>3
      <4> QED
        BY <2>2, <2>3, <4>1
    <3>9. Len(hash') >= 4 /\ Len(hash') > 4
      BY <3>2, <3>3
    <3>10. DeployFlow(hash', d)
      BY <2>3, <3>3, <3>5, <3>6, <3>7, <3>8, <3>9 DEF DeployFlow
    <3> QED
      BY <3>1, <3>4, <3>9, <3>10
  <2>10. CASE Ack(DEPLOY, d)
    <3>1. /\ latch' = DEPLOY /\ ctx' = d /\ reply' = Success(<< >>)
          /\ screen' = screen /\ keyPending' = keyPending
      BY <2>10 DEF Ack
    <3>2. /\ Typed' /\ UNCHANGED <<path, account, approved>> /\ Extended
          /\ Headed(DEPLOY, hash', account', path') /\ DeployFlow(hash', d)
      BY <2>9, <3>1
    <3>3. Flow(latch', hash', ctx', account', path', approved')
      BY <3>1, <3>2, DeployFlows
    <3>4. Acked
      BY <2>8, <3>1, <3>3 DEF Acked
    <3>5. approved' = approved
      BY <3>2
    <3> QED
      BY <1>0, <3>1, <3>2, <3>4, <3>5, Zenon DEF PacketEffect
  <2>11. CASE ctx.remaining - Len(bytes) = 0 /\ Review(DEPLOY, d, uiDeployModuleDisplay(d))
    <3>1. /\ latch' = DEPLOY /\ ctx' = d /\ reply' = Owed /\ keyPending' = keyPending
          /\ screen'.cb = "sign"
          /\ screen'.items = {<<"header", account.header>>, <<"network", account.network>>}
                                \cup {<<"version", d.version>>, <<"source", d.source>>}
      BY <2>11 DEF Review, uiDeployModuleDisplay, addAccountHeaderPairs, HeaderPairs
    <3>2. /\ Typed' /\ UNCHANGED <<path, account, approved>> /\ Extended
          /\ Headed(DEPLOY, hash', account', path') /\ DeployFlow(hash', d)
          /\ hash' \in Seq(AccountItem) /\ Len(hash') > 4
      BY <2>9, <3>1
    <3>3. /\ hash'[1] = <<"header", account.header>> /\ hash'[2] = <<"kind", DEPLOY>>
          /\ account.network = NetworkOf(path) /\ path' = path
      BY <3>2 DEF Headed
    <3>4. /\ hash'[3] = <<"version", d.version>>
          /\ hash'[4] = <<"sourceLength", d.remaining + Len(d.source)>>
          /\ \A i \in 5 .. Len(hash') : hash'[i][1] = "source"
          /\ Bytes(hash', "source") = d.source
      BY <3>2 DEF DeployFlow
    <3>5. hash'[4][1] = "sourceLength" /\ hash'[4][2] = Len(Bytes(hash', "source"))
      <4>1. d.remaining = 0 /\ Len(d.source) \in Nat
        BY <2>3, <2>11 DEF DeployContexts
      <4>2. d.remaining + Len(d.source) = Len(d.source)
        BY <4>1
      <4> QED
        BY <3>4, <4>2
    <3>6. Len(hash') \in Nat /\ DOMAIN hash' = 1 .. Len(hash')
      <4>1. hash' \in Seq(AccountItem)
        BY <3>2
      <4> QED
        BY <4>1
    <3>7. IsPart(hash', "sourceLength", "source")
      <4>1. 4 \in 1 .. Len(hash') /\ Len(hash') \in 4 .. Len(hash')
        BY <3>2, <3>6
      <4>2. \A j \in 4 + 1 .. Len(hash') : hash'[j][1] = "source"
        BY <3>4
      <4>3. hash'[1][1] = "header" /\ hash'[2][1] = "kind" /\ hash'[3][1] = "version"
        BY <3>3, <3>4
      <4>4. \A j \in 1 .. Len(hash') : j < 4 \/ j > Len(hash') => j = 1 \/ j = 2 \/ j = 3
        BY <3>6
      <4>5. \A j \in 1 .. Len(hash') : j < 4 \/ j > Len(hash') =>
                hash'[j][1] # "sourceLength" /\ hash'[j][1] # "source"
        BY <4>3, <4>4
      <4>6. "sourceLength" # "source"
        OBVIOUS
      <4> QED
        BY <3>2, <3>5, <4>1, <4>2, <4>5, <4>6, PartAt
    <3>8. IsContractTransaction(hash')
      <4>1. Len(hash') > 2 /\ hash'[1][1] = "header" /\ hash'[2][1] = "kind" /\ hash'[2][2] = DEPLOY
        BY <3>2, <3>3, <3>6
      <4> QED
        BY <3>7, <4>1 DEF IsContractTransaction
    <3>9. Whole(hash')
      BY <3>8 DEF Whole
    <3>10. AccountRows(hash') = ContractRows(hash')
      <4>1. Len(hash') >= 2
        BY <3>2, <3>6
      <4> QED
        BY <3>3, <3>6, <4>1, RowsByKind
    <3>11. ContractRows(hash') \subseteq screen'.items
      <4>1. ASSUME NEW i \in 1 .. Len(hash'),
                   hash'[i][1] \in {"header", "version", "amount", "moduleRef", "index", "subIndex"}
            PROVE  hash'[i] \in screen'.items
        <5>1. i = 1 \/ i = 2 \/ i = 3 \/ i = 4 \/ i \in 5 .. Len(hash')
          BY <3>6
        <5>2. hash'[2][1] = "kind"
          BY <3>3
        <5>3. i = 1 \/ i = 3
          BY <3>4, <3>5, <4>1, <5>1, <5>2
        <5>4. hash'[1] \in screen'.items /\ hash'[3] \in screen'.items
          BY <3>1, <3>3, <3>4
        <5> QED
          BY <5>3, <5>4
      <4>2. <<"kind", DEPLOY>> \in ItemsOf(hash')
        <5>1. 2 \in DOMAIN hash'
          BY <3>2, <3>6
        <5> QED
          BY <3>3, <5>1 DEF ItemsOf
      <4>3. <<"source", Bytes(hash', "source")>> \in screen'.items
        BY <3>1, <3>4
      <4>4. \A item0 \in ItemsOf(hash') :
               item0[1] \in {"header", "version", "amount", "moduleRef", "index", "subIndex"} =>
                   item0 \in screen'.items
        BY <3>6, <4>1 DEF ItemsOf
      <4> QED
        BY <4>2, <4>3, <4>4 DEF ContractRows
    <3>12. Ready(hash', path', approved' \cup screen'.items)
      <4>1. <<"network", NetworkOf(path')>> \in screen'.items
        BY <3>1, <3>3
      <4> QED
        BY <3>9, <3>10, <3>11, <4>1 DEF Ready
    <3>13. DrawnLast
      BY <3>1, <3>12 DEF DrawnLast
    <3>14. approved' = approved
      BY <3>2
    <3> QED
      BY <1>0, <3>1, <3>2, <3>13, <3>14, Zenon DEF PacketEffect
  <2> QED
    BY <2>1, <2>7, <2>10, <2>11 DEF d
<1> QED
  BY <1>0, <1>1, <1>2, DeploySourceParts

-----------------------------------------------------------------------------
(* Initializing and updating a contract: contexts and transcripts. *)

ContractInss == {INITIALIZE, UPDATE}

LEMMA ContractNames ==
    /\ INITIALIZE # UPDATE /\ ContractInss \subseteq AccountInss
    /\ HeadEnd(INITIALIZE) = 4 /\ HeadEnd(UPDATE) = 5
    /\ \A ins \in ContractInss : HeadEnd(ins) \in {4, 5} /\ ins # DEPLOY /\ ins # NONE
  BY DEF ContractInss, INITIALIZE, UPDATE, AccountInss, HeadEnd, DEPLOY, NONE

ContractRecord ==
    [view : {"contract"}, state : ContractStates, head : SUBSET (ValueTags \X Vals),
     nameLength : 0 .. LengthMax, remainingName : 0 .. LengthMax,
     remainingParams : 0 .. LengthMax, nameDisplay : Seq(Vals), payload : Seq(Vals)]

LEMMA ContractFields ==
    ASSUME NEW c \in ContractContexts
    PROVE  /\ c \in ContractRecord /\ Len(c.nameDisplay) < NameSize
           /\ c.nameLength \in Nat /\ c.remainingName \in Nat /\ c.remainingParams \in Nat
           /\ c.nameLength \in 0 .. LengthMax
           /\ c.remainingName \in 0 .. LengthMax /\ c.remainingParams \in 0 .. LengthMax
           /\ c.nameDisplay \in Seq(Vals) /\ c.payload \in Seq(Vals)
           /\ c.head \in SUBSET (ValueTags \X Vals) /\ c.state \in ContractStates
  BY ContractsAssumption DEF ContractContexts, ContractRecord

LEMMA ContractOwn ==
    ASSUME NEW c \in ContractContexts, NEW ins \in ContractInss
    PROVE  c \in AccountContexts /\ c # Wiped /\ OwnContext(ins, c)
  BY ContextKnown DEF OwnContext, ContractInss, REGISTER, TOPUBLIC, DELEGATION, DEPLOY, INITIALIZE,
     UPDATE, PLT

LEMMA ContractFlows ==
    ASSUME NEW ins \in ContractInss, NEW s, NEW c, NEW a, NEW p, NEW shown,
           Headed(ins, s, a, p), ContractFlow(ins, s, c)
    PROVE  Flow(ins, s, c, a, p, shown)
  BY DEF Flow, ContractInss, REGISTER, TOPUBLIC, DELEGATION, DEPLOY, INITIALIZE, UPDATE, PLT

\* What a packet finds: nothing, or its own flow.
LEMMA ContractFound ==
    ASSUME Gated, AnswerInv, Typed, FlowInv, NEW ins \in ContractInss, Enters(ins)
    PROVE  /\ reply # Owed
           /\ \/ ContractView = ContractZero
              \/ /\ latch = ins /\ ContractView = ctx /\ ctx \in ContractContexts
                 /\ ContractFlow(ins, hash, ctx) /\ Headed(ins, hash, account, path)
<1>1. ins \in AccountInss
  BY ContractNames
<1>2. /\ reply # Owed
      /\ \/ latch = NONE /\ IsInitialCall /\ Union = Wiped
         \/ latch = ins /\ ~IsInitialCall /\ Union = ctx /\ (ctx # Wiped => OwnContext(ins, ctx))
  BY <1>1, UnionKnown
<1>3. CASE Union = Wiped
  BY <1>2, <1>3 DEF ContractView
<1>4. CASE Union # Wiped
  <2>1. latch = ins /\ Union = ctx /\ ctx # Wiped /\ OwnContext(ins, ctx)
    BY <1>2, <1>4
  <2>2. ContractView = ctx /\ ctx \in ContractContexts
    BY <2>1 DEF ContractView, OwnContext, ContractInss
  <2>3. Flow(ins, hash, ctx, account, path, approved)
    BY <1>1, <1>2, <2>1, OpenFlow
  <2>4. ContractFlow(ins, hash, ctx) /\ Headed(ins, hash, account, path)
    BY <2>3 DEF Flow, ContractInss
  <2> QED
    BY <1>2, <2>1, <2>2, <2>4
<1> QED
  BY <1>3, <1>4

HeadTags == {"header", "kind", "amount", "moduleRef", "index", "subIndex"}

HeadItem(x, ins, a, c) ==
    /\ x[1] \in HeadTags
    /\ x[1] = "kind" => x = <<"kind", ins>>
    /\ x[1] = "header" => x = <<"header", a.header>>
    /\ x[1] \notin {"header", "kind"} => x \in c.head

\* A field of the first packet is kept for its review.
LEMMA KeptItem ==
    ASSUME NEW tag \in {"amount", "moduleRef", "index", "subIndex"}, NEW v, NEW ins, NEW a, NEW c,
           <<tag, v>> \in c.head
    PROVE  HeadItem(<<tag, v>>, ins, a, c)
  BY DEF HeadItem, HeadTags

LEMMA FramedItem ==
    ASSUME NEW ins, NEW a, NEW c
    PROVE  HeadItem(<<"header", a.header>>, ins, a, c) /\ HeadItem(<<"kind", ins>>, ins, a, c)
  BY DEF HeadItem, HeadTags

\* The first items of a transcript are the header, the kind and the fields of
\* the first packet.
LEMMA HeadTagged ==
    ASSUME NEW ins \in ContractInss, NEW s, NEW c, NEW a, NEW p, NEW v, Headed(ins, s, a, p),
           HeadIn(ins, s, c, v), NEW i \in 1 .. HeadEnd(ins)
    PROVE  /\ s[i][1] \in HeadTags
           /\ s[i][1] = "kind" => s[i] = <<"kind", ins>>
           /\ s[i][1] = "header" => s[i] = <<"header", a.header>>
           /\ s[i][1] \notin {"header", "kind"} => s[i] \in c.head
<1> SUFFICES HeadItem(s[i], ins, a, c)
  BY DEF HeadItem
<1>1. s[1] = <<"header", a.header>> /\ s[2] = <<"kind", ins>> /\ s[3] = <<"amount", v>>
  BY DEF Headed, HeadIn
<1>2. CASE ins = INITIALIZE
  <2>1. i = 1 \/ i = 2 \/ i = 3 \/ i = 4
    BY <1>2, ContractNames
  <2>2. s[4] = <<"moduleRef", v>> /\ c.head = {<<"amount", v>>, <<"moduleRef", v>>}
    BY <1>2 DEF HeadIn
  <2>3. <<"amount", v>> \in c.head /\ <<"moduleRef", v>> \in c.head
    BY <2>2
  <2>4. HeadItem(s[1], ins, a, c) /\ HeadItem(s[2], ins, a, c)
    BY <1>1, FramedItem
  <2>5. HeadItem(s[3], ins, a, c)
    BY <1>1, <2>3, KeptItem
  <2>6. HeadItem(s[4], ins, a, c)
    BY <2>2, <2>3, KeptItem
  <2> QED
    BY <2>1, <2>4, <2>5, <2>6
<1>3. CASE ins = UPDATE
  <2>1. i = 1 \/ i = 2 \/ i = 3 \/ i = 4 \/ i = 5
    BY <1>3, ContractNames
  <2>2. /\ s[4] = <<"index", v>> /\ s[5] = <<"subIndex", v>>
        /\ c.head = {<<"amount", v>>, <<"index", v>>, <<"subIndex", v>>}
    BY <1>3, ContractNames DEF HeadIn
  <2>3. <<"amount", v>> \in c.head /\ <<"index", v>> \in c.head /\ <<"subIndex", v>> \in c.head
    BY <2>2
  <2>4. HeadItem(s[1], ins, a, c) /\ HeadItem(s[2], ins, a, c)
    BY <1>1, FramedItem
  <2>5. HeadItem(s[3], ins, a, c)
    BY <1>1, <2>3, KeptItem
  <2>6. HeadItem(s[4], ins, a, c) /\ HeadItem(s[5], ins, a, c)
    BY <2>2, <2>3, KeptItem
  <2> QED
    BY <2>1, <2>4, <2>5, <2>6
<1> QED
  BY <1>2, <1>3 DEF ContractInss

\* Before the parameters are announced there is no byte of them.
LEMMA NoParams ==
    ASSUME NEW ins \in ContractInss, NEW s \in Seq(AccountItem), NEW c, NEW a, NEW p, NEW v,
           Headed(ins, s, a, p), HeadIn(ins, s, c, v),
           Len(s) = HeadEnd(ins) \/ NameIn(s, HeadEnd(ins), Len(s), c)
    PROVE  /\ Bytes(s, "params") = << >>
           /\ Len(s) = HeadEnd(ins) => Bytes(s, "name") = << >>
<1>1. "params" \in StreamTags /\ "name" \in StreamTags
  BY DEF StreamTags
<1>2. HeadEnd(ins) \in Nat
  BY ContractNames
<1>3. CASE Len(s) = HeadEnd(ins)
  <2>1. \A i \in 1 .. Len(s) : s[i][1] \in HeadTags
    BY <1>3, HeadTagged
  <2>2. \A i \in 1 .. Len(s) : s[i][1] # "params" /\ s[i][1] # "name"
    BY <2>1 DEF HeadTags
  <2> QED
    BY <1>1, <2>2, BytesNone
<1>4. CASE Len(s) # HeadEnd(ins)
  <2>1. /\ s[HeadEnd(ins) + 1] = <<"nameLength", c.nameLength>>
        /\ \A i \in HeadEnd(ins) + 2 .. Len(s) : s[i][1] = "name"
    BY <1>4 DEF NameIn
  <2>2. ASSUME NEW i \in 1 .. Len(s) PROVE s[i][1] # "params"
    <3>1. i \in 1 .. HeadEnd(ins) \/ i = HeadEnd(ins) + 1 \/ i \in HeadEnd(ins) + 2 .. Len(s)
      BY <1>2
    <3>2. CASE i \in 1 .. HeadEnd(ins)
      <4>1. s[i][1] \in HeadTags
        BY <3>2, HeadTagged
      <4> QED
        BY <4>1 DEF HeadTags
    <3> QED
      BY <2>1, <3>1, <3>2
  <2> QED
    BY <1>1, <1>4, <2>2, BytesNone
<1> QED
  BY <1>3, <1>4

LEMMA HeadKept ==
    ASSUME NEW ins \in ContractInss, NEW s, NEW t, NEW c, NEW d, NEW v, HeadIn(ins, s, c, v),
           d.head = c.head, \A i \in 1 .. HeadEnd(ins) : t[i] = s[i]
    PROVE  HeadIn(ins, t, d, v)
<1>1. CASE ins = INITIALIZE
  <2>1. 3 \in 1 .. HeadEnd(ins) /\ 4 \in 1 .. HeadEnd(ins)
    BY <1>1, ContractNames
  <2> QED
    BY <1>1, <2>1, ContractNames DEF HeadIn
<1>2. CASE ins = UPDATE
  <2>1. 3 \in 1 .. HeadEnd(ins) /\ 4 \in 1 .. HeadEnd(ins) /\ 5 \in 1 .. HeadEnd(ins)
    BY <1>2, ContractNames
  <2> QED
    BY <1>2, <2>1, ContractNames DEF HeadIn
<1> QED
  BY <1>1, <1>2 DEF ContractInss

NameOpened(c, n) == [c EXCEPT !.nameLength = n, !.remainingName = n, !.state = "NAME_NEXT"]

LEMMA NameOpenedKnown ==
    ASSUME NEW c \in ContractContexts, NEW n \in 0 .. LengthMax
    PROVE  /\ NameOpened(c, n) \in ContractContexts
           /\ NameOpened(c, n).nameLength = n /\ NameOpened(c, n).remainingName = n
           /\ NameOpened(c, n).state = "NAME_NEXT" /\ NameOpened(c, n).head = c.head
           /\ NameOpened(c, n).remainingParams = c.remainingParams
           /\ NameOpened(c, n).nameDisplay = c.nameDisplay /\ NameOpened(c, n).payload = c.payload
<1> DEFINE d == NameOpened(c, n)
<1>1. c \in ContractRecord /\ Len(c.nameDisplay) < NameSize
  BY ContractFields
<1>2. /\ d \in ContractRecord /\ d.nameLength = n /\ d.remainingName = n
      /\ d.state = "NAME_NEXT" /\ d.head = c.head /\ d.remainingParams = c.remainingParams
      /\ d.nameDisplay = c.nameDisplay /\ d.payload = c.payload
  BY <1>1 DEF NameOpened, ContractRecord, ContractStates
<1>3. d \in ContractContexts
  BY <1>1, <1>2 DEF ContractContexts, ContractRecord
<1> QED
  BY <1>2, <1>3

\* A chunk of the name, kept for the screen if all of it will fit.
Grown(c, bytes) ==
    [c EXCEPT !.payload = @ \o bytes,
              !.nameDisplay = IF NameIsKept(c.nameLength) THEN @ \o bytes ELSE @,
              !.remainingName = c.remainingName - Len(bytes),
              !.state = IF c.remainingName - Len(bytes) = 0 THEN "PARAMS_FIRST" ELSE @]

LEMMA GrownFields ==
    ASSUME NEW c \in ContractContexts, NEW bytes \in Seq(Vals), Len(bytes) <= c.remainingName,
           c.state = "NAME_NEXT"
    PROVE  LET d == Grown(c, bytes) IN
           /\ d \in ContractRecord
           /\ d.payload = c.payload \o bytes
           /\ d.nameDisplay = (IF NameIsKept(c.nameLength) THEN c.nameDisplay \o bytes ELSE c.nameDisplay)
           /\ d.remainingName = c.remainingName - Len(bytes) /\ d.nameLength = c.nameLength
           /\ d.head = c.head /\ d.remainingParams = c.remainingParams
           /\ d.state = (IF c.remainingName - Len(bytes) = 0 THEN "PARAMS_FIRST" ELSE "NAME_NEXT")
<1> DEFINE t == c.payload \o bytes
           u == IF NameIsKept(c.nameLength) THEN c.nameDisplay \o bytes ELSE c.nameDisplay
           left == c.remainingName - Len(bytes)
           st == IF left = 0 THEN "PARAMS_FIRST" ELSE "NAME_NEXT"
           d == [c EXCEPT !.payload = t, !.nameDisplay = u, !.remainingName = left, !.state = st]
<1>1. /\ c \in ContractRecord /\ c.remainingName \in 0 .. LengthMax
      /\ c.nameDisplay \in Seq(Vals) /\ c.payload \in Seq(Vals) /\ Len(bytes) \in Nat
  BY ContractFields
<1>2. t \in Seq(Vals) /\ u \in Seq(Vals)
  BY <1>1, ConcatBytes
<1>3. left \in 0 .. LengthMax
  BY <1>1, ContractsAssumption
<1>4. st \in ContractStates
  BY DEF ContractStates
<1>5. d = Grown(c, bytes)
  BY <1>1 DEF Grown, ContractRecord
<1> HIDE DEF t, u, left, st
<1>6. /\ d \in ContractRecord /\ d.payload = t /\ d.nameDisplay = u /\ d.remainingName = left
      /\ d.nameLength = c.nameLength /\ d.head = c.head /\ d.remainingParams = c.remainingParams
      /\ d.state = st
  BY <1>1, <1>2, <1>3, <1>4 DEF ContractRecord
<1> QED
  BY <1>5, <1>6 DEF t, u, left, st

\* Bytes are put one after the other in either order of the two concatenations.
LEMMA ConcatAssociates ==
    ASSUME NEW a \in Seq(Vals), NEW b \in Seq(Vals), NEW c \in Seq(Vals)
    PROVE  (a \o b) \o c = a \o (b \o c)
OBVIOUS

LEMMA OneFurther ==
    ASSUME NEW j \in Nat, NEW n \in Nat
    PROVE  \A i \in j + 2 .. n + 1 : i \in j + 2 .. n \/ i = n + 1
OBVIOUS

\* The name grows by a chunk, in the transcript and in the context alike.
LEMMA NameGrows ==
    ASSUME NEW s \in Seq(AccountItem), NEW b \in Nat, NEW c \in ContractContexts,
           NameIn(s, b, Len(s), c), NEW bytes \in Seq(Vals), Len(bytes) <= c.remainingName,
           c.state = "NAME_NEXT", Bytes(s, "params") = << >>,
           NEW t, t = Append(s, <<"name", bytes>>)
    PROVE  Grown(c, bytes) \in ContractContexts /\ NameIn(t, b, Len(t), Grown(c, bytes))
<1> DEFINE x == <<"name", bytes>>
           d == Grown(c, bytes)
           nb == Bytes(s, "name")
<1>1. x \in AccountItem /\ x[1] = "name" /\ x[2] = bytes
  BY AccountItems
<1> HIDE DEF x
<1>2. "name" \in StreamTags /\ "params" \in StreamTags
  BY DEF StreamTags
<1>3. /\ Len(s) \in Nat /\ b + 1 <= Len(s)
      /\ s[b + 1] = <<"nameLength", c.nameLength>>
      /\ \A i \in b + 2 .. Len(s) : s[i][1] = "name"
      /\ c.nameLength = c.remainingName + Len(nb)
      /\ c.nameDisplay = (IF NameIsKept(c.nameLength) THEN nb ELSE << >>)
      /\ c.payload = nb \o Bytes(s, "params")
  BY DEF NameIn
<1>4. nb \in Seq(Vals) /\ Len(nb) \in Nat /\ Len(bytes) \in Nat
  BY <1>2, BytesKnown
<1>5. Bytes(t, "name") = nb \o bytes /\ Bytes(t, "params") = << >>
  <2>1. Bytes(Append(s, x), "name") = BytesStep(nb, x, "name")
    BY <1>1, <1>2, BytesAppend
  <2>2. Bytes(Append(s, x), "params") = BytesStep(Bytes(s, "params"), x, "params")
    BY <1>1, <1>2, BytesAppend
  <2>3. t = Append(s, x)
    BY DEF x
  <2> QED
    BY <1>1, <2>1, <2>2, <2>3 DEF BytesStep
<1>6. Len(t) = Len(s) + 1 /\ t[Len(s) + 1] = x /\ \A i \in 1 .. Len(s) : t[i] = s[i]
  <2>1. t = Append(s, x)
    BY DEF x
  <2>2. x \in AccountItem
    BY <1>1
  <2>3. /\ Len(Append(s, x)) = Len(s) + 1 /\ Append(s, x)[Len(s) + 1] = x
        /\ \A i \in 1 .. Len(s) : Append(s, x)[i] = s[i]
    BY ONLY <2>2, s \in Seq(AccountItem)
  <2> QED
    BY <2>1, <2>3
<1> HIDE DEF nb
<1>7. /\ d \in ContractRecord
      /\ d.payload = c.payload \o bytes
      /\ d.nameDisplay = (IF NameIsKept(c.nameLength) THEN c.nameDisplay \o bytes ELSE c.nameDisplay)
      /\ d.remainingName = c.remainingName - Len(bytes) /\ d.nameLength = c.nameLength
  BY GrownFields
<1> HIDE DEF d
<1>8. Len(nb \o bytes) = Len(nb) + Len(bytes) /\ nb \o << >> = nb /\ nb \o bytes \in Seq(Vals)
  BY <1>4, ConcatBytes, NoBytes
<1>9. c.remainingName \in Nat /\ c.nameLength \in Nat /\ Len(c.nameDisplay) < NameSize
  BY ContractFields
<1>10. d.nameLength = d.remainingName + Len(nb \o bytes)
  BY <1>3, <1>4, <1>7, <1>8, <1>9
<1>11. d.nameDisplay = (IF NameIsKept(d.nameLength) THEN nb \o bytes ELSE << >>)
  BY <1>3, <1>7
<1>12. d.payload = (nb \o bytes) \o Bytes(t, "params")
  <2>1. c.payload = nb
    BY <1>3, <1>8
  <2>2. (nb \o bytes) \o << >> = nb \o bytes
    BY <1>8, NoBytes
  <2> QED
    BY <1>5, <1>7, <2>1, <2>2
<1>13. Len(d.nameDisplay) < NameSize
  <2>1. CASE NameIsKept(c.nameLength)
    <3>1. d.nameDisplay = nb \o bytes
      BY <1>3, <1>7, <2>1
    <3>2. c.nameLength < NameSize
      BY <2>1 DEF NameIsKept
    <3>3. Len(nb) + Len(bytes) <= c.nameLength
      BY <1>3, <1>4, <1>9
    <3>4. Len(nb) + Len(bytes) < NameSize
      BY <1>4, <1>9, <3>2, <3>3, ContractsAssumption
    <3> QED
      BY <1>8, <3>1, <3>4
  <2>2. CASE ~NameIsKept(c.nameLength)
    BY <1>7, <1>9, <2>2
  <2> QED
    BY <2>1, <2>2
<1>14. d \in ContractContexts
  BY <1>7, <1>13 DEF ContractContexts, ContractRecord
<1>15. /\ Len(t) \in Nat /\ b + 1 <= Len(t) /\ Len(t) <= Len(t)
       /\ t[b + 1] = <<"nameLength", d.nameLength>>
  <2>1. b + 1 \in 1 .. Len(s)
    BY <1>3
  <2>2. t[b + 1] = s[b + 1]
    BY <1>6, <2>1
  <2> QED
    BY <1>3, <1>6, <1>7, <2>2
<1>16. ASSUME NEW i \in b + 2 .. Len(t) PROVE t[i][1] = "name"
  <2>1. i \in b + 2 .. Len(s) \/ i = Len(s) + 1
    BY <1>3, <1>6
  <2>2. i \in b + 2 .. Len(s) => i \in 1 .. Len(s)
    BY <1>3
  <2> QED
    BY <1>1, <1>3, <1>6, <2>1, <2>2
<1>17. NameIn(t, b, Len(t), d)
  BY <1>5, <1>10, <1>11, <1>12, <1>15, <1>16 DEF NameIn
<1> QED
  BY <1>14, <1>17 DEF d

\* The parameters from their announcement on, of which there may be none yet.
ParamsFrom(s, k, c) ==
    /\ k + 1 <= Len(s)
    /\ s[k + 1] = <<"paramsLength", c.remainingParams + Len(Bytes(s, "params"))>>
    /\ \A i \in k + 2 .. Len(s) : s[i][1] = "params"

ParamsOpened(c, n) == [c EXCEPT !.remainingParams = n, !.state = "PARAMS_NEXT"]

ParamsRead(c, bytes) ==
    [c EXCEPT !.payload = @ \o bytes, !.remainingParams = c.remainingParams - Len(bytes)]

LEMMA ParamsOpenedKnown ==
    ASSUME NEW c \in ContractContexts, NEW n \in 0 .. LengthMax
    PROVE  /\ ParamsOpened(c, n) \in ContractContexts
           /\ ParamsOpened(c, n).nameLength = c.nameLength
           /\ ParamsOpened(c, n).remainingName = c.remainingName
           /\ ParamsOpened(c, n).state = "PARAMS_NEXT" /\ ParamsOpened(c, n).head = c.head
           /\ ParamsOpened(c, n).remainingParams = n
           /\ ParamsOpened(c, n).nameDisplay = c.nameDisplay
           /\ ParamsOpened(c, n).payload = c.payload
<1> DEFINE d == ParamsOpened(c, n)
<1>1. c \in ContractRecord /\ Len(c.nameDisplay) < NameSize
  BY ContractFields
<1>2. /\ d \in ContractRecord /\ d.nameLength = c.nameLength /\ d.remainingName = c.remainingName
      /\ d.state = "PARAMS_NEXT" /\ d.head = c.head /\ d.remainingParams = n
      /\ d.nameDisplay = c.nameDisplay /\ d.payload = c.payload
  BY <1>1 DEF ParamsOpened, ContractRecord, ContractStates
<1>3. d \in ContractContexts
  BY <1>1, <1>2 DEF ContractContexts, ContractRecord
<1> QED
  BY <1>2, <1>3

LEMMA ParamsReadKnown ==
    ASSUME NEW c \in ContractContexts, NEW bytes \in Seq(Vals), Len(bytes) <= c.remainingParams
    PROVE  LET d == ParamsRead(c, bytes) IN
           /\ d \in ContractContexts
           /\ d.payload = c.payload \o bytes /\ d.remainingParams = c.remainingParams - Len(bytes)
           /\ d.nameDisplay = c.nameDisplay /\ d.nameLength = c.nameLength
           /\ d.remainingName = c.remainingName /\ d.head = c.head /\ d.state = c.state
<1> DEFINE t == c.payload \o bytes
           left == c.remainingParams - Len(bytes)
           d == [c EXCEPT !.payload = t, !.remainingParams = left]
<1>1. /\ c \in ContractRecord /\ c.remainingParams \in 0 .. LengthMax /\ Len(c.nameDisplay) < NameSize
      /\ c.payload \in Seq(Vals) /\ Len(bytes) \in Nat
  BY ContractFields
<1>2. t \in Seq(Vals)
  BY <1>1, ConcatBytes
<1>3. left \in 0 .. LengthMax
  BY <1>1, ContractsAssumption
<1>4. d = ParamsRead(c, bytes)
  BY <1>1 DEF ParamsRead, ContractRecord
<1> HIDE DEF t, left
<1>5. /\ d \in ContractRecord /\ d.payload = t /\ d.remainingParams = left
      /\ d.nameDisplay = c.nameDisplay /\ d.nameLength = c.nameLength
      /\ d.remainingName = c.remainingName /\ d.head = c.head /\ d.state = c.state
  BY <1>1, <1>2, <1>3 DEF ContractRecord
<1> HIDE DEF d
<1>6. d \in ContractContexts
  BY <1>1, <1>5 DEF ContractContexts, ContractRecord
<1> QED
  BY <1>4, <1>5, <1>6 DEF t, left

LEMMA ParamsGrow ==
    ASSUME NEW s \in Seq(AccountItem), NEW b \in Nat, NEW k, NEW c \in ContractContexts,
           NameIn(s, b, k, c), ParamsFrom(s, k, c),
           NEW bytes \in Seq(Vals), Len(bytes) <= c.remainingParams,
           NEW t, t = Append(s, <<"params", bytes>>)
    PROVE  NameIn(t, b, k, ParamsRead(c, bytes)) /\ ParamsIn(t, k, ParamsRead(c, bytes))
<1> DEFINE x == <<"params", bytes>>
           d == ParamsRead(c, bytes)
           nb == Bytes(s, "name")
           pb == Bytes(s, "params")
<1>1. x \in AccountItem /\ x[1] = "params" /\ x[2] = bytes
  BY AccountItems
<1> HIDE DEF x
<1>2. "name" \in StreamTags /\ "params" \in StreamTags
  BY DEF StreamTags
<1>3. /\ k \in Nat /\ b + 1 <= k /\ k <= Len(s)
      /\ s[b + 1] = <<"nameLength", c.nameLength>>
      /\ \A i \in b + 2 .. k : s[i][1] = "name"
      /\ c.nameLength = c.remainingName + Len(nb)
      /\ c.nameDisplay = (IF NameIsKept(c.nameLength) THEN nb ELSE << >>)
      /\ c.payload = nb \o pb
  BY DEF NameIn
<1>4. /\ k + 1 <= Len(s) /\ s[k + 1] = <<"paramsLength", c.remainingParams + Len(pb)>>
      /\ \A i \in k + 2 .. Len(s) : s[i][1] = "params"
  BY DEF ParamsFrom
<1>5. nb \in Seq(Vals) /\ pb \in Seq(Vals) /\ Len(pb) \in Nat /\ Len(bytes) \in Nat /\ Len(s) \in Nat
  BY <1>2, BytesKnown
<1>6. Bytes(t, "name") = nb /\ Bytes(t, "params") = pb \o bytes
  <2>1. Bytes(Append(s, x), "name") = BytesStep(nb, x, "name")
    BY <1>1, <1>2, BytesAppend
  <2>2. Bytes(Append(s, x), "params") = BytesStep(pb, x, "params")
    BY <1>1, <1>2, BytesAppend
  <2>3. t = Append(s, x)
    BY DEF x
  <2> QED
    BY <1>1, <2>1, <2>2, <2>3 DEF BytesStep
<1>7. Len(t) = Len(s) + 1 /\ t[Len(s) + 1] = x /\ \A i \in 1 .. Len(s) : t[i] = s[i]
  <2>1. t = Append(s, x)
    BY DEF x
  <2>2. x \in AccountItem
    BY <1>1
  <2>3. /\ Len(Append(s, x)) = Len(s) + 1 /\ Append(s, x)[Len(s) + 1] = x
        /\ \A i \in 1 .. Len(s) : Append(s, x)[i] = s[i]
    BY ONLY <2>2, s \in Seq(AccountItem)
  <2> QED
    BY <2>1, <2>3
<1> HIDE DEF nb, pb
<1>8. /\ d.payload = c.payload \o bytes /\ d.remainingParams = c.remainingParams - Len(bytes)
      /\ d.nameDisplay = c.nameDisplay /\ d.nameLength = c.nameLength
      /\ d.remainingName = c.remainingName
  BY ParamsReadKnown
<1> HIDE DEF d
<1>9. Len(pb \o bytes) = Len(pb) + Len(bytes) /\ (nb \o pb) \o bytes = nb \o (pb \o bytes)
  BY <1>5, ConcatBytes, ConcatAssociates, SMTT(30)
<1>10. c.remainingParams \in Nat
  BY ContractFields
<1>11. d.remainingParams + Len(pb \o bytes) = c.remainingParams + Len(pb)
  BY <1>5, <1>8, <1>9, <1>10
<1>12. t[b + 1] = s[b + 1] /\ t[k + 1] = s[k + 1]
  <2>1. b + 1 \in 1 .. Len(s) /\ k + 1 \in 1 .. Len(s)
    BY <1>3, <1>4, <1>5
  <2> QED
    BY <1>7, <2>1
<1>13. ASSUME NEW i \in b + 2 .. k PROVE t[i][1] = "name"
  <2>1. i \in 1 .. Len(s)
    BY <1>3, <1>5
  <2> QED
    BY <1>3, <1>7, <2>1
<1>14. ASSUME NEW i \in k + 2 .. Len(t) PROVE t[i][1] = "params"
  <2>1. i \in k + 2 .. Len(s) \/ i = Len(s) + 1
    <3>1. Len(t) = Len(s) + 1 /\ Len(s) \in Nat
      BY <1>5, <1>7
    <3> QED
      BY <1>3, <3>1, OneFurther
  <2>2. i \in k + 2 .. Len(s) => i \in 1 .. Len(s)
    BY <1>3, <1>5
  <2> QED
    BY <1>1, <1>4, <1>7, <2>1, <2>2
<1>15. k <= Len(t) /\ k + 1 < Len(t)
  BY <1>3, <1>4, <1>5, <1>7
<1>16. NameIn(t, b, k, d)
  BY <1>3, <1>6, <1>8, <1>9, <1>12, <1>13, <1>15 DEF NameIn
<1>17. ParamsIn(t, k, d)
  BY <1>4, <1>6, <1>11, <1>12, <1>14, <1>15 DEF ParamsIn
<1> QED
  BY <1>16, <1>17 DEF d

-----------------------------------------------------------------------------
(* Initializing and updating a contract: the first packet. *)

HeadSet(ins, v) ==
    IF ins = INITIALIZE THEN {<<"amount", v>>, <<"moduleRef", v>>}
    ELSE {<<"amount", v>>, <<"index", v>>, <<"subIndex", v>>}

FirstItems(ins, v) == <<<<"kind", ins>>>> \o HeadItems(ins, v)

LEMMA FirstItemsKnown ==
    ASSUME NEW ins \in ContractInss, NEW v \in Vals
    PROVE  /\ FirstItems(ins, v) \in Seq(AccountItem)
           /\ Len(FirstItems(ins, v)) = HeadEnd(ins) - 1
           /\ FirstItems(ins, v)[1] = <<"kind", ins>>
           /\ FirstItems(ins, v)[2] = <<"amount", v>>
           /\ ins = INITIALIZE => FirstItems(ins, v)[3] = <<"moduleRef", v>>
           /\ ins = UPDATE => /\ FirstItems(ins, v)[3] = <<"index", v>>
                              /\ FirstItems(ins, v)[4] = <<"subIndex", v>>
           /\ ItemsOf(HeadItems(ins, v)) = HeadSet(ins, v)
           /\ HeadSet(ins, v) \in SUBSET (ValueTags \X Vals)
<1> DEFINE k == <<"kind", ins>>
           a == <<"amount", v>>
           m == <<"moduleRef", v>>
           x == <<"index", v>>
           y == <<"subIndex", v>>
<1>1. k \in AccountItem
  BY ContractNames, AccountItems
<1>2. /\ "amount" \in ValueTags /\ "moduleRef" \in ValueTags /\ "index" \in ValueTags
      /\ "subIndex" \in ValueTags
  BY DEF ValueTags
<1>3. a \in AccountItem /\ m \in AccountItem /\ x \in AccountItem /\ y \in AccountItem
  BY <1>2, AccountItems
<1>4. {a, m, x, y} \subseteq ValueTags \X Vals
  BY <1>2
<1>5. HeadItems(ins, v) = (IF ins = INITIALIZE THEN <<a, m>> ELSE <<a, x, y>>)
  BY DEF HeadItems
<1>6. HeadSet(ins, v) = (IF ins = INITIALIZE THEN {a, m} ELSE {a, x, y})
  BY DEF HeadSet
<1>7. FirstItems(ins, v) = <<k>> \o HeadItems(ins, v)
  BY DEF FirstItems
<1> HIDE DEF k, a, m, x, y
<1>8. CASE ins = INITIALIZE
  <2>1. /\ <<k>> \o <<a, m>> \in Seq(AccountItem) /\ Len(<<k>> \o <<a, m>>) = 3
        /\ (<<k>> \o <<a, m>>)[1] = k /\ (<<k>> \o <<a, m>>)[2] = a /\ (<<k>> \o <<a, m>>)[3] = m
    BY <1>1, <1>3
  <2>2. ItemsOf(<<a, m>>) = {a, m}
    BY DEF ItemsOf
  <2>3. HeadEnd(ins) - 1 = 3 /\ ins # UPDATE
    BY <1>8, ContractNames
  <2> QED
    BY <1>4, <1>5, <1>6, <1>7, <1>8, <2>1, <2>2, <2>3 DEF k, a, m
<1>9. CASE ins = UPDATE
  <2>1. /\ <<k>> \o <<a, x, y>> \in Seq(AccountItem) /\ Len(<<k>> \o <<a, x, y>>) = 4
        /\ (<<k>> \o <<a, x, y>>)[1] = k /\ (<<k>> \o <<a, x, y>>)[2] = a
        /\ (<<k>> \o <<a, x, y>>)[3] = x /\ (<<k>> \o <<a, x, y>>)[4] = y
    BY <1>1, <1>3
  <2>2. ItemsOf(<<a, x, y>>) = {a, x, y}
    BY DEF ItemsOf
  <2>3. HeadEnd(ins) - 1 = 4 /\ ins # INITIALIZE
    BY <1>9, ContractNames
  <2> QED
    BY <1>4, <1>5, <1>6, <1>7, <1>9, <2>1, <2>2, <2>3 DEF k, a, x, y
<1> QED
  BY <1>8, <1>9 DEF ContractInss

ContractBegun(H) ==
    [view |-> "contract", state |-> "NAME_FIRST", head |-> H, nameLength |-> 0,
     remainingName |-> 0, remainingParams |-> 0, nameDisplay |-> << >>, payload |-> << >>]

LEMMA ContractBegunKnown ==
    ASSUME NEW H \in SUBSET (ValueTags \X Vals)
    PROVE  /\ ContractBegun(H) \in ContractContexts
           /\ ContractBegun(H).state = "NAME_FIRST" /\ ContractBegun(H).head = H
           /\ ContractBegun(H).nameDisplay = << >> /\ ContractBegun(H).payload = << >>
           /\ ContractBegun(H).remainingName = 0 /\ ContractBegun(H).remainingParams = 0
<1>1. << >> \in Seq(Vals) /\ Len(<< >>) = 0 /\ 0 \in 0 .. LengthMax /\ 0 < NameSize
  BY ContractsAssumption
<1> DEFINE e == << >>
<1>2. e \in Seq(Vals) /\ Len(e) = 0
  BY <1>1
<1> HIDE DEF e
<1> DEFINE d == [view |-> "contract", state |-> "NAME_FIRST", head |-> H, nameLength |-> 0,
                 remainingName |-> 0, remainingParams |-> 0, nameDisplay |-> e, payload |-> e]
<1>3. /\ d \in ContractRecord /\ d.state = "NAME_FIRST" /\ d.head = H /\ d.nameDisplay = e
      /\ d.payload = e /\ d.remainingName = 0 /\ d.remainingParams = 0
  BY <1>1, <1>2 DEF ContractRecord, ContractStates
<1>4. ContractBegun(H) = d
  BY DEF ContractBegun, e
<1> HIDE DEF d
<1>5. d \in ContractContexts
  BY <1>1, <1>2, <1>3 DEF ContractContexts, ContractRecord
<1> QED
  BY <1>3, <1>4, <1>5 DEF e

LEMMA ContractInitialEffect ==
    ASSUME Gated, AnswerInv, Typed, FlowInv, NEW ins \in ContractInss, ContractInitial(ins)
    PROVE  reply # Owed /\ PacketEffect
<1>1. Enters(ins) /\ IsInitialCall
  BY Zenon DEF ContractInitial
<1>2. reply # Owed /\ ins \in AccountInss /\ Union = Wiped
  BY <1>1, NamesDiffer, ContractNames, UnionKnown
<1>3. PICK h \in Headers, p \in Paths, v \in Vals :
         \/ /\ hashAccountTransactionHeaderAndKind(h, p, FirstItems(ins, v))
            /\ Ack(ins, [ContractView EXCEPT !.state = "NAME_FIRST",
                                             !.head = ItemsOf(HeadItems(ins, v))])
         \/ HeaderThrows(h, p, FirstItems(ins, v))
  BY Zenon DEF ContractInitial, FirstItems
<1> DEFINE items == FirstItems(ins, v)
           H == HeadSet(ins, v)
<1>4. /\ items \in Seq(AccountItem) /\ Len(items) = HeadEnd(ins) - 1
      /\ items[1] = <<"kind", ins>> /\ items[2] = <<"amount", v>>
      /\ ins = INITIALIZE => items[3] = <<"moduleRef", v>>
      /\ ins = UPDATE => items[3] = <<"index", v>> /\ items[4] = <<"subIndex", v>>
      /\ ItemsOf(HeadItems(ins, v)) = H
      /\ H \in SUBSET (ValueTags \X Vals)
  BY FirstItemsKnown
<1> HIDE DEF items, H
<1>5. [ContractView EXCEPT !.state = "NAME_FIRST", !.head = ItemsOf(HeadItems(ins, v))]
         = ContractBegun(H)
  <2> DEFINE e == << >>
             c == ContractView
             d == [c EXCEPT !.state = "NAME_FIRST", !.head = H]
  <2>1. c = [view |-> "contract", state |-> "zero", head |-> {}, nameLength |-> 0,
             remainingName |-> 0, remainingParams |-> 0, nameDisplay |-> e, payload |-> e]
    BY <1>2 DEF ContractView, ContractZero
  <2>2. ContractBegun(H) =
           [view |-> "contract", state |-> "NAME_FIRST", head |-> H, nameLength |-> 0,
            remainingName |-> 0, remainingParams |-> 0, nameDisplay |-> e, payload |-> e]
    BY DEF ContractBegun
  <2> HIDE DEF e
  <2>3. c \in [view : {"contract"}, state : {"zero"}, head : {{}}, nameLength : {0},
                remainingName : {0}, remainingParams : {0}, nameDisplay : {e}, payload : {e}]
    BY <2>1
  <2> HIDE DEF c
  <2>4. d \in [view : {"contract"}, state : {"NAME_FIRST"}, head : {H}, nameLength : {0},
                remainingName : {0}, remainingParams : {0}, nameDisplay : {e}, payload : {e}]
    BY <2>3
  <2> HIDE DEF d
  <2>5. d = [view |-> "contract", state |-> "NAME_FIRST", head |-> H, nameLength |-> 0,
             remainingName |-> 0, remainingParams |-> 0, nameDisplay |-> e, payload |-> e]
    BY <2>4
  <2> QED
    BY <1>4, <2>2, <2>5 DEF c, d
<1>6. CASE HeaderThrows(h, p, items)
  BY <1>2, <1>4, <1>6, HeaderThrowsEffect
<1>7. CASE hashAccountTransactionHeaderAndKind(h, p, items) /\ Ack(ins, ContractBegun(H))
  <2>1. /\ latch' = ins /\ ctx' = ContractBegun(H) /\ reply' = Success(<< >>)
        /\ screen' = screen /\ keyPending' = keyPending
    BY <1>7 DEF Ack
  <2>2. /\ ctx' \in ContractContexts
        /\ ctx'.state = "NAME_FIRST" /\ ctx'.head = H
        /\ ctx'.nameDisplay = << >> /\ ctx'.payload = << >>
        /\ ctx'.remainingName = 0 /\ ctx'.remainingParams = 0
    BY <1>4, <2>1, ContractBegunKnown
  <2>3. ctx' \in AccountContexts /\ ctx' # Wiped /\ OwnContext(ins, ctx')
    BY <2>2, ContractOwn
  <2>4. HeadEnd(ins) \in {4, 5}
    BY ContractNames
  <2>5. Len(items) > 0
    BY <1>4, <2>4
  <2>6. /\ Typed' /\ approved' = {} /\ path' = p
        /\ Headed(ins, hash', account', p)
        /\ hash' \in Seq(AccountItem) /\ Len(hash') = Len(items) + 1
        /\ \A i \in 1 .. Len(items) : hash'[i + 1] = items[i]
    BY <1>2, <1>4, <1>7, <2>1, <2>3, <2>5, BegunTypes, Zenon
  <2>7. Len(hash') = HeadEnd(ins) /\ hash'[3] = <<"amount", v>>
    <3>1. 2 \in 1 .. Len(items)
      BY <1>4, <2>4
    <3>2. hash'[2 + 1] = items[2]
      BY <2>6, <3>1
    <3> QED
      BY <1>4, <2>4, <2>6, <3>2
  <2>8. HeadIn(ins, hash', ctx', v)
    <3>1. CASE ins = INITIALIZE
      <4>1. 3 \in 1 .. Len(items) /\ ins # UPDATE
        BY <1>4, <3>1, ContractNames
      <4>2. hash'[3 + 1] = items[3]
        BY <2>6, <4>1
      <4>3. hash'[4] = <<"moduleRef", v>>
        BY <1>4, <3>1, <4>2
      <4> QED
        BY <2>2, <2>7, <3>1, <4>1, <4>3 DEF HeadIn, H, HeadSet
    <3>2. CASE ins = UPDATE
      <4>1. 3 \in 1 .. Len(items) /\ 4 \in 1 .. Len(items) /\ ins # INITIALIZE
        BY <1>4, <3>2, ContractNames
      <4>2. hash'[3 + 1] = items[3] /\ hash'[4 + 1] = items[4]
        BY <2>6, <4>1
      <4>3. hash'[4] = <<"index", v>> /\ hash'[5] = <<"subIndex", v>>
        BY <1>4, <3>2, <4>2
      <4> QED
        BY <2>2, <2>7, <3>2, <4>1, <4>3 DEF HeadIn, H, HeadSet
    <3> QED
      BY <3>1, <3>2 DEF ContractInss
  <2>9. ContractFlow(ins, hash', ctx')
    <3>1. Len(hash') >= HeadEnd(ins)
      BY <2>4, <2>7
    <3> QED
      BY <2>2, <2>7, <2>8, <3>1 DEF ContractFlow, ContractStates
  <2>10. Flow(latch', hash', ctx', account', path', approved')
    BY <2>1, <2>6, <2>9, ContractFlows
  <2>11. Acked
    BY <1>2, <2>1, <2>3, <2>10 DEF Acked
  <2> QED
    BY <1>2, <2>1, <2>6, <2>11, Zenon DEF PacketEffect
<1> QED
  BY <1>3, <1>5, <1>6, <1>7 DEF items

-----------------------------------------------------------------------------
(* Initializing and updating a contract: the name. *)

\* The context a chunk of a name finds, and the one it leaves.
NameBegun(c, n) ==
    [c EXCEPT !.nameLength = IF c.state = "NAME_FIRST" THEN n ELSE c.nameLength,
              !.remainingName = IF c.state = "NAME_FIRST" THEN n ELSE c.remainingName,
              !.state = IF c.state = "NAME_FIRST" THEN "NAME_NEXT" ELSE @]

NameDue(c, n) == IF c.state = "NAME_FIRST" THEN n ELSE c.remainingName

NameLeft(c, n, bytes) ==
    [NameBegun(c, n) EXCEPT
        !.payload = @ \o bytes,
        !.nameDisplay = IF NameIsKept(IF c.state = "NAME_FIRST" THEN n ELSE c.nameLength)
                        THEN @ \o bytes ELSE @,
        !.remainingName = NameDue(c, n) - Len(bytes),
        !.state = IF NameDue(c, n) - Len(bytes) = 0 THEN "PARAMS_FIRST" ELSE @]

NameFed(c, n, bytes) ==
    (IF c.state = "NAME_FIRST" THEN <<<<"nameLength", n>>>> ELSE << >>) \o <<<<"name", bytes>>>>

LEMMA NameBegunIs ==
    ASSUME NEW c \in ContractContexts, NEW n \in 0 .. LengthMax
    PROVE  NameBegun(c, n) = IF c.state = "NAME_FIRST" THEN NameOpened(c, n) ELSE c
<1>1. CASE c.state = "NAME_FIRST"
  BY <1>1 DEF NameBegun, NameOpened
<1>2. CASE c.state # "NAME_FIRST"
  <2>1. c \in ContractRecord
    BY ContractFields
  <2> DEFINE d == [c EXCEPT !.nameLength = c.nameLength, !.remainingName = c.remainingName,
                            !.state = c.state]
  <2>2. NameBegun(c, n) = d
    BY <1>2 DEF NameBegun
  <2>3. d = c
    BY <2>1 DEF ContractRecord
  <2> QED
    BY <1>2, <2>2, <2>3
<1> QED
  BY <1>1, <1>2

LEMMA NameLeftIs ==
    ASSUME NEW c \in ContractContexts, NEW n \in 0 .. LengthMax, NEW bytes \in Seq(Vals)
    PROVE  NameLeft(c, n, bytes) =
              IF c.state = "NAME_FIRST" THEN Grown(NameOpened(c, n), bytes) ELSE Grown(c, bytes)
<1>1. CASE c.state = "NAME_FIRST"
  <2>1. NameOpened(c, n).nameLength = n /\ NameOpened(c, n).remainingName = n
    BY NameOpenedKnown
  <2>2. NameBegun(c, n) = NameOpened(c, n) /\ NameDue(c, n) = n
    BY <1>1, NameBegunIs DEF NameDue
  <2> QED
    BY <1>1, <2>1, <2>2, Zenon DEF NameLeft, Grown
<1>2. CASE c.state # "NAME_FIRST"
  <2>1. NameBegun(c, n) = c /\ NameDue(c, n) = c.remainingName
    BY <1>2, NameBegunIs DEF NameDue
  <2> QED
    BY <1>2, <2>1, Zenon DEF NameLeft, Grown
<1> QED
  BY <1>1, <1>2

LEMMA ContractNameParts ==
    ASSUME Gated, AnswerInv, Typed, FlowInv, NEW ins \in ContractInss, ContractName(ins)
    PROVE  /\ reply # Owed /\ UNCHANGED txConst
           /\ \/ (Throw \/ \E c \in AccountContexts : send_rejection(c)) /\ UNCHANGED hash
              \/ /\ latch = ins /\ ctx \in ContractContexts
                 /\ ContractFlow(ins, hash, ctx) /\ Headed(ins, hash, account, path)
                 /\ \E n \in 0 .. LengthMax, bytes \in Chunks(0) :
                       \/ /\ ctx.state = "NAME_FIRST" /\ Len(bytes) <= n
                          /\ Feed(<<<<"nameLength", n>>>> \o <<<<"name", bytes>>>>)
                          /\ Ack(ins, Grown(NameOpened(ctx, n), bytes))
                       \/ /\ ctx.state = "NAME_NEXT" /\ Len(bytes) <= ctx.remainingName
                          /\ Feed(<<<<"name", bytes>>>>)
                          /\ Ack(ins, Grown(ctx, bytes))
<1>1. Enters(ins) /\ UNCHANGED txConst
  BY Zenon DEF ContractName
<1>2. /\ reply # Owed
      /\ \/ ContractView = ContractZero
         \/ /\ latch = ins /\ ContractView = ctx /\ ctx \in ContractContexts
            /\ ContractFlow(ins, hash, ctx) /\ Headed(ins, hash, account, path)
  BY <1>1, ContractFound
<1> DEFINE c == ContractView
<1>3. PICK n \in 0 .. LengthMax, bytes \in Chunks(0) :
         /\ c.state = "NAME_FIRST" \/ (Len(bytes) > 0 /\ n = 0)
         /\ \/ Throw /\ UNCHANGED hash
            \/ /\ MoreFits(NameDue(c, n), bytes)
               /\ \/ send_rejection(NameBegun(c, n)) /\ UNCHANGED hash
                  \/ Feed(NameFed(c, n, bytes)) /\ Ack(ins, NameLeft(c, n, bytes))
  BY Zenon DEF ContractName, NameDue, NameBegun, NameLeft, NameFed
<1> HIDE DEF c
<1>4. bytes \in Seq(Vals) /\ Len(bytes) \in Nat
  BY ChunksKnown
<1>5. CASE Throw /\ UNCHANGED hash
  BY <1>1, <1>2, <1>5
<1>6. CASE ~(Throw /\ UNCHANGED hash)
  <2>1. /\ MoreFits(NameDue(c, n), bytes)
        /\ \/ send_rejection(NameBegun(c, n)) /\ UNCHANGED hash
           \/ Feed(NameFed(c, n, bytes)) /\ Ack(ins, NameLeft(c, n, bytes))
    BY <1>3, <1>6
  <2>2. Len(bytes) <= NameDue(c, n)
    BY <2>1 DEF MoreFits
  <2>3. ASSUME c.state # "NAME_FIRST" PROVE c.remainingName # 0
    <3>1. Len(bytes) > 0 /\ NameDue(c, n) = c.remainingName
      BY <1>3, <2>3 DEF NameDue
    <3> QED
      BY <1>4, <2>2, <3>1
  <2>4. c # ContractZero
    <3>1. ContractZero.state # "NAME_FIRST" /\ ContractZero.remainingName = 0
      BY DEF ContractZero
    <3> QED
      BY <2>3, <3>1
  <2>5. /\ latch = ins /\ c = ctx /\ ctx \in ContractContexts
        /\ ContractFlow(ins, hash, ctx) /\ Headed(ins, hash, account, path)
    BY <1>2, <2>4 DEF c
  <2>6. ctx.state = "NAME_FIRST" \/ ctx.state = "NAME_NEXT"
    BY <2>3, <2>5 DEF ContractFlow, ContractStates
  <2>7. CASE send_rejection(NameBegun(c, n)) /\ UNCHANGED hash
    <3>1. NameBegun(c, n) \in ContractContexts
      BY <2>5, NameBegunIs, NameOpenedKnown
    <3>2. NameBegun(c, n) \in AccountContexts
      BY <3>1, ContractOwn
    <3> QED
      BY <1>1, <1>2, <2>7, <3>2
  <2>8. CASE Feed(NameFed(c, n, bytes)) /\ Ack(ins, NameLeft(c, n, bytes)) /\ ctx.state = "NAME_FIRST"
    <3>1. NameFed(c, n, bytes) = <<<<"nameLength", n>>>> \o <<<<"name", bytes>>>>
      BY <2>5, <2>8 DEF NameFed
    <3>2. NameLeft(c, n, bytes) = Grown(NameOpened(ctx, n), bytes)
      BY <1>4, <2>5, <2>8, NameLeftIs
    <3>3. NameDue(c, n) = n
      BY <2>5, <2>8 DEF NameDue
    <3> QED
      BY <1>1, <1>2, <2>2, <2>5, <2>8, <3>1, <3>2, <3>3, Zenon
  <2>9. CASE Feed(NameFed(c, n, bytes)) /\ Ack(ins, NameLeft(c, n, bytes)) /\ ctx.state = "NAME_NEXT"
    <3>1. NameFed(c, n, bytes) = <<<<"name", bytes>>>>
      <4> DEFINE t == <<<<"name", bytes>>>>
      <4>1. t \in Seq(AccountItem)
        <5>1. <<"name", bytes>> \in AccountItem
          BY <1>4, AccountItems
        <5> QED
          BY <5>1, SingletonSeq
      <4>2. NameFed(c, n, bytes) = << >> \o t
        BY <2>5, <2>9 DEF NameFed
      <4> HIDE DEF t
      <4>3. << >> \o t = t
        BY <4>1
      <4> QED
        BY <4>2, <4>3 DEF t
    <3>2. NameLeft(c, n, bytes) = Grown(ctx, bytes)
      BY <1>4, <2>5, <2>9, NameLeftIs
    <3>3. NameDue(c, n) = ctx.remainingName
      BY <2>5, <2>9 DEF NameDue
    <3> QED
      BY <1>1, <1>2, <2>2, <2>5, <2>9, <3>1, <3>2, <3>3, Zenon
  <2> QED
    BY <2>1, <2>6, <2>7, <2>8, <2>9
<1> QED
  BY <1>5, <1>6

\* What is common to the chunks of a name and of parameters: the items are fed,
\* and the head of the transcript stays as it was.
LEMMA ContractGoesOn ==
    ASSUME Typed, UNCHANGED txConst, NEW ins \in ContractInss, Headed(ins, hash, account, path),
           ContractFlow(ins, hash, ctx), NEW items \in Seq(AccountItem), Feed(items),
           NEW d \in ContractContexts, latch' = ins, ctx' = d, d.head = ctx.head
    PROVE  /\ Typed' /\ UNCHANGED <<path, account, approved>> /\ Extended
           /\ Headed(ins, hash', account', path')
           /\ \E v \in Vals : HeadIn(ins, hash', d, v)
           /\ Len(hash') >= HeadEnd(ins) /\ hash \in Seq(AccountItem) /\ hash' \in Seq(AccountItem)
           /\ Len(hash') = Len(hash) + Len(items)
           /\ d \in AccountContexts /\ d # Wiped /\ ins \in AccountInss
<1>1. d \in AccountContexts /\ d # Wiped /\ OwnContext(ins, d) /\ ins \in AccountInss
  BY ContractOwn, ContractNames
<1>2. /\ Typed' /\ UNCHANGED <<path, account, approved>> /\ Extended
      /\ hash \in Seq(AccountItem) /\ hash' \in Seq(AccountItem)
      /\ Len(hash') = Len(hash) + Len(items)
      /\ \A i \in 1 .. Len(hash) : hash'[i] = hash[i]
  BY <1>1, ContinuedTypes
<1>3. Len(hash) \in Nat /\ Len(hash') \in Nat /\ Len(hash') >= Len(hash)
  <2>1. Len(items) \in Nat /\ Len(hash) \in Nat
    BY <1>2
  <2> QED
    BY <1>2, <2>1
<1>4. Headed(ins, hash', account', path')
  BY <1>2, <1>3, StillHeaded
<1>5. Len(hash) >= HeadEnd(ins) /\ HeadEnd(ins) \in Nat
  BY ContractNames DEF ContractFlow
<1>6. PICK v \in Vals : HeadIn(ins, hash, ctx, v)
  BY DEF ContractFlow
<1>7. \A i \in 1 .. HeadEnd(ins) : hash'[i] = hash[i]
  <2>1. \A i \in 1 .. HeadEnd(ins) : i \in 1 .. Len(hash)
    BY <1>3, <1>5
  <2> QED
    BY <1>2, <2>1
<1>8. HeadIn(ins, hash', d, v)
  BY <1>6, <1>7, HeadKept
<1>9. Len(hash') >= HeadEnd(ins)
  BY <1>3, <1>5
<1> QED
  BY <1>1, <1>2, <1>4, <1>8, <1>9

\* The first chunk of a name.
LEMMA NameOpens ==
    ASSUME NEW ins \in ContractInss, NEW s \in Seq(AccountItem), NEW c \in ContractContexts,
           NEW a, NEW p, NEW v, Headed(ins, s, a, p), HeadIn(ins, s, c, v),
           Len(s) = HeadEnd(ins), c.nameDisplay = << >>, c.payload = << >>,
           NEW n \in 0 .. LengthMax, NEW t, t = Append(s, <<"nameLength", n>>)
    PROVE  /\ t \in Seq(AccountItem) /\ Bytes(t, "params") = << >>
           /\ NameIn(t, HeadEnd(ins), Len(t), NameOpened(c, n))
<1> DEFINE x == <<"nameLength", n>>
           d == NameOpened(c, n)
<1>1. n \in Nat /\ x[1] = "nameLength"
  BY ContractsAssumption
<1>2. x \in AccountItem
  BY <1>1, AccountItems
<1>3. t = Append(s, x) /\ x[1] # "name" /\ x[1] # "params"
  BY <1>1
<1> HIDE DEF x
<1>4. /\ t \in Seq(AccountItem) /\ Len(t) = Len(s) + 1 /\ t[Len(s) + 1] = x
      /\ \A i \in 1 .. Len(s) : t[i] = s[i]
  <2>1. /\ Append(s, x) \in Seq(AccountItem) /\ Len(Append(s, x)) = Len(s) + 1
        /\ Append(s, x)[Len(s) + 1] = x /\ \A i \in 1 .. Len(s) : Append(s, x)[i] = s[i]
    BY ONLY <1>2, s \in Seq(AccountItem)
  <2> QED
    BY <1>3, <2>1
<1>5. Bytes(s, "params") = << >> /\ Bytes(s, "name") = << >>
  BY NoParams
<1>6. "name" \in StreamTags /\ "params" \in StreamTags
  BY DEF StreamTags
<1>7. Bytes(t, "params") = << >> /\ Bytes(t, "name") = << >>
  <2>1. Bytes(Append(s, x), "name") = BytesStep(Bytes(s, "name"), x, "name")
    BY <1>2, <1>6, BytesAppend
  <2>2. Bytes(Append(s, x), "params") = BytesStep(Bytes(s, "params"), x, "params")
    BY <1>2, <1>6, BytesAppend
  <2> QED
    BY <1>3, <1>5, <2>1, <2>2 DEF BytesStep
<1>8. /\ d.nameLength = n /\ d.remainingName = n
      /\ d.nameDisplay = << >> /\ d.payload = << >>
  BY NameOpenedKnown
<1> HIDE DEF d
<1>9. HeadEnd(ins) \in Nat
  BY ContractNames
<1>10. /\ Len(t) \in Nat /\ HeadEnd(ins) + 1 <= Len(t) /\ Len(t) <= Len(t)
       /\ t[HeadEnd(ins) + 1] = x
       /\ \A i \in HeadEnd(ins) + 2 .. Len(t) : t[i][1] = "name"
  BY <1>4, <1>9
<1>11. n = n + Len(Bytes(t, "name")) /\ << >> = << >> \o << >>
  <2>1. << >> \in Seq(Vals) /\ Len(<< >>) = 0
    OBVIOUS
  <2>2. << >> \o << >> = << >>
    BY <2>1, NoBytes
  <2>3. Len(Bytes(t, "name")) = 0
    BY <1>7, <2>1
  <2>4. n = n + Len(Bytes(t, "name"))
    <3>1. n = n + 0
      BY <1>1
    <3> QED
      BY <2>3, <3>1, Zenon
  <2> QED
    BY <2>2, <2>4
<1>12. NameIn(t, HeadEnd(ins), Len(t), d)
  BY <1>7, <1>8, <1>10, <1>11 DEF NameIn, x
<1> QED
  BY <1>4, <1>7, <1>12 DEF d

LEMMA ContractNameEffect ==
    ASSUME Gated, AnswerInv, Typed, FlowInv, NEW ins \in ContractInss, ContractName(ins)
    PROVE  reply # Owed /\ PacketEffect
<1>0. reply # Owed /\ UNCHANGED txConst
  BY ContractNameParts
<1>1. CASE (Throw \/ \E c \in AccountContexts : send_rejection(c)) /\ UNCHANGED hash
  <2>1. hash' = hash
    BY <1>1
  <2> QED
    BY <1>0, <1>1, <2>1, RefusedEffect
<1>2. ASSUME latch = ins, ctx \in ContractContexts,
             ContractFlow(ins, hash, ctx), Headed(ins, hash, account, path),
             NEW items \in Seq(AccountItem), Feed(items),
             NEW d \in ContractContexts, Ack(ins, d), d.head = ctx.head,
             d.state \in {"NAME_NEXT", "PARAMS_FIRST"}, d.remainingParams = 0,
             d.state = "PARAMS_FIRST" => d.remainingName = 0,
             NameIn(hash', HeadEnd(ins), Len(hash'), d)
      PROVE  PacketEffect
  <2>1. /\ latch' = ins /\ ctx' = d /\ reply' = Success(<< >>)
        /\ screen' = screen /\ keyPending' = keyPending
    BY <1>2 DEF Ack
  <2>2. /\ Typed' /\ UNCHANGED <<path, account, approved>> /\ Extended
        /\ Headed(ins, hash', account', path')
        /\ \E v \in Vals : HeadIn(ins, hash', d, v)
        /\ Len(hash') >= HeadEnd(ins)
        /\ d \in AccountContexts /\ d # Wiped /\ ins \in AccountInss
    BY <1>0, <1>2, <2>1, ContractGoesOn
  <2>3. ContractFlow(ins, hash', d)
    BY <1>2, <2>2 DEF ContractFlow, ContractStates
  <2>4. Flow(latch', hash', ctx', account', path', approved')
    BY <2>1, <2>2, <2>3, ContractFlows
  <2>5. Acked
    BY <2>1, <2>2, <2>4 DEF Acked
  <2>6. approved' = approved
    BY <2>2
  <2> QED
    BY <2>1, <2>2, <2>5, <2>6, Zenon DEF PacketEffect
<1>3. CASE /\ latch = ins /\ ctx \in ContractContexts
           /\ ContractFlow(ins, hash, ctx) /\ Headed(ins, hash, account, path)
           /\ \E n \in 0 .. LengthMax, bytes \in Chunks(0) :
                 \/ /\ ctx.state = "NAME_FIRST" /\ Len(bytes) <= n
                    /\ Feed(<<<<"nameLength", n>>>> \o <<<<"name", bytes>>>>)
                    /\ Ack(ins, Grown(NameOpened(ctx, n), bytes))
                 \/ /\ ctx.state = "NAME_NEXT" /\ Len(bytes) <= ctx.remainingName
                    /\ Feed(<<<<"name", bytes>>>>)
                    /\ Ack(ins, Grown(ctx, bytes))
  <2>1. PICK n \in 0 .. LengthMax, bytes \in Chunks(0) :
           \/ /\ ctx.state = "NAME_FIRST" /\ Len(bytes) <= n
              /\ Feed(<<<<"nameLength", n>>>> \o <<<<"name", bytes>>>>)
              /\ Ack(ins, Grown(NameOpened(ctx, n), bytes))
           \/ /\ ctx.state = "NAME_NEXT" /\ Len(bytes) <= ctx.remainingName
              /\ Feed(<<<<"name", bytes>>>>)
              /\ Ack(ins, Grown(ctx, bytes))
    BY <1>3
  <2>2. bytes \in Seq(Vals) /\ Len(bytes) \in Nat /\ n \in Nat
    BY ChunksKnown, ContractsAssumption
  <2>3. PICK v \in Vals : HeadIn(ins, hash, ctx, v)
    BY <1>3 DEF ContractFlow
  <2>4. hash \in Seq(AccountItem) /\ HeadEnd(ins) \in Nat
    BY ContractNames DEF Typed
  <2> DEFINE x == <<"nameLength", n>>
             y == <<"name", bytes>>
  <2>5. x \in AccountItem /\ y \in AccountItem
    BY <2>2, AccountItems
  <2>6. CASE /\ ctx.state = "NAME_FIRST" /\ Len(bytes) <= n
             /\ Feed(<<x>> \o <<y>>) /\ Ack(ins, Grown(NameOpened(ctx, n), bytes))
    <3> DEFINE c == NameOpened(ctx, n)
               s == Append(hash, x)
               d == Grown(c, bytes)
    <3>1. /\ Len(hash) = HeadEnd(ins) /\ ctx.nameDisplay = << >> /\ ctx.payload = << >>
          /\ ctx.remainingParams = 0
      BY <1>3, <2>6 DEF ContractFlow
    <3>2. /\ c \in ContractContexts /\ c.nameLength = n /\ c.remainingName = n
          /\ c.state = "NAME_NEXT" /\ c.head = ctx.head /\ c.remainingParams = 0
      BY <1>3, <3>1, NameOpenedKnown
    <3>3. /\ s \in Seq(AccountItem) /\ Bytes(s, "params") = << >>
          /\ NameIn(s, HeadEnd(ins), Len(s), c)
      BY <1>3, <2>3, <2>4, <3>1, NameOpens
    <3> HIDE DEF c, x
    <3>4. <<x>> \o <<y>> = <<x, y>> /\ <<x, y>> \in Seq(AccountItem)
      <4> HIDE DEF y
      <4> QED
        BY <2>5, Pair
    <3>5. hash' = Append(s, y)
      <4>1. Feed(<<x, y>>)
        BY <2>6, <3>4
      <4> HIDE DEF y
      <4> QED
        BY <2>4, <2>5, <4>1, FeedTwo
    <3> HIDE DEF s
    <3>6. d \in ContractContexts /\ NameIn(hash', HeadEnd(ins), Len(hash'), d)
      <4>1. Len(bytes) <= c.remainingName
        BY <2>6, <3>2
      <4> QED
        BY <2>2, <2>4, <3>2, <3>3, <3>5, <4>1, NameGrows
    <3>7. /\ d.head = c.head /\ d.remainingParams = c.remainingParams
          /\ d.remainingName = c.remainingName - Len(bytes)
          /\ d.state = (IF c.remainingName - Len(bytes) = 0 THEN "PARAMS_FIRST" ELSE "NAME_NEXT")
      <4>1. Len(bytes) <= c.remainingName
        BY <2>6, <3>2
      <4> QED
        BY <2>2, <3>2, <4>1, GrownFields
    <3>8. Ack(ins, d)
      BY <2>6 DEF c
    <3> HIDE DEF d
    <3>9. d.state \in {"NAME_NEXT", "PARAMS_FIRST"} /\ (d.state = "PARAMS_FIRST" => d.remainingName = 0)
      BY <3>7
    <3>10. Feed(<<x, y>>)
      BY <2>6, <3>4
    <3> QED
      BY <1>0, <1>2, <1>3, <3>2, <3>4, <3>6, <3>7, <3>8, <3>9, <3>10
  <2>7. CASE /\ ctx.state = "NAME_NEXT" /\ Len(bytes) <= ctx.remainingName
             /\ Feed(<<y>>) /\ Ack(ins, Grown(ctx, bytes))
    <3> DEFINE d == Grown(ctx, bytes)
    <3>1. NameIn(hash, HeadEnd(ins), Len(hash), ctx) /\ ctx.remainingParams = 0
      BY <1>3, <2>7 DEF ContractFlow
    <3>2. Bytes(hash, "params") = << >>
      BY <1>3, <2>3, <2>4, <3>1, NoParams
    <3>3. hash' = Append(hash, y) /\ <<y>> \in Seq(AccountItem)
      <4> HIDE DEF y
      <4>1. Feed(<<y>>)
        BY <2>7
      <4> QED
        BY <2>4, <2>5, <4>1, FeedOne, SingletonSeq
    <3>4. d \in ContractContexts /\ NameIn(hash', HeadEnd(ins), Len(hash'), d)
      BY <1>3, <2>2, <2>4, <2>7, <3>1, <3>2, <3>3, NameGrows
    <3>5. /\ d.head = ctx.head /\ d.remainingParams = ctx.remainingParams
          /\ d.remainingName = ctx.remainingName - Len(bytes)
          /\ d.state = (IF ctx.remainingName - Len(bytes) = 0 THEN "PARAMS_FIRST" ELSE "NAME_NEXT")
      BY <1>3, <2>2, <2>7, GrownFields
    <3> HIDE DEF d, y
    <3>6. d.state \in {"NAME_NEXT", "PARAMS_FIRST"} /\ (d.state = "PARAMS_FIRST" => d.remainingName = 0)
      BY <3>5
    <3>7. Ack(ins, d) /\ Feed(<<y>>)
      BY <2>7 DEF d
    <3> QED
      BY <1>0, <1>2, <1>3, <3>1, <3>3, <3>4, <3>5, <3>6, <3>7
  <2> QED
    BY <1>0, <2>1, <2>6, <2>7
<1> QED
  BY <1>0, <1>1, <1>3, ContractNameParts

-----------------------------------------------------------------------------
(* Initializing and updating a contract: the parameters, and the whole. *)

LEMMA SubSeqOfTwo ==
    ASSUME NEW X, NEW s \in Seq(X), Len(s) >= 4
    PROVE  SubSeq(s, 3, 4) = <<s[3], s[4]>>
<1> DEFINE t == SubSeq(s, 3, 4)
           x == s[3]
           y == s[4]
           u == <<x, y>>
<1>1. x \in X /\ y \in X
  OBVIOUS
<1>2. t \in Seq(X) /\ Len(t) = 2 /\ t[1] = x /\ t[2] = y
  OBVIOUS
<1> HIDE DEF t, x, y
<1>3. u \in Seq(X) /\ Len(u) = 2 /\ u[1] = x /\ u[2] = y
  BY <1>1
<1> HIDE DEF u
<1>4. \A i \in 1 .. 2 : i = 1 \/ i = 2
  OBVIOUS
<1>5. \A i \in 1 .. 2 : t[i] = u[i]
  BY <1>2, <1>3, <1>4
<1>6. t = u
  BY <1>2, <1>3, <1>5
<1> QED
  BY <1>6 DEF t, u, x, y

LEMMA SubSeqOfThree ==
    ASSUME NEW X, NEW s \in Seq(X), Len(s) >= 5
    PROVE  SubSeq(s, 3, 5) = <<s[3], s[4], s[5]>>
<1> DEFINE t == SubSeq(s, 3, 5)
           x == s[3]
           y == s[4]
           z == s[5]
           u == <<x, y, z>>
<1>1. x \in X /\ y \in X /\ z \in X
  OBVIOUS
<1>2. t \in Seq(X) /\ Len(t) = 3 /\ t[1] = x /\ t[2] = y /\ t[3] = z
  OBVIOUS
<1> HIDE DEF t, x, y, z
<1>3. u \in Seq(X) /\ Len(u) = 3 /\ u[1] = x /\ u[2] = y /\ u[3] = z
  BY <1>1
<1> HIDE DEF u
<1>4. \A i \in 1 .. 3 : i = 1 \/ i = 2 \/ i = 3
  OBVIOUS
<1>5. \A i \in 1 .. 3 : t[i] = u[i]
  BY <1>2, <1>3, <1>4
<1>6. t = u
  BY <1>2, <1>3, <1>5
<1> QED
  BY <1>6 DEF t, u, x, y, z

\* The fields of the first packet stand where they belong.
LEMMA HeadStands ==
    ASSUME NEW ins \in ContractInss, NEW s \in Seq(AccountItem), NEW c, NEW v,
           HeadIn(ins, s, c, v), Len(s) >= HeadEnd(ins)
    PROVE  /\ s[3][2] = v
           /\ SubSeq(s, 3, 2 + Len(HeadItems(ins, v))) = HeadItems(ins, v)
           /\ 3 + Len(HeadItems(ins, v)) = HeadEnd(ins) + 1
<1>1. s[3] = <<"amount", v>> /\ s[3][2] = v
  BY DEF HeadIn
<1>2. CASE ins = INITIALIZE
  <2>1. HeadEnd(ins) = 4 /\ Len(s) >= 4
    BY <1>2, ContractNames
  <2>2. HeadItems(ins, v) = <<s[3], s[4]>>
    BY <1>1, <1>2 DEF HeadIn, HeadItems
  <2>3. Len(<<s[3], s[4]>>) = 2
    OBVIOUS
  <2>4. SubSeq(s, 3, 4) = <<s[3], s[4]>>
    BY <2>1, SubSeqOfTwo
  <2>5. 2 + Len(HeadItems(ins, v)) = 4 /\ 3 + Len(HeadItems(ins, v)) = 5
    BY <2>2, <2>3
  <2> QED
    BY <1>1, <2>1, <2>2, <2>4, <2>5
<1>3. CASE ins = UPDATE
  <2>1. HeadEnd(ins) = 5 /\ Len(s) >= 5 /\ ins # INITIALIZE
    BY <1>3, ContractNames
  <2>2. HeadItems(ins, v) = <<s[3], s[4], s[5]>>
    BY <1>1, <1>3, <2>1 DEF HeadIn, HeadItems
  <2>3. Len(<<s[3], s[4], s[5]>>) = 3
    OBVIOUS
  <2>4. SubSeq(s, 3, 5) = <<s[3], s[4], s[5]>>
    BY <2>1, SubSeqOfThree
  <2>5. 2 + Len(HeadItems(ins, v)) = 5 /\ 3 + Len(HeadItems(ins, v)) = 6
    BY <2>2, <2>3
  <2> QED
    BY <1>1, <2>1, <2>2, <2>4, <2>5
<1> QED
  BY <1>2, <1>3 DEF ContractInss

\* Where the items of a complete transcript stand.
LEMMA ContractPlaces ==
    ASSUME NEW b \in Nat, NEW k \in Nat, NEW n \in Nat, b + 1 <= k, k + 1 < n, NEW i \in 1 .. n
    PROVE  \/ i \in 1 .. b \/ i = b + 1 \/ i \in b + 2 .. k \/ i = k + 1 \/ i \in k + 2 .. n
OBVIOUS

ContractShown(c, a) ==
    HeaderPairs(a) \cup c.head \cup {NameRow(c.nameLength, c.nameDisplay), <<"payload", c.payload>>}

\* A transcript is whole when nothing of the name and the parameters is to come,
\* and the review shows all that is owed to it.
LEMMA ContractWhole ==
    ASSUME NEW ins \in ContractInss, NEW s \in Seq(AccountItem), NEW c \in ContractContexts,
           NEW a, NEW p, NEW v \in Vals, NEW k, Headed(ins, s, a, p), HeadIn(ins, s, c, v),
           NameIn(s, HeadEnd(ins), k, c), ParamsIn(s, k, c),
           c.remainingName = 0, c.remainingParams = 0
    PROVE  IsContractTransaction(s) /\ ContractRows(s) \subseteq ContractShown(c, a)
<1> DEFINE b == HeadEnd(ins)
           nb == Bytes(s, "name")
           pb == Bytes(s, "params")
<1>1. b \in {4, 5} /\ b \in Nat /\ ins # DEPLOY
  BY ContractNames
<1>2. /\ k \in Nat /\ b + 1 <= k /\ k <= Len(s)
      /\ s[b + 1] = <<"nameLength", c.nameLength>>
      /\ \A i \in b + 2 .. k : s[i][1] = "name"
      /\ c.nameLength = c.remainingName + Len(nb)
      /\ c.nameDisplay = (IF NameIsKept(c.nameLength) THEN nb ELSE << >>)
      /\ c.payload = nb \o pb
  BY DEF NameIn
<1>3. /\ k + 1 < Len(s)
      /\ s[k + 1] = <<"paramsLength", c.remainingParams + Len(pb)>>
      /\ \A i \in k + 2 .. Len(s) : s[i][1] = "params"
  BY DEF ParamsIn
<1>4. Len(nb) \in Nat /\ Len(pb) \in Nat /\ Len(s) \in Nat
  <2>1. "name" \in StreamTags /\ "params" \in StreamTags
    BY DEF StreamTags
  <2>2. nb \in Seq(Vals) /\ pb \in Seq(Vals)
    BY <2>1, BytesKnown
  <2> QED
    BY <2>2
<1>5. c.nameLength = Len(nb) /\ c.remainingParams + Len(pb) = Len(pb)
  <2> HIDE DEF nb, pb
  <2> QED
    BY <1>2, <1>4
<1>6. \A i \in 1 .. b : s[i][1] \in HeadTags
  BY HeadTagged
<1> HIDE DEF nb, pb, b
<1>7. /\ s[b + 1][1] = "nameLength" /\ s[b + 1][2] = Len(nb)
      /\ s[k + 1][1] = "paramsLength" /\ s[k + 1][2] = Len(pb)
  BY <1>2, <1>3, <1>5
<1>8. \A i \in 1 .. Len(s) :
         i \in 1 .. b \/ i = b + 1 \/ i \in b + 2 .. k \/ i = k + 1 \/ i \in k + 2 .. Len(s)
  BY <1>1, <1>2, <1>3, <1>4, ContractPlaces
<1>9. IsPart(s, "nameLength", "name")
  <2>1. b + 1 \in 1 .. Len(s) /\ k \in b + 1 .. Len(s)
    BY <1>1, <1>2, <1>4
  <2>2. \A j \in (b + 1) + 1 .. k : s[j][1] = "name"
    <3>1. (b + 1) + 1 = b + 2
      BY <1>1
    <3> QED
      BY <1>2, <3>1
  <2>3. ASSUME NEW j \in 1 .. Len(s), j < b + 1 \/ j > k
        PROVE  s[j][1] # "nameLength" /\ s[j][1] # "name"
    <3>1. j \in 1 .. b \/ j = k + 1 \/ j \in k + 2 .. Len(s)
      BY <1>1, <1>2, <1>4, <2>3
    <3> QED
      BY <1>3, <1>6, <1>7, <3>1 DEF HeadTags
  <2> QED
    BY <1>7, <2>1, <2>2, <2>3, PartAt DEF nb
<1>10. IsPart(s, "paramsLength", "params")
  <2>1. k + 1 \in 1 .. Len(s) /\ Len(s) \in k + 1 .. Len(s)
    BY <1>2, <1>3, <1>4
  <2>2. \A j \in (k + 1) + 1 .. Len(s) : s[j][1] = "params"
    <3>1. (k + 1) + 1 = k + 2
      BY <1>2
    <3> QED
      BY <1>3, <3>1
  <2>3. ASSUME NEW j \in 1 .. Len(s), j < k + 1 \/ j > Len(s)
        PROVE  s[j][1] # "paramsLength" /\ s[j][1] # "params"
    <3>1. j \in 1 .. b \/ j = b + 1 \/ j \in b + 2 .. k
      BY <1>1, <1>2, <1>4, <2>3, SMTT(30)
    <3> QED
      BY <1>2, <1>6, <1>7, <3>1 DEF HeadTags
  <2> QED
    BY <1>7, <2>1, <2>2, <2>3, PartAt DEF pb
<1>11. s[1] = <<"header", a.header>> /\ s[2] = <<"kind", ins>> /\ a.network = NetworkOf(p)
  BY DEF Headed
<1>12. Len(s) > 2 /\ Len(s) > 5 /\ Len(s) >= b /\ Len(s) \in k + 2 .. Len(s)
  BY <1>1, <1>2, <1>3, <1>4
<1>13. IsContractTransaction(s)
  <2>1. /\ s[3][2] = v
        /\ SubSeq(s, 3, 2 + Len(HeadItems(ins, v))) = HeadItems(ins, v)
        /\ 3 + Len(HeadItems(ins, v)) = b + 1
    BY <1>12, HeadStands DEF b
  <2>2. s[1][1] = "header" /\ s[2][1] = "kind" /\ s[2][2] = ins
    BY <1>11
  <2>3. s[Len(s)][1] = "params"
    BY <1>3, <1>12
  <2>4. LET head == HeadItems(s[2][2], s[3][2])
        IN  SubSeq(s, 3, 2 + Len(head)) = head /\ s[3 + Len(head)][1] = "nameLength"
    BY <1>7, <2>1, <2>2
  <2> QED
    BY <1>9, <1>10, <1>12, <2>2, <2>3, <2>4 DEF IsContractTransaction, ContractInss
<1>14. DOMAIN s = 1 .. Len(s)
  OBVIOUS
<1>15. <<"kind", DEPLOY>> \notin ItemsOf(s)
  <2>1. ASSUME NEW i \in 1 .. Len(s), s[i] = <<"kind", DEPLOY>> PROVE FALSE
    <3>1. s[i][1] = "kind" /\ s[i][2] = DEPLOY
      BY <2>1
    <3>2. i \in 1 .. b
      BY <1>2, <1>3, <1>7, <1>8, <3>1
    <3>3. s[i] = <<"kind", ins>>
      BY <3>1, <3>2, HeadTagged DEF b
    <3> QED
      BY <1>1, <3>1, <3>3
  <2> QED
    BY <1>14, <2>1 DEF ItemsOf
<1>16. Announced(s, "nameLength") = c.nameLength
  <2>1. <<"nameLength", c.nameLength>> \in ItemsOf(s)
    <3>1. b + 1 \in DOMAIN s
      BY <1>1, <1>2, <1>4, <1>14
    <3> QED
      BY <1>2, <3>1 DEF ItemsOf
  <2>2. ASSUME NEW m, <<"nameLength", m>> \in ItemsOf(s) PROVE m = c.nameLength
    <3>1. PICK i \in 1 .. Len(s) : s[i] = <<"nameLength", m>>
      BY <1>14, <2>2 DEF ItemsOf
    <3>2. s[i][1] = "nameLength" /\ s[i][2] = m
      BY <3>1
    <3>3. i = b + 1
      BY <1>2, <1>3, <1>6, <1>7, <1>8, <3>2 DEF HeadTags
    <3> QED
      BY <1>5, <1>7, <3>2, <3>3
  <2>3. c.nameLength \in 0 .. LengthMax
    BY ContractFields
  <2> QED
    BY <2>1, <2>2, <2>3 DEF Announced
<1>17. NameRow(Announced(s, "nameLength"), nb) = NameRow(c.nameLength, c.nameDisplay)
  BY <1>2, <1>16 DEF NameRow
<1>18. ASSUME NEW i \in 1 .. Len(s),
              s[i][1] \in {"header", "version", "amount", "moduleRef", "index", "subIndex"}
       PROVE  s[i] \in ContractShown(c, a)
  <2>1. i \in 1 .. b
    BY <1>2, <1>3, <1>7, <1>8, <1>18
  <2>2. /\ s[i][1] \in HeadTags
        /\ s[i][1] = "header" => s[i] = <<"header", a.header>>
        /\ s[i][1] \notin {"header", "kind"} => s[i] \in c.head
    BY <2>1, HeadTagged DEF b
  <2> QED
    BY <1>18, <2>2 DEF ContractShown, HeaderPairs
<1>19. \A x \in ItemsOf(s) :
          x[1] \in {"header", "version", "amount", "moduleRef", "index", "subIndex"} =>
              x \in ContractShown(c, a)
  BY <1>14, <1>18 DEF ItemsOf
<1>20. ContractRows(s) =
          {x \in ItemsOf(s) : x[1] \in {"header", "version", "amount", "moduleRef", "index", "subIndex"}}
             \cup {NameRow(Announced(s, "nameLength"), nb), <<"payload", nb \o pb>>}
  BY <1>15 DEF ContractRows, nb, pb
<1>21. ContractRows(s) \subseteq ContractShown(c, a)
  BY <1>2, <1>17, <1>19, <1>20 DEF ContractShown
<1> QED
  BY <1>13, <1>21

-----------------------------------------------------------------------------
(* Initializing and updating a contract: the packets with parameters. *)

ParamsDue(c, n) == IF c.state = "PARAMS_FIRST" THEN n ELSE c.remainingParams

ParamsLeft(c, n, bytes) ==
    [c EXCEPT !.payload = @ \o bytes, !.remainingParams = ParamsDue(c, n) - Len(bytes),
              !.state = IF c.state = "PARAMS_FIRST" THEN "PARAMS_NEXT" ELSE @]

ParamsFed(c, n, bytes) ==
    (IF c.state = "PARAMS_FIRST" THEN <<<<"paramsLength", n>>>> ELSE << >>) \o <<<<"params", bytes>>>>

\* How a packet with parameters may end.
ParamsEnd(ins, d) ==
    Throw \/ Ack(ins, d) \/ (d.remainingParams = 0 /\ Review(ins, d, uiContractDisplay(d)))

LEMMA ParamsLeftIs ==
    ASSUME NEW c \in ContractContexts, NEW n \in 0 .. LengthMax, NEW bytes \in Seq(Vals),
           Len(bytes) <= ParamsDue(c, n)
    PROVE  ParamsLeft(c, n, bytes) =
              IF c.state = "PARAMS_FIRST" THEN ParamsRead(ParamsOpened(c, n), bytes)
              ELSE ParamsRead(c, bytes)
<1> DEFINE t == c.payload \o bytes
           left == ParamsDue(c, n) - Len(bytes)
           st == IF c.state = "PARAMS_FIRST" THEN "PARAMS_NEXT" ELSE c.state
           d == [c EXCEPT !.payload = t, !.remainingParams = left, !.state = st]
<1>1. /\ c \in ContractRecord /\ c.payload \in Seq(Vals) /\ c.state \in ContractStates
      /\ c.remainingParams \in Nat
  BY ContractFields
<1>2. ParamsLeft(c, n, bytes) = d
  BY DEF ParamsLeft
<1>3. CASE c.state = "PARAMS_FIRST"
  <2> DEFINE e == ParamsOpened(c, n)
             f == [e EXCEPT !.payload = e.payload \o bytes, !.remainingParams = e.remainingParams - Len(bytes)]
  <2>1. ParamsRead(e, bytes) = f
    BY DEF ParamsRead
  <2>2. e.payload = c.payload /\ e.remainingParams = n
    BY ParamsOpenedKnown
  <2>3. f = [e EXCEPT !.payload = t, !.remainingParams = left]
    BY <1>3, <2>2 DEF ParamsDue
  <2>4. e = [c EXCEPT !.remainingParams = n, !.state = "PARAMS_NEXT"] /\ st = "PARAMS_NEXT"
    BY <1>3 DEF ParamsOpened
  <2> HIDE DEF t, left, st, f, e
  <2>5. [e EXCEPT !.payload = t, !.remainingParams = left] = d
    BY <1>1, <2>4 DEF ContractRecord
  <2> QED
    BY <1>2, <1>3, <2>1, <2>3, <2>5 DEF e
<1>4. CASE c.state # "PARAMS_FIRST"
  <2>1. left = c.remainingParams - Len(bytes) /\ st = c.state
    BY <1>4 DEF ParamsDue
  <2>2. ParamsRead(c, bytes) = [c EXCEPT !.payload = t, !.remainingParams = left]
    BY <2>1 DEF ParamsRead
  <2> HIDE DEF t, left
  <2>3. [c EXCEPT !.payload = t, !.remainingParams = left] = d
    BY <1>1, <2>1 DEF ContractRecord
  <2> QED
    BY <1>2, <1>4, <2>2, <2>3
<1> QED
  BY <1>3, <1>4

LEMMA ContractParamsParts ==
    ASSUME Gated, AnswerInv, Typed, FlowInv, NEW ins \in ContractInss, ContractParams(ins)
    PROVE  /\ reply # Owed /\ UNCHANGED txConst
           /\ \/ Throw /\ UNCHANGED hash
              \/ /\ latch = ins /\ ctx \in ContractContexts
                 /\ ContractFlow(ins, hash, ctx) /\ Headed(ins, hash, account, path)
                 /\ \E n \in 0 .. LengthMax, bytes \in Chunks(0) :
                       \/ /\ ctx.state = "PARAMS_FIRST" /\ Len(bytes) <= n
                          /\ Feed(<<<<"paramsLength", n>>>> \o <<<<"params", bytes>>>>)
                          /\ ParamsEnd(ins, ParamsRead(ParamsOpened(ctx, n), bytes))
                       \/ /\ ctx.state = "PARAMS_NEXT" /\ Len(bytes) <= ctx.remainingParams
                          /\ Feed(<<<<"params", bytes>>>>)
                          /\ ParamsEnd(ins, ParamsRead(ctx, bytes))
<1>1. Enters(ins) /\ UNCHANGED txConst
  BY Zenon DEF ContractParams
<1>2. /\ reply # Owed
      /\ \/ ContractView = ContractZero
         \/ /\ latch = ins /\ ContractView = ctx /\ ctx \in ContractContexts
            /\ ContractFlow(ins, hash, ctx) /\ Headed(ins, hash, account, path)
  BY <1>1, ContractFound
<1> DEFINE c == ContractView
<1>3. PICK n \in 0 .. LengthMax, bytes \in Chunks(0) :
         /\ c.state = "PARAMS_FIRST" \/ (Len(bytes) > 0 /\ n = 0)
         /\ \/ Throw /\ UNCHANGED hash
            \/ /\ MoreFits(ParamsDue(c, n), bytes)
               /\ Feed(ParamsFed(c, n, bytes))
               /\ \/ Throw
                  \/ Ack(ins, ParamsLeft(c, n, bytes))
                  \/ /\ ParamsDue(c, n) - Len(bytes) = 0
                     /\ Review(ins, ParamsLeft(c, n, bytes), uiContractDisplay(ParamsLeft(c, n, bytes)))
  BY Zenon DEF ContractParams, ParamsDue, ParamsLeft, ParamsFed
<1> HIDE DEF c
<1>4. bytes \in Seq(Vals) /\ Len(bytes) \in Nat
  BY ChunksKnown
<1>5. CASE Throw /\ UNCHANGED hash
  BY <1>1, <1>2, <1>5
<1>6. CASE ~(Throw /\ UNCHANGED hash)
  <2>1. /\ MoreFits(ParamsDue(c, n), bytes)
        /\ Feed(ParamsFed(c, n, bytes))
        /\ \/ Throw
           \/ Ack(ins, ParamsLeft(c, n, bytes))
           \/ /\ ParamsDue(c, n) - Len(bytes) = 0
              /\ Review(ins, ParamsLeft(c, n, bytes), uiContractDisplay(ParamsLeft(c, n, bytes)))
    BY <1>3, <1>6
  <2>2. Len(bytes) <= ParamsDue(c, n)
    BY <2>1 DEF MoreFits
  <2>3. ASSUME c.state # "PARAMS_FIRST" PROVE c.remainingParams # 0
    <3>1. Len(bytes) > 0 /\ ParamsDue(c, n) = c.remainingParams
      BY <1>3, <2>3 DEF ParamsDue
    <3> QED
      BY <1>4, <2>2, <3>1
  <2>4. c # ContractZero
    <3>1. ContractZero.state # "PARAMS_FIRST" /\ ContractZero.remainingParams = 0
      BY DEF ContractZero
    <3> QED
      BY <2>3, <3>1
  <2>5. /\ latch = ins /\ c = ctx /\ ctx \in ContractContexts
        /\ ContractFlow(ins, hash, ctx) /\ Headed(ins, hash, account, path)
    BY <1>2, <2>4 DEF c
  <2>6. ctx.state = "PARAMS_FIRST" \/ ctx.state = "PARAMS_NEXT"
    BY <2>3, <2>5 DEF ContractFlow, ContractStates
  <2> DEFINE d == ParamsLeft(c, n, bytes)
  <2>7. d.remainingParams = ParamsDue(c, n) - Len(bytes)
    <3>1. c \in ContractRecord
      BY <2>5, ContractFields
    <3> QED
      BY <3>1 DEF ParamsLeft, ContractRecord
  <2>8. ParamsEnd(ins, d)
    BY <2>1, <2>7, Zenon DEF ParamsEnd
  <2> HIDE DEF d
  <2>9. CASE ctx.state = "PARAMS_FIRST"
    <3>1. ParamsFed(c, n, bytes) = <<<<"paramsLength", n>>>> \o <<<<"params", bytes>>>>
      BY <2>5, <2>9 DEF ParamsFed
    <3>2. d = ParamsRead(ParamsOpened(ctx, n), bytes)
      BY <1>4, <2>2, <2>5, <2>9, ParamsLeftIs DEF d
    <3>3. ParamsDue(c, n) = n
      BY <2>5, <2>9 DEF ParamsDue
    <3> QED
      BY <1>1, <1>2, <2>1, <2>2, <2>5, <2>8, <2>9, <3>1, <3>2, <3>3, Zenon
  <2>10. CASE ctx.state = "PARAMS_NEXT"
    <3>1. ParamsFed(c, n, bytes) = <<<<"params", bytes>>>>
      <4> DEFINE t == <<<<"params", bytes>>>>
      <4>1. t \in Seq(AccountItem)
        <5>1. <<"params", bytes>> \in AccountItem
          BY <1>4, AccountItems
        <5> QED
          BY <5>1, SingletonSeq
      <4>2. ParamsFed(c, n, bytes) = << >> \o t
        BY <2>5, <2>10 DEF ParamsFed
      <4> HIDE DEF t
      <4>3. << >> \o t = t
        BY <4>1
      <4> QED
        BY <4>2, <4>3 DEF t
    <3>2. d = ParamsRead(ctx, bytes)
      BY <1>4, <2>2, <2>5, <2>10, ParamsLeftIs DEF d
    <3>3. ParamsDue(c, n) = ctx.remainingParams
      BY <2>5, <2>10 DEF ParamsDue
    <3> QED
      BY <1>1, <1>2, <2>1, <2>2, <2>5, <2>8, <2>10, <3>1, <3>2, <3>3, Zenon
  <2> QED
    BY <2>6, <2>9, <2>10
<1> QED
  BY <1>5, <1>6

\* The first packet with parameters announces them.
LEMMA ParamsOpens ==
    ASSUME NEW s \in Seq(AccountItem), NEW b \in Nat, NEW c \in ContractContexts,
           NameIn(s, b, Len(s), c), Bytes(s, "params") = << >>,
           NEW n \in 0 .. LengthMax, NEW t, t = Append(s, <<"paramsLength", n>>)
    PROVE  /\ t \in Seq(AccountItem)
           /\ NameIn(t, b, Len(s), ParamsOpened(c, n)) /\ ParamsFrom(t, Len(s), ParamsOpened(c, n))
<1> DEFINE x == <<"paramsLength", n>>
           d == ParamsOpened(c, n)
           k == Len(s)
<1>1. n \in Nat /\ x[1] = "paramsLength" /\ k \in Nat
  BY ContractsAssumption
<1>2. x \in AccountItem
  BY <1>1, AccountItems
<1>3. t = Append(s, x) /\ x[1] # "name" /\ x[1] # "params"
  BY <1>1
<1> HIDE DEF x
<1>4. /\ t \in Seq(AccountItem) /\ Len(t) = k + 1 /\ t[k + 1] = x
      /\ \A i \in 1 .. k : t[i] = s[i]
  <2>1. /\ Append(s, x) \in Seq(AccountItem) /\ Len(Append(s, x)) = Len(s) + 1
        /\ Append(s, x)[Len(s) + 1] = x /\ \A i \in 1 .. Len(s) : Append(s, x)[i] = s[i]
    BY ONLY <1>2, s \in Seq(AccountItem)
  <2> QED
    BY <1>3, <2>1
<1>5. "name" \in StreamTags /\ "params" \in StreamTags
  BY DEF StreamTags
<1>6. Bytes(t, "params") = << >> /\ Bytes(t, "name") = Bytes(s, "name")
  <2>1. Bytes(Append(s, x), "name") = BytesStep(Bytes(s, "name"), x, "name")
    BY <1>2, <1>5, BytesAppend
  <2>2. Bytes(Append(s, x), "params") = BytesStep(Bytes(s, "params"), x, "params")
    BY <1>2, <1>5, BytesAppend
  <2> QED
    BY <1>3, <2>1, <2>2 DEF BytesStep
<1>7. /\ d.nameLength = c.nameLength /\ d.remainingName = c.remainingName /\ d.remainingParams = n
      /\ d.nameDisplay = c.nameDisplay /\ d.payload = c.payload
  BY ParamsOpenedKnown
<1>8. /\ b + 1 <= k /\ s[b + 1] = <<"nameLength", c.nameLength>>
      /\ \A i \in b + 2 .. k : s[i][1] = "name"
      /\ c.nameLength = c.remainingName + Len(Bytes(s, "name"))
      /\ c.nameDisplay = (IF NameIsKept(c.nameLength) THEN Bytes(s, "name") ELSE << >>)
      /\ c.payload = Bytes(s, "name") \o Bytes(s, "params")
  BY DEF NameIn
<1> HIDE DEF d, k
<1>9. t[b + 1] = s[b + 1] /\ \A i \in b + 2 .. k : t[i] = s[i]
  <2>1. b + 1 \in 1 .. k /\ \A i \in b + 2 .. k : i \in 1 .. k
    BY <1>1, <1>8
  <2> QED
    BY <1>4, <2>1
<1>10. k <= Len(t) /\ k + 1 <= Len(t)
  BY <1>1, <1>4
<1>11. NameIn(t, b, k, d)
  BY <1>1, <1>6, <1>7, <1>8, <1>9, <1>10 DEF NameIn
<1>12. n + Len(Bytes(t, "params")) = n
  <2>1. Len(Bytes(t, "params")) = 0
    <3>1. Len(<< >>) = 0
      OBVIOUS
    <3> QED
      BY <1>6, <3>1
  <2>2. n = n + 0
    BY <1>1
  <2> QED
    BY <2>1, <2>2, Zenon
<1>13. \A i \in k + 2 .. Len(t) : t[i][1] = "params"
  BY <1>1, <1>4
<1>14. t[k + 1] = <<"paramsLength", d.remainingParams + Len(Bytes(t, "params"))>>
  BY <1>4, <1>7, <1>12 DEF x
<1>15. ParamsFrom(t, k, d)
  BY <1>10, <1>13, <1>14 DEF ParamsFrom
<1> QED
  BY <1>4, <1>11, <1>15 DEF d, k

LEMMA ContractParamsEffect ==
    ASSUME Gated, AnswerInv, Typed, FlowInv, NEW ins \in ContractInss, ContractParams(ins)
    PROVE  reply # Owed /\ PacketEffect
<1>0. reply # Owed /\ UNCHANGED txConst
  BY ContractParamsParts
<1>1. CASE Throw /\ UNCHANGED hash
  <2>1. hash' = hash
    BY <1>1
  <2> QED
    BY <1>0, <1>1, <2>1, RefusedEffect
<1>2. ASSUME latch = ins, ctx \in ContractContexts,
             ContractFlow(ins, hash, ctx), Headed(ins, hash, account, path),
             NEW items \in Seq(AccountItem), Feed(items),
             NEW d \in ContractContexts, ParamsEnd(ins, d), d.head = ctx.head,
             d.state = "PARAMS_NEXT", d.remainingName = 0,
             NEW k, NameIn(hash', HeadEnd(ins), k, d), ParamsIn(hash', k, d)
      PROVE  PacketEffect
  <2>1. CASE Throw
    BY <1>0, <1>2, <2>1, RefusedEffect
  <2>2. ASSUME latch' = ins, ctx' = d
        PROVE  /\ Typed' /\ UNCHANGED <<path, account, approved>> /\ Extended
               /\ Headed(ins, hash', account', path')
               /\ \E v \in Vals : HeadIn(ins, hash', d, v)
               /\ Len(hash') >= HeadEnd(ins) /\ hash' \in Seq(AccountItem)
               /\ d \in AccountContexts /\ d # Wiped /\ ins \in AccountInss
    BY <1>0, <1>2, <2>2, ContractGoesOn
  <2>3. CASE Ack(ins, d)
    <3>1. /\ latch' = ins /\ ctx' = d /\ reply' = Success(<< >>)
          /\ screen' = screen /\ keyPending' = keyPending
      BY <2>3 DEF Ack
    <3>2. /\ Typed' /\ UNCHANGED <<path, account, approved>> /\ Extended
          /\ Headed(ins, hash', account', path')
          /\ \E v \in Vals : HeadIn(ins, hash', d, v)
          /\ Len(hash') >= HeadEnd(ins) /\ hash' \in Seq(AccountItem)
          /\ d \in AccountContexts /\ d # Wiped /\ ins \in AccountInss
      BY <2>2, <3>1
    <3>3. k \in 1 .. Len(hash')
      <4>1. k \in Nat /\ HeadEnd(ins) + 1 <= k /\ k <= Len(hash') /\ HeadEnd(ins) \in Nat
        BY <1>2, ContractNames DEF NameIn
      <4>2. Len(hash') \in Nat
        BY <3>2
      <4> QED
        BY <4>1, <4>2
    <3>4. ContractFlow(ins, hash', d)
      BY <1>2, <3>2, <3>3 DEF ContractFlow, ContractStates
    <3>5. Flow(latch', hash', ctx', account', path', approved')
      BY <3>1, <3>2, <3>4, ContractFlows
    <3>6. Acked
      BY <3>1, <3>2, <3>5 DEF Acked
    <3>7. approved' = approved
      BY <3>2
    <3> QED
      BY <3>1, <3>2, <3>6, <3>7, Zenon DEF PacketEffect
  <2>4. CASE d.remainingParams = 0 /\ Review(ins, d, uiContractDisplay(d))
    <3>1. /\ latch' = ins /\ ctx' = d /\ reply' = Owed /\ keyPending' = keyPending
          /\ screen'.cb = "sign" /\ screen'.items = ContractShown(d, account)
      BY <2>4 DEF Review, uiContractDisplay, addAccountHeaderPairs, ContractShown
    <3>2. /\ Typed' /\ UNCHANGED <<path, account, approved>> /\ Extended
          /\ Headed(ins, hash', account', path')
          /\ \E v \in Vals : HeadIn(ins, hash', d, v)
          /\ hash' \in Seq(AccountItem)
      BY <2>2, <3>1
    <3>3. PICK v \in Vals : HeadIn(ins, hash', d, v)
      BY <3>2
    <3>4. Headed(ins, hash', account, path) /\ path' = path
      BY <3>2
    <3>5. IsContractTransaction(hash') /\ ContractRows(hash') \subseteq ContractShown(d, account)
      BY <1>2, <2>4, <3>2, <3>3, <3>4, ContractWhole
    <3>6. AccountRows(hash') = ContractRows(hash')
      <4>1. Len(hash') >= 2 /\ hash'[2] = <<"kind", ins>>
        BY <3>4 DEF Headed
      <4>2. Len(hash') \in Nat
        BY <3>2
      <4>3. ins \in {DEPLOY, INITIALIZE, UPDATE}
        BY DEF ContractInss
      <4> QED
        BY <4>1, <4>2, <4>3, RowsByKind
    <3>7. <<"network", NetworkOf(path')>> \in screen'.items
      BY <3>1, <3>4 DEF Headed, ContractShown, HeaderPairs
    <3>8. Ready(hash', path', approved' \cup screen'.items)
      BY <3>1, <3>5, <3>6, <3>7 DEF Ready, Whole
    <3>9. DrawnLast
      BY <3>1, <3>8 DEF DrawnLast
    <3>10. approved' = approved
      BY <3>2
    <3> QED
      BY <3>1, <3>2, <3>9, <3>10, Zenon DEF PacketEffect
  <2> QED
    BY <1>2, <2>1, <2>3, <2>4 DEF ParamsEnd
<1>3. CASE /\ latch = ins /\ ctx \in ContractContexts
           /\ ContractFlow(ins, hash, ctx) /\ Headed(ins, hash, account, path)
           /\ \E n \in 0 .. LengthMax, bytes \in Chunks(0) :
                 \/ /\ ctx.state = "PARAMS_FIRST" /\ Len(bytes) <= n
                    /\ Feed(<<<<"paramsLength", n>>>> \o <<<<"params", bytes>>>>)
                    /\ ParamsEnd(ins, ParamsRead(ParamsOpened(ctx, n), bytes))
                 \/ /\ ctx.state = "PARAMS_NEXT" /\ Len(bytes) <= ctx.remainingParams
                    /\ Feed(<<<<"params", bytes>>>>)
                    /\ ParamsEnd(ins, ParamsRead(ctx, bytes))
  <2>1. PICK n \in 0 .. LengthMax, bytes \in Chunks(0) :
           \/ /\ ctx.state = "PARAMS_FIRST" /\ Len(bytes) <= n
              /\ Feed(<<<<"paramsLength", n>>>> \o <<<<"params", bytes>>>>)
              /\ ParamsEnd(ins, ParamsRead(ParamsOpened(ctx, n), bytes))
           \/ /\ ctx.state = "PARAMS_NEXT" /\ Len(bytes) <= ctx.remainingParams
              /\ Feed(<<<<"params", bytes>>>>)
              /\ ParamsEnd(ins, ParamsRead(ctx, bytes))
    BY <1>3
  <2>2. bytes \in Seq(Vals) /\ Len(bytes) \in Nat /\ n \in Nat
    BY ChunksKnown, ContractsAssumption
  <2>3. PICK v \in Vals : HeadIn(ins, hash, ctx, v)
    BY <1>3 DEF ContractFlow
  <2>4. hash \in Seq(AccountItem) /\ HeadEnd(ins) \in Nat
    BY ContractNames DEF Typed
  <2> DEFINE x == <<"paramsLength", n>>
             y == <<"params", bytes>>
  <2>5. x \in AccountItem /\ y \in AccountItem
    BY <2>2, AccountItems
  <2>6. CASE /\ ctx.state = "PARAMS_FIRST" /\ Len(bytes) <= n
             /\ Feed(<<x>> \o <<y>>) /\ ParamsEnd(ins, ParamsRead(ParamsOpened(ctx, n), bytes))
    <3> DEFINE c == ParamsOpened(ctx, n)
               s == Append(hash, x)
               d == ParamsRead(c, bytes)
               k == Len(hash)
    <3>1. NameIn(hash, HeadEnd(ins), k, ctx) /\ ctx.remainingName = 0
      BY <1>3, <2>6 DEF ContractFlow
    <3>2. /\ c \in ContractContexts /\ c.remainingParams = n /\ c.remainingName = 0
          /\ c.state = "PARAMS_NEXT" /\ c.head = ctx.head
      BY <1>3, <3>1, ParamsOpenedKnown
    <3>3. Bytes(hash, "params") = << >>
      BY <1>3, <2>3, <2>4, <3>1, NoParams
    <3>4. /\ s \in Seq(AccountItem) /\ NameIn(s, HeadEnd(ins), k, c) /\ ParamsFrom(s, k, c)
      BY <1>3, <2>4, <3>1, <3>3, ParamsOpens
    <3> HIDE DEF c, x, k
    <3>5. <<x>> \o <<y>> = <<x, y>> /\ <<x, y>> \in Seq(AccountItem)
      <4> HIDE DEF y
      <4> QED
        BY <2>5, Pair
    <3>6. hash' = Append(s, y)
      <4>1. Feed(<<x, y>>)
        BY <2>6, <3>5
      <4> HIDE DEF y
      <4> QED
        BY <2>4, <2>5, <4>1, FeedTwo
    <3> HIDE DEF s
    <3>7. Len(bytes) <= c.remainingParams
      BY <2>6, <3>2
    <3>8. NameIn(hash', HeadEnd(ins), k, d) /\ ParamsIn(hash', k, d)
      BY <2>2, <2>4, <3>2, <3>4, <3>6, <3>7, ParamsGrow
    <3>9. /\ d \in ContractContexts /\ d.head = ctx.head /\ d.remainingName = 0
          /\ d.state = "PARAMS_NEXT"
      BY <2>2, <3>2, <3>7, ParamsReadKnown
    <3>10. ParamsEnd(ins, d)
      BY <2>6 DEF c
    <3>11. Feed(<<x, y>>)
      BY <2>6, <3>5
    <3> HIDE DEF d, y
    <3> QED
      BY <1>0, <1>2, <1>3, <3>5, <3>8, <3>9, <3>10, <3>11
  <2>7. CASE /\ ctx.state = "PARAMS_NEXT" /\ Len(bytes) <= ctx.remainingParams
             /\ Feed(<<y>>) /\ ParamsEnd(ins, ParamsRead(ctx, bytes))
    <3> DEFINE d == ParamsRead(ctx, bytes)
    <3>1. ctx.remainingName = 0 /\ \E k \in 1 .. Len(hash) : NameIn(hash, HeadEnd(ins), k, ctx) /\ ParamsIn(hash, k, ctx)
      BY <1>3, <2>7 DEF ContractFlow
    <3>2. PICK k \in 1 .. Len(hash) : NameIn(hash, HeadEnd(ins), k, ctx) /\ ParamsIn(hash, k, ctx)
      BY <3>1
    <3>3. ParamsFrom(hash, k, ctx)
      <4>1. k + 1 <= Len(hash)
        <5>1. k + 1 < Len(hash) /\ k \in Nat /\ Len(hash) \in Nat
          BY <2>4, <3>2 DEF ParamsIn
        <5> QED
          BY <5>1
      <4> QED
        BY <3>2, <4>1 DEF ParamsIn, ParamsFrom
    <3>4. hash' = Append(hash, y) /\ <<y>> \in Seq(AccountItem)
      <4> HIDE DEF y
      <4>1. Feed(<<y>>)
        BY <2>7
      <4> QED
        BY <2>4, <2>5, <4>1, FeedOne, SingletonSeq
    <3>5. NameIn(hash', HeadEnd(ins), k, d) /\ ParamsIn(hash', k, d)
      BY <1>3, <2>2, <2>4, <2>7, <3>2, <3>3, <3>4, ParamsGrow
    <3>6. /\ d \in ContractContexts /\ d.head = ctx.head /\ d.remainingName = 0
          /\ d.state = "PARAMS_NEXT"
      BY <1>3, <2>2, <2>7, <3>1, ParamsReadKnown
    <3> HIDE DEF d, y
    <3>7. ParamsEnd(ins, d) /\ Feed(<<y>>)
      BY <2>7 DEF d
    <3> QED
      BY <1>0, <1>2, <1>3, <3>4, <3>5, <3>6, <3>7
  <2> QED
    BY <1>0, <2>1, <2>6, <2>7
<1> QED
  BY <1>0, <1>1, <1>3, ContractParamsParts

-----------------------------------------------------------------------------
(* Protocol-level tokens. *)

LEMMA PltOwn ==
    ASSUME NEW c \in PltContexts
    PROVE  c \in AccountContexts /\ c # Wiped /\ OwnContext(PLT, c)
  BY ContextKnown DEF OwnContext, REGISTER, TOPUBLIC, DELEGATION, DEPLOY, INITIALIZE, UPDATE, PLT

LEMMA PltFlows ==
    ASSUME NEW s, NEW c, NEW a, NEW p, NEW shown, Headed(PLT, s, a, p), PltFlow(s, c)
    PROVE  Flow(PLT, s, c, a, p, shown)
  BY DEF Flow, REGISTER, TOPUBLIC, DELEGATION, DEPLOY, INITIALIZE, UPDATE, PLT

PltRecord ==
    [view : {"plt"}, state : PltStates, tokenId : Vals \cup {"none"},
     cborTotalLength : 0 .. PltMax, cborBuf : Seq(PltItems)]

LEMMA PltKnown ==
    ASSUME NEW c
    PROVE  c \in PltContexts <=> c \in PltRecord /\ Len(c.cborBuf) <= c.cborTotalLength
  BY DEF PltContexts, PltRecord

LEMMA PltFieldsKnown ==
    ASSUME NEW c \in PltContexts
    PROVE  /\ c \in PltRecord /\ Len(c.cborBuf) <= c.cborTotalLength
           /\ c.cborTotalLength \in 0 .. PltMax /\ c.cborTotalLength \in Nat
           /\ c.cborBuf \in Seq(PltItems) /\ Len(c.cborBuf) \in Nat
           /\ c.tokenId \in Vals \cup {"none"}
<1>1. c \in PltRecord /\ Len(c.cborBuf) <= c.cborTotalLength
  BY PltKnown
<1>2. /\ c.cborTotalLength \in 0 .. PltMax /\ c.cborBuf \in Seq(PltItems)
      /\ c.tokenId \in Vals \cup {"none"}
  BY <1>1 DEF PltRecord
<1>3. Len(c.cborBuf) \in Nat
  BY <1>2
<1> QED
  BY <1>1, <1>2, <1>3, PltAssumption

\* The context at its first packet: wiped, but for its state.
PltBlank == [PltZero EXCEPT !.state = "INITIAL"]

PltOpened(t, n) ==
    [view |-> "plt", state |-> "CBOR", tokenId |-> t, cborTotalLength |-> n, cborBuf |-> << >>]

LEMMA PltBlankKnown ==
    /\ PltBlank \in PltContexts /\ PltBlank.state = "INITIAL"
    /\ \A t, n : [PltBlank EXCEPT !.tokenId = t, !.cborTotalLength = n,
                                  !.cborBuf = << >>, !.state = "CBOR"] = PltOpened(t, n)
<1> DEFINE e == << >>
           b == PltBlank
<1>1. e \in Seq(PltItems) /\ Len(e) = 0 /\ 0 \in 0 .. PltMax
  BY PltAssumption
<1> HIDE DEF e
<1>2. b \in [view : {"plt"}, state : {"INITIAL"}, tokenId : {"none"}, cborTotalLength : {0}, cborBuf : {e}]
  BY DEF PltBlank, PltZero, e
<1> HIDE DEF b
<1>3. b \in PltContexts /\ b.state = "INITIAL"
  <2>1. b \in PltRecord /\ b.cborBuf = e /\ b.cborTotalLength = 0 /\ b.state = "INITIAL"
    BY <1>1, <1>2 DEF PltRecord, PltStates
  <2> QED
    BY <1>1, <2>1, PltKnown
<1>4. ASSUME NEW t, NEW n
      PROVE  [b EXCEPT !.tokenId = t, !.cborTotalLength = n, !.cborBuf = e, !.state = "CBOR"]
                = PltOpened(t, n)
  <2> DEFINE d == [b EXCEPT !.tokenId = t, !.cborTotalLength = n, !.cborBuf = e, !.state = "CBOR"]
  <2>1. d \in [view : {"plt"}, state : {"CBOR"}, tokenId : {t}, cborTotalLength : {n}, cborBuf : {e}]
    BY <1>2
  <2> HIDE DEF d
  <2>2. d = [view |-> "plt", state |-> "CBOR", tokenId |-> t, cborTotalLength |-> n, cborBuf |-> e]
    BY <2>1
  <2> QED
    BY <2>2 DEF PltOpened, d, e
<1> QED
  BY <1>3, <1>4 DEF b, e

LEMMA PltOpenedKnown ==
    ASSUME NEW t \in Vals, NEW n \in 1 .. PltMax
    PROVE  /\ PltOpened(t, n) \in PltContexts /\ PltOpened(t, n).state = "CBOR"
           /\ PltOpened(t, n).tokenId = t /\ PltOpened(t, n).cborTotalLength = n
           /\ PltOpened(t, n).cborBuf = << >>
<1> DEFINE e == << >>
           d == [view |-> "plt", state |-> "CBOR", tokenId |-> t, cborTotalLength |-> n, cborBuf |-> e]
<1>1. e \in Seq(PltItems) /\ Len(e) = 0 /\ n \in 0 .. PltMax /\ n \in Nat /\ 0 <= n
  BY PltAssumption
<1>2. PltOpened(t, n) = d
  BY DEF PltOpened
<1> HIDE DEF e
<1>3. /\ d \in PltRecord /\ d.state = "CBOR" /\ d.tokenId = t /\ d.cborTotalLength = n
      /\ d.cborBuf = e
  BY <1>1 DEF PltRecord, PltStates
<1> HIDE DEF d
<1>4. d \in PltContexts
  BY <1>1, <1>3, PltKnown
<1> QED
  BY <1>2, <1>3, <1>4 DEF e

\* What a packet finds: a fresh context, an empty one, or an open flow.
LEMMA PltFound ==
    ASSUME Gated, AnswerInv, Typed, FlowInv, Enters(PLT)
    PROVE  /\ reply # Owed
           /\ \/ latch = NONE /\ PltView = PltBlank
              \/ PltView.state = "zero"
              \/ /\ latch = PLT /\ PltView = ctx /\ ctx \in PltContexts /\ ctx.state = "CBOR"
                 /\ PltFlow(hash, ctx) /\ Headed(PLT, hash, account, path)
<1>1. PLT \in AccountInss
  BY NamesDiffer
<1>2. /\ reply # Owed
      /\ \/ latch = NONE /\ IsInitialCall /\ Union = Wiped
         \/ latch = PLT /\ ~IsInitialCall /\ Union = ctx /\ (ctx # Wiped => OwnContext(PLT, ctx))
  BY <1>1, UnionKnown
<1>3. CASE latch = NONE /\ IsInitialCall /\ Union = Wiped
  BY <1>2, <1>3 DEF PltView, PltUnion, PltBlank
<1>4. CASE latch = PLT /\ ~IsInitialCall /\ Union = ctx /\ ctx = Wiped
  <2>1. PltView = PltZero
    BY <1>4 DEF PltView, PltUnion
  <2> QED
    BY <1>2, <2>1 DEF PltZero
<1>5. CASE latch = PLT /\ ~IsInitialCall /\ Union = ctx /\ ctx # Wiped
  <2>1. PltView = ctx /\ ctx \in PltContexts
    BY <1>2, <1>5, NamesDiffer DEF PltView, PltUnion, OwnContext
  <2>2. Flow(PLT, hash, ctx, account, path, approved)
    BY <1>1, <1>2, <1>5, OpenFlow
  <2>3. PltFlow(hash, ctx) /\ Headed(PLT, hash, account, path)
    BY <2>2 DEF Flow
  <2> QED
    BY <1>2, <1>5, <2>1, <2>3 DEF PltFlow
<1> QED
  BY <1>2, <1>3, <1>4, <1>5

LEMMA PltWrongEffect ==
    ASSUME Gated, AnswerInv, Typed, FlowInv, PltWrong
    PROVE  reply # Owed /\ PacketEffect
<1>1. Enters(PLT) /\ send_rejection(PltBlank) /\ UNCHANGED noFlow
  BY DEF PltWrong, plt_refuse, PltBlank
<1>2. reply # Owed
  BY <1>1, PltFound
<1>3. PltBlank \in AccountContexts
  BY PltBlankKnown, PltOwn
<1>4. UNCHANGED txConst /\ hash' = hash
  BY <1>1 DEF noFlow, txConst
<1> QED
  BY <1>1, <1>2, <1>3, <1>4, RefusedEffect

PltKind == <<<<"kind", PLT>>>>
PltItemsOf(t, n) == PltKind \o <<<<"token", t>>, <<"cborLength", n>>>>

LEMMA PltItemsKnown ==
    ASSUME NEW t \in Vals, NEW n \in Nat
    PROVE  /\ PltItemsOf(t, n) \in Seq(AccountItem) /\ Len(PltItemsOf(t, n)) = 3
           /\ PltItemsOf(t, n)[1] = <<"kind", PLT>> /\ PltItemsOf(t, n)[2] = <<"token", t>>
           /\ PltItemsOf(t, n)[3] = <<"cborLength", n>>
           /\ PltKind \in Seq(AccountItem)
<1> DEFINE x == <<"kind", PLT>>
           y == <<"token", t>>
           z == <<"cborLength", n>>
<1>1. x \in AccountItem /\ y \in AccountItem /\ z \in AccountItem
  <2>1. "token" \in ValueTags
    BY DEF ValueTags
  <2> QED
    BY <2>1, NamesDiffer, AccountItems, Zenon
<1> HIDE DEF x, y, z
<1>2. /\ <<x>> \in Seq(AccountItem) /\ <<x>> \o <<y, z>> \in Seq(AccountItem)
      /\ Len(<<x>> \o <<y, z>>) = 3 /\ (<<x>> \o <<y, z>>)[1] = x
      /\ (<<x>> \o <<y, z>>)[2] = y /\ (<<x>> \o <<y, z>>)[3] = z
  BY <1>1
<1> QED
  BY <1>2 DEF PltItemsOf, PltKind, x, y, z

LEMMA PltInitEffect ==
    ASSUME Gated, AnswerInv, Typed, FlowInv, PltInit
    PROVE  reply # Owed /\ PacketEffect
<1>1. Enters(PLT) /\ PltView.state = "INITIAL"
  BY Zenon DEF PltInit
<1>2. reply # Owed /\ PltView = PltBlank /\ PLT \in AccountInss
  BY <1>1, PltFound, NamesDiffer
<1>3. PICK h \in Headers, p \in Paths :
         \/ HeaderThrows(h, p, PltKind)
         \/ \E t \in Vals, n \in 0 .. PltMax + 1 :
               \/ /\ n \in 1 .. PltMax
                  /\ hashAccountTransactionHeaderAndKind(h, p, PltItemsOf(t, n))
                  /\ Ack(PLT, [PltBlank EXCEPT !.tokenId = t, !.cborTotalLength = n,
                                               !.cborBuf = << >>, !.state = "CBOR"])
               \/ /\ \E k \in 1 .. 3 :
                        hashAccountTransactionHeaderAndKind(h, p, SubSeq(PltItemsOf(t, n), 1, k))
                  /\ plt_refuse
  BY <1>2, Zenon DEF PltInit, PltKind, PltItemsOf
<1>4. CASE HeaderThrows(h, p, PltKind)
  <2>1. PltKind \in Seq(AccountItem)
    <3>1. <<"kind", PLT>> \in AccountItem
      BY <1>2, AccountItems
    <3> QED
      BY <3>1, SingletonSeq DEF PltKind
  <2> QED
    BY <1>2, <1>4, <2>1, HeaderThrowsEffect
<1>5. ASSUME NEW t \in Vals, NEW n \in 1 .. PltMax,
             hashAccountTransactionHeaderAndKind(h, p, PltItemsOf(t, n)),
             Ack(PLT, PltOpened(t, n))
      PROVE  PacketEffect
  <2> DEFINE items == PltItemsOf(t, n)
  <2>1. n \in Nat
    OBVIOUS
  <2>2. /\ items \in Seq(AccountItem) /\ Len(items) = 3 /\ items[1] = <<"kind", PLT>>
        /\ items[2] = <<"token", t>> /\ items[3] = <<"cborLength", n>>
    BY <2>1, PltItemsKnown
  <2> HIDE DEF items
  <2>3. /\ latch' = PLT /\ ctx' = PltOpened(t, n) /\ reply' = Success(<< >>)
        /\ screen' = screen /\ keyPending' = keyPending
    BY <1>5 DEF Ack
  <2>4. /\ ctx' \in PltContexts /\ ctx'.state = "CBOR" /\ ctx'.tokenId = t
        /\ ctx'.cborTotalLength = n /\ ctx'.cborBuf = << >>
    BY <2>3, PltOpenedKnown
  <2>5. ctx' \in AccountContexts /\ ctx' # Wiped /\ OwnContext(PLT, ctx')
    BY <2>4, PltOwn
  <2>6. Len(items) > 0 /\ hashAccountTransactionHeaderAndKind(h, p, items)
    BY <1>5, <2>2 DEF items
  <2>7. /\ Typed' /\ approved' = {} /\ path' = p
        /\ Headed(PLT, hash', account', p)
        /\ hash' \in Seq(AccountItem) /\ Len(hash') = Len(items) + 1
        /\ \A i \in 1 .. Len(items) : hash'[i + 1] = items[i]
    BY <1>2, <2>2, <2>3, <2>5, <2>6, BegunTypes, Zenon
  <2>8. Len(hash') = 4 /\ hash'[3] = <<"token", t>> /\ hash'[4] = <<"cborLength", n>>
    <3>1. 2 \in 1 .. Len(items) /\ 3 \in 1 .. Len(items)
      BY <2>2
    <3>2. hash'[2 + 1] = items[2] /\ hash'[3 + 1] = items[3]
      BY <2>7, <3>1
    <3> QED
      BY <2>2, <2>7, <3>2
  <2>9. PltFlow(hash', ctx')
    <3>1. Len(ctx'.cborBuf) = 0
      <4>1. Len(<< >>) = 0
        OBVIOUS
      <4> QED
        BY <2>4, <4>1
    <3>2. Len(hash') = 4 + Len(ctx'.cborBuf)
      BY <2>8, <3>1
    <3>3. \A i \in 1 .. Len(ctx'.cborBuf) : FALSE
      BY <3>1
    <3> QED
      BY <2>4, <2>8, <3>2, <3>3 DEF PltFlow
  <2>10. Flow(latch', hash', ctx', account', path', approved')
    BY <2>3, <2>7, <2>9, PltFlows
  <2>11. Acked
    BY <1>2, <2>3, <2>5, <2>10 DEF Acked
  <2> QED
    BY <2>3, <2>7, <2>11, Zenon DEF PacketEffect
<1>6. ASSUME NEW t \in Vals, NEW n \in 0 .. PltMax + 1, NEW k \in 1 .. 3,
             hashAccountTransactionHeaderAndKind(h, p, SubSeq(PltItemsOf(t, n), 1, k)),
             plt_refuse
      PROVE  PacketEffect
  <2>1. n \in Nat
    BY PltAssumption
  <2> DEFINE all == PltItemsOf(t, n)
             items == SubSeq(all, 1, k)
  <2>2. all \in Seq(AccountItem) /\ Len(all) = 3
    BY <2>1, PltItemsKnown
  <2> HIDE DEF all
  <2>3. items \in Seq(AccountItem)
    <3>1. k \in 0 .. Len(all)
      BY <2>2
    <3> QED
      BY <2>2, <3>1, PrefixOfSeq
  <2>4. hashAccountTransactionHeaderAndKind(h, p, items)
    BY <1>6 DEF all
  <2> HIDE DEF items
  <2>5. <<"header", h>> \in AccountItem
    BY AccountItems
  <2>6. hash' \in Seq(AccountItem)
    BY <2>3, <2>4, <2>5, HeadTypes
  <2>7. path' = p /\ account' = AccountSender(h, p) /\ approved' = {}
    BY <2>4 DEF hashAccountTransactionHeaderAndKind
  <2>8. path' \in Paths \cup {NoPath} /\ account' \in AccountTexts
    BY <2>7, HeaderTexts
  <2>9. latch' = NONE /\ ctx' = PltBlank /\ reply' = Refused /\ UNCHANGED <<screen, keyPending>>
    BY <1>6 DEF plt_refuse, send_rejection, PltBlank
  <2>10. ctx' \in AccountContexts \cup {Wiped}
    BY <2>9, PltBlankKnown, PltOwn
  <2> QED
    BY <2>6, <2>7, <2>8, <2>9, <2>10, ClosedEffect
<1> QED
  BY <1>2, <1>3, <1>4, <1>5, <1>6, PltBlankKnown

-----------------------------------------------------------------------------
(* Protocol-level tokens: the payload. *)

LEMMA PltChunkKnown ==
    ASSUME NEW chunk \in PltChunks
    PROVE  chunk \in Seq(PltItems) /\ Len(chunk) \in Nat /\ DOMAIN chunk = 1 .. Len(chunk)
<1>1. PICK n \in 1 .. PltChunkMax : chunk \in [1 .. n -> PltItems]
  BY Zenon DEF PltChunks
<1>2. n \in Nat
  BY <1>1
<1>3. chunk \in Seq(PltItems) /\ Len(chunk) = n /\ DOMAIN chunk = 1 .. n
  BY <1>1, <1>2
<1> QED
  BY <1>2, <1>3

\* The items a chunk feeds.
PltFed(chunk) == [i \in DOMAIN chunk |-> <<"plt", chunk[i]>>]

LEMMA PltFedKnown ==
    ASSUME NEW chunk \in PltChunks
    PROVE  /\ PltFed(chunk) \in Seq(AccountItem) /\ Len(PltFed(chunk)) = Len(chunk)
           /\ \A i \in 1 .. Len(chunk) : PltFed(chunk)[i] = <<"plt", chunk[i]>>
<1>1. chunk \in Seq(PltItems) /\ Len(chunk) \in Nat /\ DOMAIN chunk = 1 .. Len(chunk)
  BY PltChunkKnown
<1> DEFINE n == Len(chunk)
<1>2. \A i \in 1 .. n : chunk[i] \in PltItems
  BY <1>1
<1>3. \A i \in 1 .. n : <<"plt", chunk[i]>> \in AccountItem
  BY <1>2, AccountItems
<1>4. PltFed(chunk) = [i \in 1 .. n |-> <<"plt", chunk[i]>>]
  BY <1>1 DEF PltFed
<1> HIDE DEF n
<1>5. n \in Nat
  BY <1>1 DEF n
<1>6. PltFed(chunk) \in [1 .. n -> AccountItem]
  BY <1>3, <1>4
<1>7. PltFed(chunk) \in Seq(AccountItem) /\ Len(PltFed(chunk)) = n
  BY <1>5, <1>6
<1>8. \A i \in 1 .. n : PltFed(chunk)[i] = <<"plt", chunk[i]>>
  BY <1>4
<1> QED
  BY <1>7, <1>8 DEF n

PltGrown(c, chunk) == [c EXCEPT !.cborBuf = @ \o chunk]

LEMMA PltGrownKnown ==
    ASSUME NEW c \in PltContexts, NEW chunk \in Seq(PltItems), Len(chunk) \in Nat,
           PltFits(c, Len(chunk)), c.state = "CBOR"
    PROVE  /\ PltGrown(c, chunk) \in PltContexts /\ PltGrown(c, chunk).state = "CBOR"
           /\ PltGrown(c, chunk).cborBuf = c.cborBuf \o chunk
           /\ PltGrown(c, chunk).cborTotalLength = c.cborTotalLength
           /\ PltGrown(c, chunk).tokenId = c.tokenId
           /\ Len(c.cborBuf \o chunk) = Len(c.cborBuf) + Len(chunk)
<1> DEFINE b == c.cborBuf \o chunk
           d == [c EXCEPT !.cborBuf = b]
<1>1. /\ c \in PltRecord /\ Len(c.cborBuf) <= c.cborTotalLength /\ c.cborTotalLength \in Nat
      /\ c.cborBuf \in Seq(PltItems) /\ Len(c.cborBuf) \in Nat
  BY PltFieldsKnown
<1>2. b \in Seq(PltItems) /\ Len(b) = Len(c.cborBuf) + Len(chunk)
  BY <1>1
<1>3. PltGrown(c, chunk) = d
  BY DEF PltGrown
<1>4. Len(b) <= c.cborTotalLength
  <2>1. Len(chunk) <= c.cborTotalLength - Len(c.cborBuf)
    BY DEF PltFits
  <2> QED
    BY <1>1, <1>2, <2>1
<1> HIDE DEF b
<1>5. /\ d \in PltRecord /\ d.state = "CBOR" /\ d.cborBuf = b
      /\ d.cborTotalLength = c.cborTotalLength /\ d.tokenId = c.tokenId
  BY <1>1, <1>2 DEF PltRecord
<1> HIDE DEF d
<1>6. d \in PltContexts
  BY <1>4, <1>5, PltKnown
<1> QED
  BY <1>2, <1>3, <1>5, <1>6 DEF b

\* The payload of the transcript is what the buffer holds.
LEMMA PltPayload ==
    ASSUME NEW s \in Seq(AccountItem), NEW c \in PltContexts, PltFlow(s, c)
    PROVE  PayloadOf(s) = c.cborBuf
<1> DEFINE b == c.cborBuf
<1>1. b \in Seq(PltItems) /\ Len(b) \in Nat
  BY PltFieldsKnown
<1>2. Len(s) = 4 + Len(b) /\ \A i \in 1 .. Len(b) : s[4 + i] = <<"plt", b[i]>>
  BY DEF PltFlow
<1> HIDE DEF b
<1>3. Len(s) - 4 = Len(b)
  BY <1>1, <1>2
<1>4. \A i \in 1 .. Len(b) : s[i + 4][2] = b[i]
  <2>1. ASSUME NEW i \in 1 .. Len(b) PROVE s[i + 4][2] = b[i]
    <3>1. i + 4 = 4 + i
      BY <1>1
    <3> QED
      BY <1>2, <3>1
  <2> QED
    BY <2>1
<1>5. PayloadOf(s) = [i \in 1 .. Len(b) |-> b[i]]
  BY <1>3, <1>4 DEF PayloadOf
<1>6. b = [i \in 1 .. Len(b) |-> b[i]]
  BY <1>1
<1> QED
  BY <1>5, <1>6 DEF b

LEMMA PltItemKnown ==
    ASSUME NEW x \in PltItems, x[1] = "op"
    PROVE  x[2] \in KnownOps
<1>1. CASE x \in {"op"} \X PltOps
  BY <1>1, PltAssumption
<1>2. CASE x \in PltFields \X PltVals
  BY <1>2, PltAssumption DEF FieldNames
<1>3. CASE x \in {<<"other", "other">>}
  BY <1>3
<1> QED
  BY <1>1, <1>2, <1>3 DEF PltItems

\* A payload that parses is one operation with the fields its kind needs.
LEMMA ParsedPayload ==
    ASSUME NEW b \in Seq(PltItems), Len(b) > 0, parse_plt_cbor(b)
    PROVE  /\ {i \in DOMAIN b : b[i][1] = "op"} = {1}
           /\ ~Holds(b, {"other"})
           /\ \A f \in FieldsOf(OpOf(b)) \ {"memo"} : Holds(b, RowsNamed(f))
           /\ OpOf(b) \in KnownOps
<1>1. Len(b) \in Nat /\ DOMAIN b = 1 .. Len(b) /\ b[1] \in PltItems /\ 1 \in DOMAIN b
  OBVIOUS
<1>2. /\ b[1][1] = "op" /\ \A i \in 2 .. Len(b) : b[i][1] \in FieldNames
      /\ OpOf(b) \in AmountOps => Holds(b, {"amount"})
      /\ OpOf(b) \in AddressOps => Holds(b, Address)
  BY DEF parse_plt_cbor, RequiredFieldsSeen
<1>3. \A i \in DOMAIN b : i = 1 \/ i \in 2 .. Len(b)
  BY <1>1
<1>4. \A i \in DOMAIN b : b[i][1] # "other" /\ (b[i][1] = "op" => i = 1)
  BY <1>2, <1>3 DEF FieldNames
<1>5. OpOf(b) \in KnownOps
  BY <1>1, <1>2, PltItemKnown DEF OpOf
<1>6. ASSUME NEW f \in FieldsOf(OpOf(b)) \ {"memo"} PROVE Holds(b, RowsNamed(f))
  <2>1. CASE OpOf(b) = "transfer"
    <3>1. f = "amount" \/ f = "recipient"
      BY <1>6, <2>1 DEF FieldsOf, ListOps
    <3> QED
      BY <1>2, <2>1, <3>1 DEF AmountOps, AddressOps, RowsNamed, Address
  <2>2. CASE OpOf(b) \in {"mint", "burn"}
    <3>1. f = "amount"
      BY <1>6, <2>2 DEF FieldsOf, ListOps
    <3> QED
      BY <1>2, <2>2, <3>1 DEF AmountOps, RowsNamed, Address
  <2>3. CASE OpOf(b) \in ListOps
    <3>1. f = "target"
      BY <1>6, <2>3 DEF FieldsOf, ListOps
    <3> QED
      BY <1>2, <2>3, <3>1 DEF AddressOps, RowsNamed, Address
  <2>4. CASE OpOf(b) \in {"pause", "unpause"}
    BY <1>6, <2>4 DEF FieldsOf, ListOps
  <2> QED
    BY <1>5, <2>1, <2>2, <2>3, <2>4 DEF KnownOps, AmountOps
<1>7. {i \in DOMAIN b : b[i][1] = "op"} = {1}
  BY <1>1, <1>2, <1>4
<1>8. ~Holds(b, {"other"})
  BY <1>4 DEF Holds
<1> QED
  BY <1>5, <1>6, <1>7, <1>8

\* The review of a payload that parses shows the rows owed to it.
LEMMA PltShows ==
    ASSUME NEW s \in Seq(AccountItem), NEW c \in PltContexts, NEW a, NEW p, PltFlow(s, c),
           Headed(PLT, s, a, p), Len(c.cborBuf) > 0, parse_plt_cbor(c.cborBuf)
    PROVE  PltRows(s) \subseteq startPltDisplay(c, a).items
<1> DEFINE b == c.cborBuf
           shown == startPltDisplay(c, a).items
<1>1. b \in Seq(PltItems) /\ Len(b) \in Nat
  BY PltFieldsKnown
<1>2. PayloadOf(s) = b /\ OpOf(b) \in KnownOps
  BY <1>1, PltPayload, ParsedPayload
<1>3. /\ Len(s) = 4 + Len(b) /\ s[3] = <<"token", c.tokenId>> /\ s[4][1] = "cborLength"
      /\ \A i \in 1 .. Len(b) : s[4 + i] = <<"plt", b[i]>>
      /\ s[1] = <<"header", a.header>> /\ s[2][1] = "kind"
  BY SMTT(30) DEF PltFlow, Headed
<1>4. /\ HeaderPairs(a) \subseteq shown /\ <<"token", c.tokenId>> \in shown
      /\ <<"op", OpOf(b)>> \in shown
      /\ OpOf(b) \in AmountOps => <<"amount", LastOf(b, {"amount"})>> \in shown
      /\ OpOf(b) \in AddressOps => <<"address", LastOf(b, Address)>> \in shown
      /\ OpOf(b) = "transfer" => MemoRow(b) \subseteq shown
  BY DEF startPltDisplay
<1> HIDE DEF b, shown
<1>5. ASSUME NEW i \in 1 .. Len(s), s[i][1] \in {"header", "token"} PROVE s[i] \in shown
  <2>1. i = 1 \/ i = 2 \/ i = 3 \/ i = 4 \/ (i - 4 \in 1 .. Len(b) /\ 4 + (i - 4) = i)
    BY <1>1, <1>3
  <2>2. i - 4 \in 1 .. Len(b) /\ 4 + (i - 4) = i => s[i][1] = "plt"
    BY <1>3
  <2>3. i = 1 \/ i = 3
    BY <1>3, <1>5, <2>1, <2>2
  <2>4. <<"header", a.header>> \in shown
    BY <1>4 DEF HeaderPairs
  <2> QED
    BY <1>3, <1>4, <2>3, <2>4
<1>6. ASSUME NEW f \in FieldsOf(OpOf(b)), Holds(b, RowsNamed(f))
      PROVE  <<RowName(f), LastOf(b, RowsNamed(f))>> \in shown
  <2>1. CASE OpOf(b) = "transfer"
    <3>1. f = "amount" \/ f = "recipient" \/ f = "memo"
      BY <1>6, <2>1 DEF FieldsOf, ListOps
    <3>2. CASE f = "amount"
      BY <1>4, <2>1, <3>2 DEF AmountOps, RowsNamed, RowName, Address
    <3>3. CASE f = "recipient"
      BY <1>4, <2>1, <3>3 DEF AddressOps, RowsNamed, RowName, Address
    <3>4. CASE f = "memo"
      <4>1. RowName(f) = "memo" /\ RowsNamed(f) = {"memo"}
        BY <3>4 DEF RowsNamed, RowName, Address
      <4>2. MemoRow(b) = {<<"memo", LastOf(b, {"memo"})>>}
        BY <1>6, <4>1 DEF MemoRow
      <4> QED
        BY <1>4, <2>1, <4>1, <4>2
    <3> QED
      BY <3>1, <3>2, <3>3, <3>4
  <2>2. CASE OpOf(b) \in {"mint", "burn"}
    <3>1. f = "amount"
      BY <1>6, <2>2 DEF FieldsOf, ListOps
    <3> QED
      BY <1>4, <2>2, <3>1 DEF AmountOps, RowsNamed, RowName, Address
  <2>3. CASE OpOf(b) \in ListOps
    <3>1. f = "target"
      BY <1>6, <2>3 DEF FieldsOf, ListOps
    <3> QED
      BY <1>4, <2>3, <3>1 DEF AddressOps, RowsNamed, RowName, Address
  <2>4. CASE OpOf(b) \in {"pause", "unpause"}
    BY <1>6, <2>4 DEF FieldsOf, ListOps
  <2> QED
    BY <1>2, <2>1, <2>2, <2>3, <2>4 DEF KnownOps, AmountOps
<1>7. DOMAIN s = 1 .. Len(s)
  OBVIOUS
<1>8. \A x \in ItemsOf(s) : x[1] \in {"header", "token"} => x \in shown
  BY <1>5, <1>7 DEF ItemsOf
<1>9. ASSUME NEW x \in PltRows(s) PROVE x \in shown
  <2>1. \/ x \in ItemsOf(s) /\ x[1] \in {"header", "token"}
        \/ x = <<"op", OpOf(b)>>
        \/ \E f \in FieldsOf(OpOf(b)) :
              Holds(b, RowsNamed(f)) /\ x = <<RowName(f), LastOf(b, RowsNamed(f))>>
    BY <1>2, <1>9, Zenon DEF PltRows
  <2> QED
    BY <1>4, <1>6, <1>8, <2>1
<1> QED
  BY <1>9 DEF shown

\* A transcript is whole when its payload parses and is as long as announced.
LEMMA PltWhole ==
    ASSUME NEW s \in Seq(AccountItem), NEW c \in PltContexts, NEW a, NEW p, PltFlow(s, c),
           Headed(PLT, s, a, p), Len(c.cborBuf) > 0, parse_plt_cbor(c.cborBuf),
           Len(c.cborBuf) = c.cborTotalLength
    PROVE  IsPlt(s)
<1> DEFINE b == c.cborBuf
<1>1. b \in Seq(PltItems) /\ Len(b) \in Nat
  BY PltFieldsKnown
<1>2. PayloadOf(s) = b
  BY PltPayload
<1>3. /\ {i \in DOMAIN b : b[i][1] = "op"} = {1}
      /\ ~Holds(b, {"other"})
      /\ \A f \in FieldsOf(OpOf(b)) \ {"memo"} : Holds(b, RowsNamed(f))
  BY <1>1, ParsedPayload
<1>4. /\ Len(s) = 4 + Len(b) /\ s[3] = <<"token", c.tokenId>> /\ s[4] = <<"cborLength", Len(b)>>
      /\ \A i \in 1 .. Len(b) : s[4 + i] = <<"plt", b[i]>>
      /\ s[1] = <<"header", a.header>> /\ s[2] = <<"kind", PLT>>
  BY DEF PltFlow, Headed
<1>5. Len(b) > 0
  OBVIOUS
<1> HIDE DEF b
<1>6. Len(s) >= 5
  BY <1>1, <1>4, <1>5
<1>7. ASSUME NEW i \in 5 .. Len(s) PROVE s[i][1] = "plt"
  <2>1. i - 4 \in 1 .. Len(b) /\ 4 + (i - 4) = i
    BY <1>1, <1>4
  <2>2. s[4 + (i - 4)] = <<"plt", b[i - 4]>>
    BY <1>4, <2>1
  <2>3. s[i] = <<"plt", b[i - 4]>>
    BY <2>1, <2>2, Zenon
  <2> QED
    BY <2>3
<1>8. s[1][1] = "header" /\ s[3][1] = "token"
  BY <1>4
<1> QED
  BY <1>2, <1>3, <1>4, <1>6, <1>7, <1>8 DEF IsPlt

LEMMA PltContEffect ==
    ASSUME Gated, AnswerInv, Typed, FlowInv, PltCont
    PROVE  reply # Owed /\ PacketEffect
<1>1. Enters(PLT) /\ PltView.state = "CBOR" /\ UNCHANGED txConst
  BY Zenon DEF PltCont
<1>2. /\ reply # Owed /\ latch = PLT /\ PltView = ctx /\ ctx \in PltContexts
      /\ PltFlow(hash, ctx) /\ Headed(PLT, hash, account, path) /\ ctx.state = "CBOR"
  BY <1>1, PltFound, PltBlankKnown
<1>3. PICK chunk \in PltChunks :
         \/ plt_refuse /\ UNCHANGED hash
         \/ /\ PltFits(ctx, Len(chunk)) /\ Feed(PltFed(chunk))
            /\ \/ Ack(PLT, PltGrown(ctx, chunk))
               \/ plt_refuse
               \/ /\ Len(PltGrown(ctx, chunk).cborBuf) = ctx.cborTotalLength
                  /\ parse_plt_cbor(PltGrown(ctx, chunk).cborBuf)
                  /\ Review(PLT, PltGrown(ctx, chunk), startPltDisplay(PltGrown(ctx, chunk), account))
  BY <1>2, Zenon DEF PltCont, PltFed, PltGrown
<1>4. PltBlank \in AccountContexts /\ (plt_refuse <=> send_rejection(PltBlank)) /\ PLT \in AccountInss
  BY PltBlankKnown, PltOwn, NamesDiffer DEF plt_refuse, PltBlank
<1>5. CASE plt_refuse /\ UNCHANGED hash
  <2>1. hash' = hash
    BY <1>5
  <2> QED
    BY <1>1, <1>2, <1>4, <1>5, <2>1, RefusedEffect
<1> DEFINE d == PltGrown(ctx, chunk)
           items == PltFed(chunk)
<1>6. chunk \in Seq(PltItems) /\ Len(chunk) \in Nat /\ DOMAIN chunk = 1 .. Len(chunk)
  BY PltChunkKnown
<1>7. /\ items \in Seq(AccountItem) /\ Len(items) = Len(chunk)
      /\ \A i \in 1 .. Len(chunk) : items[i] = <<"plt", chunk[i]>>
  BY PltFedKnown
<1> HIDE DEF items
<1>8. CASE Feed(items) /\ plt_refuse
  BY <1>1, <1>2, <1>4, <1>7, <1>8, RefusedEffect
<1>9. ASSUME PltFits(ctx, Len(chunk))
      PROVE  /\ d \in PltContexts /\ d.state = "CBOR" /\ d.cborBuf = ctx.cborBuf \o chunk
             /\ d.cborTotalLength = ctx.cborTotalLength /\ d.tokenId = ctx.tokenId
             /\ Len(ctx.cborBuf \o chunk) = Len(ctx.cborBuf) + Len(chunk)
             /\ d \in AccountContexts /\ d # Wiped /\ OwnContext(PLT, d)
  <2>1. /\ d \in PltContexts /\ d.state = "CBOR" /\ d.cborBuf = ctx.cborBuf \o chunk
        /\ d.cborTotalLength = ctx.cborTotalLength /\ d.tokenId = ctx.tokenId
        /\ Len(ctx.cborBuf \o chunk) = Len(ctx.cborBuf) + Len(chunk)
    BY <1>2, <1>6, <1>9, PltGrownKnown
  <2> QED
    BY <2>1, PltOwn
<1> HIDE DEF d
<1>10. ASSUME PltFits(ctx, Len(chunk)), Feed(items), latch' = PLT, ctx' = d
       PROVE  /\ Typed' /\ UNCHANGED <<path, account, approved>> /\ Extended
              /\ Headed(PLT, hash', account', path') /\ PltFlow(hash', d)
              /\ hash' \in Seq(AccountItem)
  <2>1. /\ d \in PltContexts /\ d.state = "CBOR" /\ d.cborBuf = ctx.cborBuf \o chunk
        /\ d.cborTotalLength = ctx.cborTotalLength /\ d.tokenId = ctx.tokenId
        /\ Len(ctx.cborBuf \o chunk) = Len(ctx.cborBuf) + Len(chunk)
        /\ d \in AccountContexts /\ d # Wiped /\ OwnContext(PLT, d)
    BY <1>9, <1>10
  <2>2. /\ Typed' /\ UNCHANGED <<path, account, approved>> /\ Extended
        /\ hash \in Seq(AccountItem) /\ hash' \in Seq(AccountItem)
        /\ Len(hash') = Len(hash) + Len(items)
        /\ \A i \in 1 .. Len(hash) : hash'[i] = hash[i]
        /\ \A i \in 1 .. Len(items) : hash'[Len(hash) + i] = items[i]
    BY <1>1, <1>4, <1>7, <1>10, <2>1, ContinuedTypes
  <2> DEFINE b == ctx.cborBuf
             e == d.cborBuf
             m == Len(chunk)
  <2>3. b \in Seq(PltItems) /\ Len(b) \in Nat /\ m \in Nat
    BY <1>2, <1>6, PltFieldsKnown
  <2>4. /\ Len(hash) = 4 + Len(b) /\ hash[3] = <<"token", ctx.tokenId>>
        /\ hash[4] = <<"cborLength", ctx.cborTotalLength>>
        /\ \A i \in 1 .. Len(b) : hash[4 + i] = <<"plt", b[i]>>
    BY <1>2 DEF PltFlow
  <2>5. /\ Len(e) = Len(b) + m
        /\ \A i \in 1 .. Len(b) : e[i] = b[i]
        /\ \A i \in 1 .. m : e[Len(b) + i] = chunk[i]
    <3>1. /\ Len(b \o chunk) = Len(b) + Len(chunk)
          /\ \A i \in 1 .. Len(b) : (b \o chunk)[i] = b[i]
          /\ \A i \in 1 .. Len(chunk) : (b \o chunk)[Len(b) + i] = chunk[i]
      <4>1. b \in Seq(PltItems) /\ chunk \in Seq(PltItems)
        BY <1>6, <2>3
      <4> HIDE DEF b
      <4> QED
        BY <4>1
    <3> QED
      BY <2>1, <3>1
  <2> HIDE DEF b, e, m
  <2>6. Len(hash') = 4 + Len(e) /\ Len(hash') \in Nat /\ Len(hash) \in Nat /\ Len(hash') >= Len(hash)
    <3>1. Len(hash') = Len(hash) + m
      BY <1>7, <2>2 DEF m
    <3> QED
      BY <2>3, <2>4, <2>5, <3>1
  <2>7. Headed(PLT, hash', account', path')
    BY <1>2, <2>2, <2>6, StillHeaded
  <2>8. hash'[3] = hash[3] /\ hash'[4] = hash[4]
    <3>1. 3 \in 1 .. Len(hash) /\ 4 \in 1 .. Len(hash)
      BY <2>3, <2>4
    <3> QED
      BY <2>2, <3>1
  <2>9. ASSUME NEW i \in 1 .. Len(e) PROVE hash'[4 + i] = <<"plt", e[i]>>
    <3>1. CASE i \in 1 .. Len(b)
      <4>1. 4 + i \in 1 .. Len(hash)
        BY <2>3, <2>4, <3>1
      <4>2. hash'[4 + i] = hash[4 + i]
        BY <2>2, <4>1
      <4> QED
        BY <2>4, <2>5, <3>1, <4>2
    <3>2. CASE i \notin 1 .. Len(b)
      <4> DEFINE j == i - Len(b)
      <4>1. j \in 1 .. m /\ Len(b) + j = i /\ Len(hash) + j = 4 + i
        BY <2>3, <2>4, <2>5, <3>2
      <4> HIDE DEF j
      <4>2. e[i] = chunk[j]
        BY <2>5, <4>1
      <4>3. items[j] = <<"plt", chunk[j]>> /\ j \in 1 .. Len(items)
        BY <1>7, <4>1 DEF m
      <4>4. hash'[Len(hash) + j] = items[j]
        BY <2>2, <4>3
      <4> QED
        BY <4>1, <4>2, <4>3, <4>4
    <3> QED
      BY <3>1, <3>2
  <2>10. PltFlow(hash', d)
    BY <2>1, <2>4, <2>6, <2>8, <2>9 DEF PltFlow, e
  <2> QED
    BY <2>2, <2>7, <2>10
<1>11. CASE PltFits(ctx, Len(chunk)) /\ Feed(items) /\ Ack(PLT, d)
  <2>1. /\ latch' = PLT /\ ctx' = d /\ reply' = Success(<< >>)
        /\ screen' = screen /\ keyPending' = keyPending
    BY <1>11 DEF Ack
  <2>2. /\ Typed' /\ UNCHANGED <<path, account, approved>> /\ Extended
        /\ Headed(PLT, hash', account', path') /\ PltFlow(hash', d)
    BY <1>10, <1>11, <2>1
  <2>3. Flow(latch', hash', ctx', account', path', approved')
    BY <2>1, <2>2, PltFlows
  <2>4. d # Wiped
    BY <1>9, <1>11
  <2>5. Acked
    BY <1>4, <2>1, <2>3, <2>4 DEF Acked
  <2>6. approved' = approved
    BY <2>2
  <2> QED
    BY <1>2, <2>1, <2>2, <2>5, <2>6, Zenon DEF PacketEffect
<1>12. CASE /\ PltFits(ctx, Len(chunk)) /\ Feed(items)
            /\ Len(d.cborBuf) = ctx.cborTotalLength /\ parse_plt_cbor(d.cborBuf)
            /\ Review(PLT, d, startPltDisplay(d, account))
  <2>1. /\ latch' = PLT /\ ctx' = d /\ reply' = Owed /\ keyPending' = keyPending
        /\ screen' = startPltDisplay(d, account)
    BY <1>12 DEF Review
  <2>2. screen'.cb = "sign" /\ HeaderPairs(account) \subseteq screen'.items
    BY <2>1 DEF startPltDisplay
  <2>3. /\ Typed' /\ UNCHANGED <<path, account, approved>> /\ Extended
        /\ Headed(PLT, hash', account', path') /\ PltFlow(hash', d) /\ hash' \in Seq(AccountItem)
    BY <1>10, <1>12, <2>1
  <2>4. Headed(PLT, hash', account, path) /\ path' = path
    BY <2>3
  <2>5. /\ d \in PltContexts /\ Len(d.cborBuf) = d.cborTotalLength /\ Len(d.cborBuf) > 0
    <3>1. /\ d \in PltContexts /\ d.cborTotalLength = ctx.cborTotalLength
          /\ d.cborBuf = ctx.cborBuf \o chunk
          /\ Len(ctx.cborBuf \o chunk) = Len(ctx.cborBuf) + Len(chunk)
      BY <1>9, <1>12
    <3>2. Len(chunk) > 0
      <4>1. PICK n \in 1 .. PltChunkMax : chunk \in [1 .. n -> PltItems]
        BY Zenon DEF PltChunks
      <4>2. n \in Nat /\ n > 0
        OBVIOUS
      <4>3. Len(chunk) = n
        BY <4>1, <4>2
      <4> QED
        BY <4>2, <4>3
    <3>3. Len(ctx.cborBuf) \in Nat
      BY <1>2, PltFieldsKnown
    <3> QED
      BY <1>6, <1>12, <3>1, <3>2, <3>3
  <2>6. IsPlt(hash') /\ PltRows(hash') \subseteq screen'.items
    BY <1>12, <2>1, <2>3, <2>4, <2>5, PltWhole, PltShows
  <2>7. AccountRows(hash') = PltRows(hash')
    <3>1. Len(hash') >= 2 /\ hash'[2] = <<"kind", PLT>>
      BY <2>4 DEF Headed
    <3>2. Len(hash') \in Nat
      BY <2>3
    <3> QED
      BY <3>1, <3>2, RowsByKind
  <2>8. <<"network", NetworkOf(path')>> \in screen'.items
    BY <2>2, <2>4 DEF Headed, HeaderPairs
  <2>9. Ready(hash', path', approved' \cup screen'.items)
    BY <2>6, <2>7, <2>8 DEF Ready, Whole
  <2>10. DrawnLast
    BY <2>1, <2>2, <2>9 DEF DrawnLast
  <2>11. approved' = approved
    BY <2>3
  <2> QED
    BY <1>2, <2>1, <2>3, <2>10, <2>11, Zenon DEF PacketEffect
<1> QED
  BY <1>3, <1>5, <1>8, <1>11, <1>12 DEF d, items

-----------------------------------------------------------------------------
(* Steps. *)

LEMMA WrongStateEffect ==
    ASSUME Gated, AnswerInv, Typed, FlowInv, AccountWrongState
    PROVE  reply # Owed /\ PacketEffect
<1>1. Delivered /\ Throw /\ UNCHANGED noFlow
  BY DEF AccountWrongState, Enters
<1>2. UNCHANGED txConst /\ hash' = hash
  BY <1>1 DEF noFlow, txConst
<1> QED
  BY <1>1, <1>2, RefusedEffect DEF Delivered

LEMMA AccountPacketEffect ==
    ASSUME Gated, AnswerInv, Typed, FlowInv, AccountPacket
    PROVE  reply # Owed /\ PacketEffect
<1>1. CASE RegisterInitial \/ RegisterDatum
  BY <1>1, RegisterInitialEffect, RegisterDatumEffect
<1>2. CASE ToPublicInitial \/ ToPublicAmounts \/ ToPublicProof
  BY <1>2, ToPublicInitialEffect, ToPublicAmountsEffect, ToPublicProofEffect
<1>3. CASE handle_sign_configure_delegation
  BY <1>3, DelegationEffect
<1>4. CASE DeployInitial \/ DeploySource
  BY <1>4, DeployInitialEffect, DeploySourceEffect
<1>5. ASSUME NEW ins \in ContractInss, ContractInitial(ins) \/ ContractName(ins) \/ ContractParams(ins)
      PROVE  reply # Owed /\ PacketEffect
  BY <1>5, ContractInitialEffect, ContractNameEffect, ContractParamsEffect
<1>6. CASE PltPacket
  BY <1>6, PltInitEffect, PltContEffect, PltWrongEffect DEF PltPacket
<1>7. CASE AccountWrongState
  BY <1>7, WrongStateEffect
<1>8. CASE ContractsPacket
  BY <1>4, <1>5, <1>8, Zenon DEF ContractsPacket, ContractInss
<1> QED
  BY <1>1, <1>2, <1>3, <1>6, <1>7, <1>8, Zenon DEF AccountPacket

LEMMA ShellParts ==
    ASSUME Gated, AnswerInv, Shell(AccountInss)
    PROVE  /\ reply # Owed
           /\ UNCHANGED noFlow /\ keyPending' = FALSE /\ screen' = screen
           /\ reply' \in {reply, Refused, Success(<< >>)}
           /\ \/ UNCHANGED <<latch, ctx>>
              \/ latch' \in {NONE, "GET_APP_NAME"} /\ ctx' \in {ctx, Wiped}
              \/ latch' \in AccountInss /\ ctx' = Wiped
<1>1. (latch = NONE => Union = Wiped) /\ (latch # NONE => Union = ctx)
  BY DEF Union, IsInitialCall
<1>2. CASE AboutBack
  <2>1. screen = Home /\ screen.cb = "home"
    BY <1>2 DEF AboutBack, Home
  <2>2. reply # Owed
    BY <2>1 DEF AnswerInv, ReviewUp
  <2> QED
    BY <1>2, <2>1, <2>2 DEF AboutBack, ui_menu_main
<1>3. CASE ~AboutBack
  <2>1. /\ Delivered /\ UNCHANGED noFlow /\ UNCHANGED <<screen, keyPending>>
        /\ reply' \in {Refused, Success(<< >>)}
    BY <1>3 DEF Shell, BadCommand, SwitchGuard, RefusedByDispatcher, AppInfo, UnknownInstruction,
           send_rejection, Enters
  <2>2. \/ UNCHANGED <<latch, ctx>>
        \/ latch' = NONE /\ ctx' \in {ctx, Union}
        \/ \E ins \in AccountInss \cup {"GET_APP_NAME"} :
              latch \in {NONE, ins} /\ latch' = ins /\ ctx' = Union
    BY <1>3 DEF Shell, BadCommand, SwitchGuard, RefusedByDispatcher, AppInfo, UnknownInstruction,
           send_rejection, Enters
  <2>3. ASSUME NEW ins \in AccountInss \cup {"GET_APP_NAME"}, latch \in {NONE, ins}, latch' = ins,
               ctx' = Union
        PROVE  \/ UNCHANGED <<latch, ctx>>
               \/ latch' \in {NONE, "GET_APP_NAME"} /\ ctx' \in {ctx, Wiped}
               \/ latch' \in AccountInss /\ ctx' = Wiped
    BY <1>1, <2>3
  <2>4. \/ UNCHANGED <<latch, ctx>>
        \/ latch' \in {NONE, "GET_APP_NAME"} /\ ctx' \in {ctx, Wiped}
        \/ latch' \in AccountInss /\ ctx' = Wiped
    BY <1>1, <2>2, <2>3
  <2> QED
    BY <2>1, <2>4 DEF Delivered, AnswerInv
<1> QED
  BY <1>2, <1>3

SignedInv == AccountSignedWasReviewed /\ AccountSignedIsComplete

FlowPart == FlowInv /\ LastReview

AccountInv == AnswerInv /\ Typed /\ FlowPart /\ SignedInv

LEMMA PlainKeepsSigned ==
    ASSUME NoSignature(reply') PROVE SignedInv'
  BY DEF NoSignature, SignedInv, AccountSignedWasReviewed, AccountSignedIsComplete, HasSignature

LEMMA NoOwner ==
    ASSUME NEW ins \in {NONE, "GET_APP_NAME"}, NEW c PROVE OwnContext(ins, c)
  BY DEF OwnContext, NONE, REGISTER, TOPUBLIC, DELEGATION, DEPLOY, INITIALIZE, UPDATE, PLT

\* The flow is given up: nothing is open, and no last review is on screen.
LEMMA GivenUp ==
    ASSUME latch' \notin AccountInss, screen'.cb \notin {"data", "sign"}
    PROVE  FlowPart'
  BY DEF FlowPart, FlowInv, Open, LastReview

LEMMA PacketStep ==
    ASSUME Gated, AccountInv, AccountPacket
    PROVE  AccountInv'
<1>1. AnswerInv /\ Typed /\ FlowInv
  BY DEF AccountInv, FlowPart
<1>2. reply # Owed /\ PacketEffect
  BY <1>1, AccountPacketEffect
<1>3. Typed' /\ keyPending' = FALSE
  BY <1>1, <1>2 DEF PacketEffect, AnswerInv
<1>4. screen.cb \in {"home", "stale"} /\ screen.items = {}
  BY <1>1, <1>2, NoReview
<1>5. CASE Closed
  <2>1. reply' # Owed /\ reply'.sw # "owed" /\ NoSignature(reply')
    BY <1>5, PlainAnswer DEF Closed, PlainAnswers
  <2>2. AnswerInv'
    BY <1>3, <1>4, <1>5, <2>1 DEF AnswerInv, ReviewUp, Closed
  <2>3. FlowPart'
    BY <1>4, <1>5, GivenUp, NamesDiffer DEF Closed
  <2>4. SignedInv'
    BY <2>1, PlainKeepsSigned
  <2> QED
    BY <1>3, <2>2, <2>3, <2>4 DEF AccountInv
<1>6. CASE Acked
  <2>1. reply' # Owed /\ reply'.sw # "owed" /\ NoSignature(reply')
    BY <1>6, PlainAnswer DEF Acked, PlainAnswers
  <2>2. AnswerInv'
    BY <1>3, <1>4, <1>6, <2>1 DEF AnswerInv, ReviewUp, Acked
  <2>3. FlowPart'
    <3>1. screen'.items = {} /\ screen'.cb \in {"home", "stale"}
      BY <1>4, <1>6 DEF Acked
    <3>2. approved' \cup screen'.items = approved'
      BY <3>1
    <3>3. Flow(latch', hash', ctx', account', path', approved' \cup screen'.items)
      BY <1>6, <3>2 DEF Acked
    <3> QED
      BY <3>1, <3>3 DEF FlowPart, FlowInv, LastReview
  <2>4. SignedInv'
    BY <2>1, PlainKeepsSigned
  <2> QED
    BY <1>3, <2>2, <2>3, <2>4 DEF AccountInv
<1>7. CASE Drawn \/ DrawnLast
  <2>1. reply' = Owed /\ screen'.cb \in {"proceed", "data", "sign"} /\ NoSignature(reply')
    BY <1>7, OwedAnswer DEF Drawn, DrawnLast
  <2>2. AnswerInv'
    BY <1>3, <2>1 DEF AnswerInv, ReviewUp
  <2>3. FlowPart'
    BY <1>7 DEF FlowPart, FlowInv, Open, LastReview, Drawn, DrawnLast
  <2>4. SignedInv'
    BY <2>1, PlainKeepsSigned
  <2> QED
    BY <1>3, <2>2, <2>3, <2>4 DEF AccountInv
<1> QED
  BY <1>2, <1>5, <1>6, <1>7 DEF PacketEffect

LEMMA ShellStep ==
    ASSUME Gated, AccountInv, Shell(AccountInss)
    PROVE  AccountInv'
<1>1. AnswerInv /\ Typed /\ FlowInv /\ LastReview /\ SignedInv
  BY DEF AccountInv, FlowPart
<1>2. /\ reply # Owed
      /\ UNCHANGED noFlow /\ keyPending' = FALSE /\ screen' = screen
      /\ reply' \in {reply, Refused, Success(<< >>)}
      /\ \/ UNCHANGED <<latch, ctx>>
         \/ latch' \in {NONE, "GET_APP_NAME"} /\ ctx' \in {ctx, Wiped}
         \/ latch' \in AccountInss /\ ctx' = Wiped
  BY <1>1, ShellParts
<1>3. screen.cb \in {"home", "stale"} /\ screen.items = {}
  BY <1>1, <1>2, NoReview
<1>4. hash' = hash /\ path' = path /\ account' = account /\ approved' = approved
  BY <1>2 DEF noFlow
<1>5. reply' # Owed /\ reply'.sw # "owed"
  BY <1>1, <1>2, PlainAnswer DEF PlainAnswers, AnswerInv
<1>6. AnswerInv'
  BY <1>2, <1>3, <1>5 DEF AnswerInv, ReviewUp
<1>7. Typed'
  <2>1. latch' \in AccountInss \cup {NONE, "GET_APP_NAME"} /\ ctx' \in AccountContexts \cup {Wiped}
    BY <1>1, <1>2 DEF Typed
  <2>2. ctx' # Wiped => OwnContext(latch', ctx')
    BY <1>1, <1>2, NoOwner DEF Typed
  <2> QED
    BY <1>1, <1>4, <2>1, <2>2 DEF Typed
<1>8. FlowPart'
  <2>1. Open' => latch' = latch /\ ctx' = ctx /\ Open
    BY <1>2, NamesDiffer DEF Open
  <2>2. FlowInv'
    BY <1>1, <1>2, <1>4, <2>1 DEF FlowInv
  <2> QED
    BY <1>2, <1>3, <2>2 DEF FlowPart, LastReview
<1>9. SignedInv'
  <2>1. CASE reply' = reply
    BY <1>1, <1>4, <2>1 DEF SignedInv, AccountSignedWasReviewed, AccountSignedIsComplete,
       HasSignature, SignedItems, SigningPath
  <2>2. CASE reply' \in PlainAnswers
    BY <2>2, PlainAnswer, PlainKeepsSigned
  <2> QED
    BY <1>2, <2>1, <2>2 DEF PlainAnswers
<1> QED
  BY <1>6, <1>7, <1>8, <1>9 DEF AccountInv

\* A step that leaves the transcript, the path and the sender alone.
LEMMA TypedKept ==
    ASSUME Typed, UNCHANGED <<hash, path, account>>,
           UNCHANGED <<latch, ctx>> \/ (latch' = NONE /\ ctx' \in {ctx, Wiped})
    PROVE  Typed'
<1>1. latch' \in AccountInss \cup {NONE, "GET_APP_NAME"} /\ ctx' \in AccountContexts \cup {Wiped}
  BY DEF Typed
<1>2. ctx' # Wiped => OwnContext(latch', ctx')
  BY NoOwner DEF Typed
<1> QED
  BY <1>1, <1>2 DEF Typed

LEMMA ReadyGrows ==
    ASSUME NEW s, NEW p, NEW A, NEW B, Ready(s, p, A), A \subseteq B
    PROVE  Ready(s, p, B)
  BY DEF Ready

\* A button that ends a flow without a signature.
LEMMA EndStep ==
    ASSUME AccountInv, latch' = NONE, ctx' \in {ctx, Wiped}, screen' = Home, keyPending' = FALSE,
           reply' \in PlainAnswers, UNCHANGED <<hash, path, account>>
    PROVE  AccountInv'
<1>1. Typed
  BY DEF AccountInv
<1>2. Typed'
  BY <1>1, TypedKept
<1>3. reply' # Owed /\ reply'.sw # "owed" /\ NoSignature(reply')
  BY PlainAnswer
<1>4. screen'.cb = "home" /\ screen'.items = {}
  BY DEF Home
<1>5. AnswerInv'
  BY <1>3, <1>4 DEF AnswerInv, ReviewUp
<1>6. FlowPart'
  BY <1>4, GivenUp, NamesDiffer
<1>7. SignedInv'
  BY <1>3, PlainKeepsSigned
<1> QED
  BY <1>2, <1>5, <1>6, <1>7 DEF AccountInv

LEMMA ContinueStep ==
    ASSUME AccountInv, sendSuccessNoIdleCallback
    PROVE  AccountInv'
<1>1. Typed /\ FlowInv /\ keyPending = FALSE
  BY DEF AccountInv, FlowPart, AnswerInv
<1>2. /\ screen.cb = "proceed" /\ reply' = Success(<< >>) /\ screen' = Stale
      /\ approved' = approved \cup screen.items
      /\ UNCHANGED <<latch, ctx, keyPending, hash, path, account>>
  BY DEF sendSuccessNoIdleCallback
<1>3. Typed'
  BY <1>1, <1>2, TypedKept
<1>4. reply' # Owed /\ reply'.sw # "owed" /\ NoSignature(reply')
  BY <1>2, PlainAnswer DEF PlainAnswers
<1>5. screen'.cb = "stale" /\ screen'.items = {}
  BY <1>2 DEF Stale
<1>6. AnswerInv'
  BY <1>1, <1>2, <1>4, <1>5 DEF AnswerInv, ReviewUp
<1>7. FlowPart'
  <2>1. Open' => Open
    BY <1>2 DEF Open
  <2>2. approved' \cup screen'.items = approved \cup screen.items
    BY <1>2, <1>5
  <2>3. FlowInv'
    BY <1>1, <1>2, <2>1, <2>2 DEF FlowInv
  <2> QED
    BY <1>5, <2>3 DEF FlowPart, LastReview
<1>8. SignedInv'
  BY <1>4, PlainKeepsSigned
<1> QED
  BY <1>3, <1>6, <1>7, <1>8 DEF AccountInv

\* All data has come when it is confirmed: the signing screen follows.
LEMMA DataConfirmed ==
    ASSUME AccountInv, register_data_on_data_confirm
    PROVE  /\ screen.cb = "data" /\ approved' = approved \cup screen.items
           /\ screen' = uiSignFlowSharedDisplay
           /\ UNCHANGED <<reply, latch, ctx, keyPending, hash, path, account>>
<1>1. screen.cb = "data"
  BY DEF register_data_on_data_confirm
<1>2. ctx # Wiped /\ ctx.dataLength = 0
  BY <1>1 DEF AccountInv, FlowPart, LastReview
<1>3. ~(ctx.dataLength > 0)
  BY <1>2
<1> QED
  BY <1>1, <1>3 DEF register_data_on_data_confirm

LEMMA DataConfirmStep ==
    ASSUME AccountInv, register_data_on_data_confirm
    PROVE  AccountInv'
<1>1. /\ screen.cb = "data" /\ approved' = approved \cup screen.items
      /\ screen' = uiSignFlowSharedDisplay
      /\ UNCHANGED <<reply, latch, ctx, keyPending, hash, path, account>>
  BY DataConfirmed
<1>2. screen'.cb = "sign" /\ screen'.items = {}
  BY <1>1 DEF uiSignFlowSharedDisplay
<1>3. Typed /\ AnswerInv /\ LastReview
  BY DEF AccountInv, FlowPart
<1>4. Typed'
  BY <1>1, <1>3, TypedKept
<1>5. reply = Owed /\ reply' = Owed /\ keyPending' = FALSE /\ NoSignature(reply')
  BY <1>1, <1>3, OwedAnswer DEF AnswerInv, ReviewUp
<1>6. AnswerInv'
  BY <1>2, <1>5 DEF AnswerInv, ReviewUp
<1>7. FlowPart'
  <2>1. Ready(hash, path, approved \cup screen.items)
    BY <1>1, <1>3 DEF LastReview
  <2>2. approved \cup screen.items \subseteq approved' \cup screen'.items
    BY <1>1
  <2>3. Ready(hash', path', approved' \cup screen'.items)
    BY <1>1, <2>1, <2>2, ReadyGrows
  <2> QED
    BY <1>2, <2>3 DEF FlowPart, FlowInv, Open, LastReview
<1>8. SignedInv'
  BY <1>5, PlainKeepsSigned
<1> QED
  BY <1>4, <1>6, <1>7, <1>8 DEF AccountInv

LEMMA SignStep ==
    ASSUME AccountInv, buildAndSignTransactionHash
    PROVE  AccountInv'
<1>1. /\ screen.cb = "sign" /\ reply' = Success(<<"signature", hash, path>>)
      /\ latch' = NONE /\ keyPending' = FALSE /\ screen' = Home
      /\ approved' = approved \cup screen.items /\ UNCHANGED <<ctx, hash, path, account>>
  BY DEF buildAndSignTransactionHash, send_success, ui_menu_main
<1>2. Typed'
  <2>1. Typed
    BY DEF AccountInv
  <2> QED
    BY <1>1, <2>1, TypedKept
<1>3. reply' # Owed /\ reply'.sw = "success" /\ SignedItems' = hash /\ SigningPath' = path
  BY <1>1, SignatureAnswer DEF SignedItems, SigningPath
<1>4. screen'.cb = "home" /\ screen'.items = {}
  BY <1>1 DEF Home
<1>5. AnswerInv'
  BY <1>1, <1>3, <1>4 DEF AnswerInv, ReviewUp
<1>6. FlowPart'
  BY <1>1, <1>4, GivenUp, NamesDiffer
<1>7. Ready(hash, path, approved')
  BY <1>1 DEF AccountInv, FlowPart, LastReview
<1>8. SignedInv'
  BY <1>3, <1>7 DEF SignedInv, AccountSignedWasReviewed, AccountSignedIsComplete, Ready, Whole
<1> QED
  BY <1>2, <1>5, <1>6, <1>8 DEF AccountInv

LEMMA FreshInv ==
    ASSUME latch = NONE, ctx = Wiped, hash = << >>, path = NoPath, account = NoAccount,
           screen = Home, reply = Idle, keyPending = FALSE
    PROVE  AccountInv
<1>1. screen.cb = "home" /\ screen.items = {} /\ reply # Owed /\ reply.sw # "owed"
  BY PlainAnswer DEF Home, PlainAnswers
<1>2. AnswerInv
  BY <1>1 DEF AnswerInv, ReviewUp
<1>3. account \in AccountTexts /\ hash \in Seq(AccountItem)
  BY DEF AccountTexts, NoAccount, Networks
<1>4. Typed
  BY <1>3 DEF Typed
<1>5. FlowPart
  BY <1>1, NamesDiffer DEF FlowPart, FlowInv, Open, LastReview
<1>6. SignedInv
  BY DEF SignedInv, AccountSignedWasReviewed, AccountSignedIsComplete, HasSignature, Idle
<1> QED
  BY <1>2, <1>4, <1>5, <1>6 DEF AccountInv

LEMMA RestartStep == ASSUME Restart PROVE AccountInv'
<1>1. /\ latch' = NONE /\ ctx' = Wiped /\ hash' = << >> /\ path' = NoPath /\ account' = NoAccount
      /\ screen' = Home /\ reply' = Idle /\ keyPending' = FALSE
  BY DEF Restart
<1>2. screen'.cb = "home" /\ screen'.items = {} /\ reply' # Owed /\ reply'.sw # "owed"
  BY <1>1, PlainAnswer DEF Home, PlainAnswers
<1>3. AnswerInv'
  BY <1>1, <1>2 DEF AnswerInv, ReviewUp
<1>4. account' \in AccountTexts /\ hash' \in Seq(AccountItem)
  BY <1>1 DEF AccountTexts, NoAccount, Networks
<1>5. Typed'
  BY <1>1, <1>4 DEF Typed
<1>6. FlowPart'
  BY <1>1, <1>2, GivenUp, NamesDiffer
<1>7. SignedInv'
  BY <1>1, PlainAnswer, PlainKeepsSigned DEF PlainAnswers
<1> QED
  BY <1>3, <1>5, <1>6, <1>7 DEF AccountInv

LEMMA AccountInvStep ==
    ASSUME Gated, AccountInv, [AccountNext]_deviceVars PROVE AccountInv'
<1>1. CASE UNCHANGED deviceVars
  BY <1>1 DEF deviceVars, AccountInv, AnswerInv, ReviewUp, Typed, FlowPart, FlowInv, Open, LastReview,
     SignedInv, AccountSignedWasReviewed, AccountSignedIsComplete, HasSignature, SignedItems, SigningPath
<1>2. CASE SigningFails
  <2>1. /\ latch' = NONE /\ ctx' = Wiped /\ screen' = Home /\ keyPending' = FALSE
        /\ reply' = Refused /\ UNCHANGED <<hash, path, account>>
    BY <1>2 DEF SigningFails, CallbackThrow, ui_menu_main
  <2> QED
    BY <2>1, EndStep DEF PlainAnswers
<1>3. CASE DeclineAccount
  <2>1. /\ latch' = NONE /\ ctx' = ctx /\ screen' = Home /\ keyPending' = FALSE
        /\ reply' = Declined /\ UNCHANGED <<hash, path, account>>
    BY <1>3 DEF DeclineAccount, UserDeclines, send_user_rejection, ui_menu_main, noFlow
  <2> QED
    BY <2>1, EndStep DEF PlainAnswers
<1> QED
  BY <1>1, <1>2, <1>3, PacketStep, ShellStep, ContinueStep, DataConfirmStep, SignStep, RestartStep
     DEF AccountNext

LEMMA AccountInvHolds == ASSUME Gated PROVE AccountSpec => []AccountInv
<1>1. DeviceInit => AccountInv
  BY FreshInv DEF DeviceInit
<1>2. AccountInv /\ [AccountNext]_deviceVars => AccountInv'
  BY AccountInvStep
<1> QED
  BY <1>1, <1>2, PTL DEF AccountSpec

-----------------------------------------------------------------------------
(* What the invariant says. *)

LEMMA RegisterTyped ==
    ASSUME NEW c \in RegisterContexts
    PROVE  /\ c.view = "register" /\ c.state \in RegisterStates
           /\ c.dataLength \in 0 .. CborMax /\ c.cbor.length = c.dataLength
           /\ BufLen(c.cbor.buf) <= CborMax
<1>1. /\ c.view = "register" /\ c.state \in RegisterStates /\ c.dataLength \in 0 .. CborMax
      /\ c.cbor.length = c.dataLength /\ c.cbor.buf \in Seq(Vals \X (1 .. CborChunkMax))
      /\ c.dataLength + BufLen(c.cbor.buf) <= CborMax
  BY DEF RegisterContexts
<1>2. BufLen(c.cbor.buf) \in Nat
  <2> DEFINE b == c.cbor.buf
  <2>1. b \in Seq(Vals \X (1 .. CborChunkMax))
    BY <1>1
  <2>2. Vals \X (1 .. CborChunkMax) \subseteq Vals \X Nat
    BY CborAssumption
  <2> HIDE DEF b
  <2>3. b \in Seq(Vals \X Nat)
    BY <2>1, <2>2
  <2>4. BufLen(b) \in Nat
    BY <2>3, BufLenNat
  <2> QED
    BY <2>4 DEF b
<1> QED
  BY <1>1, <1>2, CborAssumption

LEMMA ContractsTyped ==
    ASSUME NEW c \in DeployContexts \cup ContractContexts
    PROVE  ContractsContext(c)
<1>1. CASE c \in DeployContexts
  BY <1>1 DEF DeployContexts, ContractsContext
<1>2. CASE c \in ContractContexts
  BY <1>2 DEF ContractContexts, ContractStates, ContractsContext
<1> QED
  BY <1>1, <1>2

\* Every variable keeps its type: the two counts of data to come agree, no
\* count of bytes to come wraps and no text outgrows its buffer, whichever flow
\* is left for another and whichever packet is refused.
THEOREM AccountTypeCorrect == ASSUME Gated PROVE AccountSpec => []AccountTypeOK
<1>1. ASSUME AccountInv PROVE AccountTypeOK
  <2>1. Typed /\ AnswerInv
    BY <1>1 DEF AccountInv
  <2>2. \/ ctx = Wiped \/ ctx \in RegisterContexts \/ ctx \in ToPublicContexts
        \/ ctx \in DelegationContexts \/ ctx \in DeployContexts \cup ContractContexts
        \/ ctx \in PltContexts
    BY <2>1 DEF Typed, AccountContexts
  <2>3. ctx \in ToPublicContexts =>
           ctx.view = "public" /\ ctx.state \in ToPublicStates /\ ctx.proofSize \in 0 .. ProofMax
    BY DEF ToPublicContexts
  <2>4. ctx \in DelegationContexts =>
           ctx.view = "delegation" /\ ctx.texts \in Seq(DelegationFields \X Vals)
    BY DEF DelegationContexts
  <2>5. ctx \in PltContexts =>
           /\ ctx.view = "plt" /\ ctx.state \in PltStates
           /\ Len(ctx.cborBuf) <= ctx.cborTotalLength /\ ctx.cborTotalLength <= PltMax
    BY PltAssumption DEF PltContexts
  <2>6. /\ latch \in AccountInss \cup {NONE, "GET_APP_NAME"}
        /\ path \in Paths \cup {NoPath}
        /\ account \in [header : Headers \cup {"none"}, network : Networks]
        /\ screen.cb \in {"home", "stale", "proceed", "data", "sign"}
        /\ keyPending = FALSE
    BY <2>1 DEF Typed, AnswerInv, AccountTexts
  <2> QED
    BY <2>2, <2>3, <2>4, <2>5, <2>6, RegisterTyped, ContractsTyped, Zenon DEF AccountTypeOK
<1> QED
  BY <1>1, AccountInvHolds, PTL

\* What you see is what you sign: every row of a signed account transaction and
\* the network of its signing path were on screens that were accepted since the
\* transaction was begun, although a flow may follow on the remains of another.
THEOREM SignedAccountTransactionWasReviewed ==
    ASSUME Gated PROVE AccountSpec => []AccountSignedWasReviewed
<1>1. AccountInv => AccountSignedWasReviewed
  BY DEF AccountInv, SignedInv
<1> QED
  BY <1>1, AccountInvHolds, PTL

\* A signature is only ever made over one whole transaction, with all the bytes
\* it announced, never over the beginning of one and the end of another.
THEOREM SignedAccountTransactionIsComplete ==
    ASSUME Gated PROVE AccountSpec => []AccountSignedIsComplete
<1>1. AccountInv => AccountSignedIsComplete
  BY DEF AccountInv, SignedInv
<1> QED
  BY <1>1, AccountInvHolds, PTL

-----------------------------------------------------------------------------
(* The flows implement the contract of a signing instruction. *)

LEMMA AccountHonoursContract ==
    ASSUME Gated, AccountInv, [AccountNext]_deviceVars
    PROVE  [AccountContract!ContractNext]_(AccountContract!contractVars)
<1> USE DEF AccountContract!contractVars
<1>0. /\ AnswerInv /\ Typed /\ FlowInv /\ LastReview /\ hash \in Seq(AccountItem)
      /\ (reply # Owed => reply.sw # "owed")
      /\ (screen.cb \in {"proceed", "data", "sign"} => reply.sw = "owed")
  BY DEF AccountInv, FlowPart, Typed, AnswerInv, ReviewUp, Owed
<1>1. CASE AccountPacket
  <2>1. reply # Owed /\ PacketEffect
    BY <1>0, <1>1, AccountPacketEffect
  <2>2. approved' = {} \/ (approved' = approved /\ Extended)
    BY <2>1 DEF PacketEffect
  <2>3. ~(reply'.sw = "success" /\ reply'.body # << >>)
    <3>1. reply' \in {Refused, Success(<< >>), Owed}
      BY <2>1 DEF PacketEffect, Closed, Acked, Drawn, DrawnLast
    <3> QED
      BY <3>1 DEF Refused, Success, Owed
  <2> QED
    BY <1>0, <2>1, <2>2, <2>3 DEF AccountContract!ContractNext, AccountContract!Begin,
       AccountContract!Collect, AccountContract!Extended, AccountContract!IsOwed,
       AccountContract!IsSignature, Extended
<1>2. CASE buildAndSignTransactionHash
  <2>1. /\ screen.cb = "sign" /\ reply' = Success(<<"signature", hash, path>>)
        /\ approved' = approved \cup screen.items /\ hash' = hash
    BY <1>2 DEF buildAndSignTransactionHash, send_success
  <2>2. reply'.sw = "success" /\ reply'.body # << >> /\ reply'.body[2] = hash
    BY <2>1, SignatureAnswer
  <2>3. AccountRows(hash) \subseteq approved'
    BY <1>0, <2>1 DEF LastReview, Ready
  <2>4. AccountContract!Sign
    BY <1>0, <2>1, <2>2, <2>3 DEF AccountContract!Sign, AccountContract!IsOwed,
       AccountContract!IsSignature
  <2> QED
    BY <2>4 DEF AccountContract!ContractNext
<1>3. ASSUME screen.cb \in {"proceed", "data", "sign"}, hash' = hash,
             reply' \in PlainAnswers, approved \subseteq approved'
      PROVE  AccountContract!ContractNext
  <2>1. reply'.sw # "owed" /\ ~(reply'.sw = "success" /\ reply'.body # << >>)
    BY <1>3, PlainAnswer
  <2>2. AccountContract!Resolve
    BY <1>0, <1>3, <2>1 DEF AccountContract!Resolve, AccountContract!IsOwed,
       AccountContract!IsSignature
  <2> QED
    BY <2>2 DEF AccountContract!ContractNext
<1>4. CASE SigningFails \/ DeclineAccount
  <2>1. /\ screen.cb \in {"proceed", "data", "sign"} /\ hash' = hash
        /\ approved \subseteq approved' /\ reply' \in {Refused, Declined}
    BY <1>4 DEF SigningFails, CallbackThrow, DeclineAccount, UserDeclines, send_user_rejection, noFlow
  <2> QED
    BY <1>3, <2>1 DEF PlainAnswers
<1>5. CASE sendSuccessNoIdleCallback
  <2>1. /\ screen.cb = "proceed" /\ hash' = hash /\ approved \subseteq approved'
        /\ reply' = Success(<< >>)
    BY <1>5 DEF sendSuccessNoIdleCallback
  <2> QED
    BY <1>3, <2>1 DEF PlainAnswers
<1>6. CASE register_data_on_data_confirm
  <2>1. /\ screen.cb = "data" /\ hash' = hash /\ approved \subseteq approved' /\ reply' = reply
    BY <1>6, DataConfirmed
  <2>2. CASE approved' = approved
    BY <2>1, <2>2
  <2>3. CASE approved' # approved
    <3>1. reply = Owed /\ Extended
      BY <1>0, <2>1, SameExtends DEF AnswerInv, ReviewUp
    <3>2. ~(reply'.sw = "success" /\ reply'.body # << >>)
      BY <2>1, <3>1 DEF Owed
    <3>3. AccountContract!Resolve
      BY <1>0, <2>1, <2>3, <3>1, <3>2 DEF AccountContract!Resolve, AccountContract!IsOwed,
         AccountContract!IsSignature, AccountContract!Extended, Extended
    <3> QED
      BY <3>3 DEF AccountContract!ContractNext
  <2> QED
    BY <2>2, <2>3
<1>7. CASE Shell(AccountInss)
  <2>1. reply # Owed /\ UNCHANGED <<hash, approved>> /\ reply' \in {reply, Refused, Success(<< >>)}
    BY <1>0, <1>7, ShellParts DEF noFlow
  <2>2. CASE reply' = reply
    BY <2>1, <2>2
  <2>3. CASE reply' \in PlainAnswers
    <3>1. ~(reply'.sw = "success" /\ reply'.body # << >>) /\ Extended
      BY <1>0, <2>1, <2>3, PlainAnswer, SameExtends
    <3>2. AccountContract!Collect
      BY <1>0, <2>1, <3>1 DEF AccountContract!Collect, AccountContract!Extended,
         AccountContract!IsOwed, AccountContract!IsSignature, Extended
    <3> QED
      BY <3>2 DEF AccountContract!ContractNext
  <2> QED
    BY <2>1, <2>2, <2>3 DEF PlainAnswers
<1>8. CASE Restart
  <2>1. reply' = Idle /\ approved' = {} /\ hash' = << >>
    BY <1>8 DEF Restart
  <2> QED
    BY <2>1 DEF AccountContract!ContractNext, AccountContract!Begin, AccountContract!IsOwed,
       AccountContract!IsSignature, Idle
<1>9. CASE UNCHANGED deviceVars
  BY <1>9 DEF deviceVars
<1> QED
  BY <1>1, <1>2, <1>4, <1>5, <1>6, <1>7, <1>8, <1>9 DEF AccountNext

\* The account flows implement the contract of a signing instruction: every step
\* of any of them begins a transcript, adds to it, settles a review or signs the
\* whole of it, and while an answer is owed only an accepted review moves it.
THEOREM AccountFlowsHonourContract ==
    ASSUME Gated PROVE AccountSpec => AccountFlowsImplementContract
<1>1. DeviceInit => AccountContract!ContractInit
  BY DEF DeviceInit, AccountContract!ContractInit, AccountContract!IsOwed,
     AccountContract!IsSignature, Idle
<1>2. AccountInv /\ [AccountNext]_deviceVars
        => [AccountContract!ContractNext]_(AccountContract!contractVars)
  BY AccountHonoursContract
<1> QED
  BY <1>1, <1>2, AccountInvHolds, PTL
     DEF AccountSpec, AccountFlowsImplementContract, AccountContract!ContractSpec
=============================================================================
