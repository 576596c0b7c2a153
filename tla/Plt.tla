-------------------------------- MODULE Plt ---------------------------------
(***************************************************************************)
(* INS_SIGN_PLT: a token id and the length of a CBOR payload, then the     *)
(* payload in packets of any size, decoded and shown once it is whole.     *)
(* The payload is a sequence of items, an operation name first and the     *)
(* fields of its map after it; lengths count items.  The fee row a host    *)
(* may ask for is outside the hash and is left out.                        *)
(***************************************************************************)
EXTENDS Device

LOCAL INSTANCE SequencesExt

CONSTANTS
    PltMax,       \* APP_PLT_CBOR_MAX (512)
    PltChunkMax,  \* most items in one packet
    PltOps,       \* the operations a host asks for
    PltFields,    \* the fields it sends
    PltVals       \* values of amounts, addresses and memos

PLT == "SIGN_PLT"

AmountOps  == {"transfer", "mint", "burn"}
ListOps    == {"addAllowList", "removeAllowList", "addDenyList", "removeDenyList"}
AddressOps == {"transfer"} \cup ListOps
KnownOps   == AmountOps \cup ListOps \cup {"pause", "unpause"}

\* The fields parse_plt_cbor knows; it reads a recipient and a target into the
\* same address.  "other" is all it cannot take: an unknown field or operation,
\* a container of indefinite length, a memo or amount it cannot show, bytes
\* after the end.
FieldNames == {"amount", "recipient", "target", "memo"}
PltItems   == ({"op"} \X PltOps) \cup (PltFields \X PltVals) \cup {<<"other", "other">>}
PltChunks  == UNION {[1 .. n -> PltItems] : n \in 1 .. PltChunkMax}

ASSUME PltAssumption ==
    /\ PltMax \in Nat /\ PltChunkMax \in Nat \ {0}
    /\ PltOps \subseteq KnownOps /\ PltFields \subseteq FieldNames

PltStates == {"zero", "INITIAL", "CBOR"}

\* signPltContext_t.  cborReceived is the length of cborBuf.
PltZero == [view |-> "plt", state |-> "zero", tokenId |-> "none", cborTotalLength |-> 0,
            cborBuf |-> << >>]
PltUnion == IF Union = Wiped THEN PltZero ELSE Union
PltView == IF IsInitialCall THEN [PltUnion EXCEPT !.state = "INITIAL"] ELSE PltUnion

-----------------------------------------------------------------------------
(* The payload. *)

Holds(buf, names) == \E i \in DOMAIN buf : buf[i][1] \in names

\* A field that is given twice is overwritten: the last one is shown.  One that
\* is not given is as the wiped context has it.
LastOf(buf, names) ==
    IF Holds(buf, names) THEN buf[SelectLastInSeq(buf, LAMBDA item : item[1] \in names)][2]
                         ELSE "zero"

Address == {"recipient", "target"}
OpOf(buf) == buf[1][2]

RequiredFieldsSeen(buf) ==
    /\ OpOf(buf) \in AmountOps => Holds(buf, {"amount"})
    /\ OpOf(buf) \in AddressOps => Holds(buf, Address)

\* One operation, known fields only, all that its review needs.
parse_plt_cbor(buf) ==
    /\ buf[1][1] = "op"
    /\ \A i \in 2 .. Len(buf) : buf[i][1] \in FieldNames
    /\ RequiredFieldsSeen(buf)

-----------------------------------------------------------------------------
(* The review: only the rows the operation has a use for. *)

MemoRow_Never(buf) == {}
MemoRow(buf) == IF Holds(buf, {"memo"}) THEN {<<"memo", LastOf(buf, {"memo"})>>} ELSE {}

startPltDisplay(c, sender) ==
    LET buf == c.cborBuf
        op  == OpOf(buf)
    IN  [cb |-> "sign",
         items |-> HeaderPairs(sender) \cup {<<"token", c.tokenId>>, <<"op", op>>}
            \cup (IF op \in AmountOps THEN {<<"amount", LastOf(buf, {"amount"})>>} ELSE {})
            \cup (IF op \in AddressOps THEN {<<"address", LastOf(buf, Address)>>} ELSE {})
            \cup (IF op = "transfer" THEN MemoRow(buf) ELSE {})]

-----------------------------------------------------------------------------
(* Packets. *)

\* The context is wiped, but for its state; the screen stays.
plt_refuse == send_rejection([PltZero EXCEPT !.state = "INITIAL"])

\* PLT_P1_INIT: what precedes the token id throws, the rest is refused.
PltInit ==
    \E h \in Headers, p \in Paths :
        LET c    == PltView
            kind == <<<<"kind", PLT>>>>
        IN  /\ Enters(PLT)
            /\ c.state = "INITIAL"
            /\ \/ HeaderThrows(h, p, kind)
               \/ \E t \in Vals, n \in 0 .. PltMax + 1 :
                     LET items == kind \o <<<<"token", t>>, <<"cborLength", n>>>>
                     IN  \/ /\ n \in 1 .. PltMax
                            /\ hashAccountTransactionHeaderAndKind(h, p, items)
                            /\ Ack(PLT, [c EXCEPT !.tokenId = t, !.cborTotalLength = n,
                                                  !.cborBuf = << >>, !.state = "CBOR"])
                         \/ /\ \E k \in 1 .. 3 :
                                  hashAccountTransactionHeaderAndKind(h, p, SubSeq(items, 1, k))
                            /\ plt_refuse

\* The bytes to come, unsigned.
PltFits(c, n) == n <= c.cborTotalLength - Len(c.cborBuf)

\* PLT_P1_CONT: hashed and kept, then decoded when all has come.
PltCont ==
    \E chunk \in PltChunks :
        LET c == PltView
            d == [c EXCEPT !.cborBuf = @ \o chunk]
            whole == Len(d.cborBuf) = c.cborTotalLength
        IN  /\ Enters(PLT)
            /\ c.state = "CBOR"
            /\ UNCHANGED txConst
            /\ \/ ~PltFits(c, Len(chunk)) /\ plt_refuse /\ UNCHANGED hash
               \/ /\ PltFits(c, Len(chunk))
                  /\ Feed([i \in DOMAIN chunk |-> <<"plt", chunk[i]>>])
                  /\ \/ ~whole /\ Ack(PLT, d)
                     \/ whole /\ ~parse_plt_cbor(d.cborBuf) /\ plt_refuse
                     \/ /\ whole /\ parse_plt_cbor(d.cborBuf)
                        /\ Review(PLT, d, startPltDisplay(d, account))

\* A wrong P1, P2 or state, or a CONT without data.
PltWrong ==
    /\ Enters(PLT)
    /\ plt_refuse
    /\ UNCHANGED noFlow

PltPacket == PltInit \/ PltCont \/ PltWrong

-----------------------------------------------------------------------------
(* What a token transaction is, and what of it must be seen. *)

\* The payload follows header, kind, token id and length.
PayloadOf(s) == [i \in 1 .. Len(s) - 4 |-> s[i + 4][2]]

\* CIS-7: the fields of an operation.
FieldsOf(op) ==
    CASE op = "transfer"        -> {"amount", "recipient", "memo"}
      [] op \in {"mint", "burn"} -> {"amount"}
      [] op \in ListOps          -> {"target"}
      [] OTHER                   -> {}

RowsNamed(f) == IF f \in Address THEN Address ELSE {f}
RowName(f)   == IF f \in Address THEN "address" ELSE f

\* Header, token, operation, and the fields the operation takes.
PltRows(s) ==
    LET buf == PayloadOf(s)
    IN  {item \in ItemsOf(s) : item[1] \in {"header", "token"}}
        \cup IF buf = << >> THEN {}
             ELSE {<<"op", OpOf(buf)>>}
                  \cup {<<RowName(f), LastOf(buf, RowsNamed(f))>> :
                            f \in {g \in FieldsOf(OpOf(buf)) : Holds(buf, RowsNamed(g))}}

\* The serialization: one operation, as long as was announced, with all its
\* fields but the memo, which is optional.
IsPlt(s) ==
    LET buf == PayloadOf(s)
    IN  /\ Len(s) >= 5
        /\ s[1][1] = "header" /\ s[2] = <<"kind", PLT>> /\ s[3][1] = "token"
        /\ s[4] = <<"cborLength", Len(buf)>>
        /\ \A i \in 5 .. Len(s) : s[i][1] = "plt"
        /\ {i \in DOMAIN buf : buf[i][1] = "op"} = {1}
        /\ ~Holds(buf, {"other"})
        /\ \A f \in FieldsOf(OpOf(buf)) \ {"memo"} : Holds(buf, RowsNamed(f))
=============================================================================
