------------------------------ MODULE Transfer ------------------------------
(***************************************************************************)
(* INS_SIGN_TRANSFER, one packet and one review, and                       *)
(* INS_SIGN_TRANSFER_WITH_MEMO, whose memo arrives in chunks between the   *)
(* header and the amount.  Nothing is shown before the whole is received.  *)
(* The fee row a host may ask for is outside the hash and is left out.     *)
(***************************************************************************)
EXTENDS Device, CborBlob

TRANSFER == "SIGN_TRANSFER"
WITHMEMO == "SIGN_TRANSFER_WITH_MEMO"

TransferStates == {"zero", "INITIAL", "MEMO_INITIAL", "MEMO", "AMOUNT"}

\* signTransferContext_t, and the cborContext_t beside it in the union.
TransferZero == [view |-> "transfer", state |-> "zero", to |-> "none", amount |-> "none",
                 cbor |-> CborZero]

\* The union read as such by a handler; only the memo handler keeps a state.
TransferUnion == IF Union = Wiped \/ Union.view # "transfer" THEN TransferZero ELSE Union
TransferView ==
    IF IsInitialCall THEN [TransferUnion EXCEPT !.state = "INITIAL"] ELSE TransferUnion

startTransferDisplay_NoMemo(c, sender, displayMemo) ==
    [cb |-> "sign",
     items |-> HeaderPairs(sender) \cup {<<"to", c.to>>, <<"amount", c.amount>>}]

startTransferDisplay(c, sender, displayMemo) ==
    [cb |-> "sign",
     items |-> HeaderPairs(sender) \cup {<<"to", c.to>>, <<"amount", c.amount>>}
                   \cup IF displayMemo THEN CborRows(c.cbor) ELSE {}]

handle_sign_transfer ==
    \E h \in Headers, p \in Paths, r \in Vals, a \in Vals :
        LET c     == [TransferUnion EXCEPT !.to = r, !.amount = a]
            items == <<<<"kind", TRANSFER>>, <<"to", r>>, <<"amount", a>>>>
        IN  /\ Enters(TRANSFER)
            /\ \/ /\ hashAccountTransactionHeaderAndKind(h, p, items)
                  /\ Review(TRANSFER, c, startTransferDisplay(c, AccountSender(h, p), FALSE))
               \/ HeaderThrows(h, p, items)

\* P1_INITIAL_WITH_MEMO
TransferInitialWithMemo ==
    \E h \in Headers, p \in Paths, r \in Vals, n \in 0 .. CborMax + 1 :
        LET c     == TransferView
            items == <<<<"kind", WITHMEMO>>, <<"to", r>>, <<"cborLength", n>>>>
        IN  /\ Enters(WITHMEMO)
            /\ c.state = "INITIAL"
            /\ \/ /\ CborLengthFits(n)
                  /\ hashAccountTransactionHeaderAndKind(h, p, items)
                  /\ Ack(WITHMEMO, [c EXCEPT !.to = r, !.cbor.length = n,
                                             !.state = "MEMO_INITIAL"])
               \/ HeaderThrows(h, p, SubSeq(items, 1, 2))

\* P1_MEMO: the chunk is hashed before it is read.
TransferMemo ==
    \E v \in Vals, n \in 1 .. CborChunkMax :
        LET c     == TransferView
            first == c.state = "MEMO_INITIAL"
            read  == IF first THEN readCborInitial(c.cbor, v, n) ELSE readCborContent(c.cbor, v, n)
            fits  == IF first THEN ChunkFits(c.cbor, n) ELSE ContentFits(c.cbor, n)
        IN  /\ Enters(WITHMEMO)
            /\ c.state \in {"MEMO_INITIAL", "MEMO"}
            /\ UNCHANGED txConst
            /\ Feed(<<CborItem(v, n)>>)
            /\ \/ ~fits /\ Throw
               \/ fits /\ read.length = 0 /\ send_rejection([c EXCEPT !.cbor = read])
               \/ /\ fits
                  /\ Ack(WITHMEMO, [c EXCEPT !.cbor = read,
                                    !.state = IF read.length = 0 THEN "AMOUNT" ELSE "MEMO"])

\* P1_AMOUNT
TransferAmount ==
    \E a \in Vals :
        LET c == [TransferView EXCEPT !.amount = a]
        IN  /\ Enters(WITHMEMO)
            /\ c.state = "AMOUNT"
            /\ UNCHANGED txConst
            /\ \/ /\ Feed(<<<<"amount", a>>>>)
                  /\ Review(WITHMEMO, c, startTransferDisplay(c, account, TRUE))
               \/ Throw /\ UNCHANGED hash

\* A packet out of order, or with a P1 or P2 that is not expected.
TransferWrongState ==
    /\ Enters(TRANSFER) \/ Enters(WITHMEMO)
    /\ Throw
    /\ UNCHANGED noFlow

TransferPacket ==
    \/ handle_sign_transfer \/ TransferInitialWithMemo \/ TransferMemo \/ TransferAmount
    \/ TransferWrongState

-----------------------------------------------------------------------------
(* What a transfer is, and what of it must be seen. *)

TransferItem ==
    UNION {{"header"} \X Headers, {"kind"} \X {TRANSFER, WITHMEMO}, {"to", "amount"} \X Vals,
           {"cborLength"} \X (0 .. CborMax), {"cbor"} \X Vals \X (1 .. CborChunkMax)}

\* The kind is implied by the review's title, the memo is shown decoded and
\* as a whole, so its length and its chunks have no row of their own.
TransferRows(s) ==
    {item \in ItemsOf(s) : item[1] \in {"header", "to", "amount"}}
        \cup IF s # << >> /\ \E i \in DOMAIN s : IsCbor(s[i]) THEN {<<"blob", BlobOf(s)>>} ELSE {}

\* The serialization of a transfer: with a memo, its bytes add up to the
\* announced length, which the buffer can hold.
IsTransfer(s) ==
    /\ Len(s) >= 4
    /\ s[1][1] = "header"
    /\ \/ /\ s[2] = <<"kind", TRANSFER>>
          /\ Len(s) = 4 /\ s[3][1] = "to" /\ s[4][1] = "amount"
       \/ /\ s[2] = <<"kind", WITHMEMO>>
          /\ s[3][1] = "to" /\ s[4][1] = "cborLength" /\ s[Len(s)][1] = "amount"
          /\ \A i \in 5 .. Len(s) - 1 : IsCbor(s[i])
          /\ 0 < s[4][2] /\ s[4][2] <= CborMax /\ s[4][2] = BufLen(BlobOf(s))
=============================================================================
