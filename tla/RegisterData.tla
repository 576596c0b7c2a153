---------------------------- MODULE RegisterData ----------------------------
(***************************************************************************)
(* INS_REGISTER_DATA: a CBOR datum of at most MAX_DATA_SIZE bytes in one   *)
(* or two packets, after a review of the header and before one of it.      *)
(***************************************************************************)
EXTENDS Device, CborBlob

REGISTER == "REGISTER_DATA"

RegisterStates == {"zero", "INITIAL", "PAYLOAD_START", "PAYLOAD"}

\* signRegisterData_t and the cborContext_t beside it: both count the bytes to come.
RegisterZero == [view |-> "register", state |-> "zero", dataLength |-> 0, cbor |-> CborZero]
RegisterUnion == IF Union = Wiped THEN RegisterZero ELSE Union
RegisterView ==
    IF IsInitialCall THEN [RegisterUnion EXCEPT !.state = "INITIAL"] ELSE RegisterUnion

-----------------------------------------------------------------------------
(* Screens. *)

uiRegisterDataInitialDisplay(sender) == [cb |-> "proceed", items |-> HeaderPairs(sender)]

\* BAGL asks for the signature on a screen of its own, after the data.
uiRegisterDataPayloadDisplay(c) ==
    [cb |-> IF Bagl THEN "data" ELSE "sign", items |-> CborRows(c.cbor)]

uiSignFlowSharedDisplay == [cb |-> "sign", items |-> {}]

-----------------------------------------------------------------------------
(* Packets and buttons. *)

\* P1_INITIAL
RegisterInitial ==
    \E h \in Headers, p \in Paths, n \in 0 .. CborMax + 1 :
        LET c     == RegisterView
            items == <<<<"kind", REGISTER>>, <<"cborLength", n>>>>
        IN  /\ Enters(REGISTER)
            /\ c.state = "INITIAL"
            /\ \/ /\ CborLengthFits(n)
                  /\ hashAccountTransactionHeaderAndKind(h, p, items)
                  /\ Review(REGISTER,
                            [c EXCEPT !.dataLength = n, !.cbor.length = n,
                                      !.state = "PAYLOAD_START"],
                            uiRegisterDataInitialDisplay(AccountSender(h, p)))
               \/ HeaderThrows(h, p, SubSeq(items, 1, 1))

\* The second packet of data has to be the last one.
TakesDatum_Any(c, left) == c.state \in {"PAYLOAD_START", "PAYLOAD"}
TakesDatum(c, left) == c.state = "PAYLOAD_START" \/ (c.state = "PAYLOAD" /\ left = 0)

\* P1_DATA: the chunk is counted and hashed before the state is looked at.
RegisterDatum ==
    \E v \in Vals, n \in 1 .. CborChunkMax :
        LET c     == RegisterView
            left  == c.dataLength - n
            first == c.state = "PAYLOAD_START"
            read  == IF first THEN readCborInitial(c.cbor, v, n) ELSE readCborContent(c.cbor, v, n)
            d     == [c EXCEPT !.dataLength = left, !.cbor = read, !.state = "PAYLOAD"]
            takes == TakesDatum(c, left)
        IN  /\ Enters(REGISTER)
            /\ UNCHANGED txConst
            /\ \/ c.dataLength < n /\ Throw /\ UNCHANGED hash
               \/ /\ c.dataLength >= n
                  /\ Feed(<<CborItem(v, n)>>)
                  /\ \/ ~takes /\ Throw
                     \/ takes /\ left = 0 /\ send_rejection(d)
                     \/ takes /\ left = 0 /\ Review(REGISTER, d, uiRegisterDataPayloadDisplay(d))
                     \/ takes /\ left > 0 /\ Ack(REGISTER, d)

\* BAGL: the data is accepted.
register_data_on_data_confirm ==
    /\ screen.cb = "data"
    /\ approved' = approved \cup screen.items
    /\ IF ctx # Wiped /\ ctx.dataLength > 0
       THEN reply' = Success(<< >>) /\ screen' = Stale
       ELSE screen' = uiSignFlowSharedDisplay /\ UNCHANGED reply
    /\ UNCHANGED <<latch, ctx, keyPending, hash, path, account>>

-----------------------------------------------------------------------------
(* What a registration is, and what of it must be seen. *)

RegisterRows(s) ==
    {item \in ItemsOf(s) : item[1] = "header"}
        \cup IF \E i \in DOMAIN s : IsCbor(s[i]) THEN {<<"blob", BlobOf(s)>>} ELSE {}

IsRegistration(s) ==
    /\ Len(s) \in {4, 5}
    /\ s[1][1] = "header" /\ s[2] = <<"kind", REGISTER>> /\ s[3][1] = "cborLength"
    /\ \A i \in 4 .. Len(s) : IsCbor(s[i])
    /\ s[3][2] = BufLen(BlobOf(s)) /\ s[3][2] <= CborMax
=============================================================================
