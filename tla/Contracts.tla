------------------------------ MODULE Contracts -----------------------------
(***************************************************************************)
(* INS_DEPLOY_MODULE, INS_INIT_CONTRACT and INS_UPDATE_CONTRACT: payloads  *)
(* of any length streamed through the transaction hash, and represented on *)
(* the one review at the end by a name that fits or a digest.  What keeps  *)
(* the packets in order is mostly the counts of bytes still to come.       *)
(* A chunk is the sequence of its bytes.                                   *)
(***************************************************************************)
EXTENDS Device

CONSTANTS
    LengthMax,   \* longest name, parameter or source (65535, 2^32 - 1)
    ChunkMax,    \* most payload bytes in one packet
    NameSize     \* CONTRACT_NAME_SIZE (256): room for the name on screen, with its NUL

ASSUME ContractsAssumption ==
    LengthMax \in Nat /\ ChunkMax \in Nat \ {0} /\ NameSize \in Nat \ {0}

DEPLOY == "DEPLOY_MODULE"
INITIALIZE == "INIT_CONTRACT"
UPDATE == "UPDATE_CONTRACT"

\* The payload bytes of a packet, at least low of them.
Chunks(low) == UNION {[1 .. n -> Vals] : n \in low .. ChunkMax}

-----------------------------------------------------------------------------
(* Deploying a module. *)

\* deployModule_t; source stands for the running digest of it.
DeployZero == [view |-> "deploy", version |-> "none", remaining |-> 0, source |-> << >>]
DeployView == IF Union = Wiped THEN DeployZero ELSE Union

uiDeployModuleDisplay(c) ==
    [cb |-> "sign",
     items |-> addAccountHeaderPairs \cup {<<"version", c.version>>, <<"source", c.source>>}]

DeployInitial ==
    \E h \in Headers, p \in Paths, v \in Vals, n \in 0 .. LengthMax :
        LET items == <<<<"kind", DEPLOY>>, <<"version", v>>, <<"sourceLength", n>>>>
        IN  /\ Enters(DEPLOY)
            /\ IsInitialCall
            /\ \/ /\ hashAccountTransactionHeaderAndKind(h, p, items)
                  /\ Ack(DEPLOY, [DeployView EXCEPT !.version = v, !.remaining = n])
               \/ HeaderThrows(h, p, items)

SourceFits(c, bytes) == Len(bytes) <= c.remaining

\* P1_SOURCE, while any of the source is still to come.
DeploySource ==
    \E bytes \in Chunks(1) :
        LET c == DeployView
            left == c.remaining - Len(bytes)
            d == [c EXCEPT !.remaining = left, !.source = @ \o bytes]
        IN  /\ Enters(DEPLOY)
            /\ UNCHANGED txConst
            /\ \/ /\ c.remaining = 0 \/ ~SourceFits(c, bytes)
                  /\ Throw
                  /\ UNCHANGED hash
               \/ /\ c.remaining > 0 /\ SourceFits(c, bytes)
                  /\ Feed(<<<<"source", bytes>>>>)
                  /\ \/ left > 0 /\ Ack(DEPLOY, d)
                     \/ left = 0 /\ Review(DEPLOY, d, uiDeployModuleDisplay(d))
                     \/ left = 0 /\ Throw

-----------------------------------------------------------------------------
(* Initializing and updating a contract. *)

\* initContract_t and updateContract_t.  head is the texts of the first packet,
\* nameDisplay the text kept, payload stands for the running digest.
ContractZero == [view |-> "contract", state |-> "zero", head |-> {}, nameLength |-> 0,
                 remainingName |-> 0, remainingParams |-> 0,
                 nameDisplay |-> << >>, payload |-> << >>]
ContractView == IF Union = Wiped THEN ContractZero ELSE Union

HeadItems(ins, v) ==
    IF ins = INITIALIZE THEN <<<<"amount", v>>, <<"moduleRef", v>>>>
    ELSE <<<<"amount", v>>, <<"index", v>>, <<"subIndex", v>>>>

NameIsKept_OffByOne(n) == n <= NameSize
NameIsKept(n) == n < NameSize

\* The name as it was kept, or "(too long to display - see hash)".
NameRow(n, text) == IF NameIsKept(n) THEN <<"name", text>> ELSE <<"name", "too long">>

uiContractDisplay(c) ==
    [cb |-> "sign",
     items |-> addAccountHeaderPairs \cup c.head
                   \cup {NameRow(c.nameLength, c.nameDisplay), <<"payload", c.payload>>}]

ContractInitial(ins) ==
    \E h \in Headers, p \in Paths, v \in Vals :
        LET items == <<<<"kind", ins>>>> \o HeadItems(ins, v)
        IN  /\ Enters(ins)
            /\ IsInitialCall
            /\ \/ /\ hashAccountTransactionHeaderAndKind(h, p, items)
                  /\ Ack(ins, [ContractView EXCEPT !.state = "NAME_FIRST",
                                                   !.head = ItemsOf(HeadItems(ins, v))])
               \/ HeaderThrows(h, p, items)

\* What a chunk claims of the bytes still to come; the first chunk of a name or
\* of parameters announces how many there are.
MoreFits(remaining, bytes) == Len(bytes) <= remaining

\* P1_NAME.  A chunk that is not the first is checked by length alone.
ContractName(ins) ==
    \E n \in 0 .. LengthMax, bytes \in Chunks(0) :
        LET c     == ContractView
            first == c.state = "NAME_FIRST"
            due   == IF first THEN n ELSE c.remainingName
            total == IF first THEN n ELSE c.nameLength
            left  == due - Len(bytes)
            begun == [c EXCEPT !.nameLength = total, !.remainingName = due,
                               !.state = IF first THEN "NAME_NEXT" ELSE @]
            d     == [begun EXCEPT
                        !.payload = @ \o bytes,
                        !.nameDisplay = IF NameIsKept(total) THEN @ \o bytes ELSE @,
                        !.remainingName = left,
                        !.state = IF left = 0 THEN "PARAMS_FIRST" ELSE @]
            items == (IF first THEN <<<<"nameLength", n>>>> ELSE << >>) \o <<<<"name", bytes>>>>
        IN  /\ Enters(ins)
            /\ first \/ (Len(bytes) > 0 /\ n = 0)
            /\ UNCHANGED txConst
            /\ \/ ~MoreFits(due, bytes) /\ Throw /\ UNCHANGED hash
               \/ first /\ Throw /\ UNCHANGED hash
               \/ /\ MoreFits(due, bytes) /\ Len(bytes) > 0
                  /\ send_rejection(begun)
                  /\ UNCHANGED hash
               \/ /\ MoreFits(due, bytes)
                  /\ Feed(items)
                  /\ Ack(ins, d)

\* P1_PARAMS.
ContractParams(ins) ==
    \E n \in 0 .. LengthMax, bytes \in Chunks(0) :
        LET c     == ContractView
            first == c.state = "PARAMS_FIRST"
            due   == IF first THEN n ELSE c.remainingParams
            left  == due - Len(bytes)
            d     == [c EXCEPT !.payload = @ \o bytes, !.remainingParams = left,
                               !.state = IF first THEN "PARAMS_NEXT" ELSE @]
            items == (IF first THEN <<<<"paramsLength", n>>>> ELSE << >>) \o <<<<"params", bytes>>>>
        IN  /\ Enters(ins)
            /\ first \/ (Len(bytes) > 0 /\ n = 0)
            /\ UNCHANGED txConst
            /\ \/ ~MoreFits(due, bytes) /\ Throw /\ UNCHANGED hash
               \/ first /\ Throw /\ UNCHANGED hash
               \/ /\ MoreFits(due, bytes)
                  /\ Feed(items)
                  /\ \/ left > 0 /\ Ack(ins, d)
                     \/ left = 0 /\ Review(ins, d, uiContractDisplay(d))
                     \/ left = 0 /\ Throw

ContractsPacket ==
    \/ DeployInitial \/ DeploySource
    \/ \E ins \in {INITIALIZE, UPDATE} :
           ContractInitial(ins) \/ ContractName(ins) \/ ContractParams(ins)

-----------------------------------------------------------------------------
(* What these transactions are, and what of them must be seen. *)

\* The bytes of the items of s with this tag, one after the other.
Bytes(s, tag) ==
    LET cat[i \in 0 .. Len(s)] ==
            IF i = 0 THEN << >>
            ELSE IF s[i][1] = tag THEN cat[i - 1] \o s[i][2]
            ELSE cat[i - 1]
    IN  cat[Len(s)]

Announced(s, tag) == CHOOSE n \in 0 .. LengthMax : <<tag, n>> \in ItemsOf(s)

\* The text of the name always leaves room for the NUL in nameDisplay, and the
\* counts of bytes to come never wrap.
ContractsContext(c) ==
    \/ c.view = "deploy" /\ c.remaining \in 0 .. LengthMax
    \/ /\ c.view = "contract"
       /\ c.state \in {"zero", "NAME_FIRST", "NAME_NEXT", "PARAMS_FIRST", "PARAMS_NEXT"}
       /\ {c.nameLength, c.remainingName, c.remainingParams} \subseteq 0 .. LengthMax
       /\ Len(c.nameDisplay) < NameSize

\* The rows owed to a transcript: the fields of the first packet, and either
\* version and source digest, or name and digest of name and parameters.
ContractRows(s) ==
    {item \in ItemsOf(s) :
        item[1] \in {"header", "version", "amount", "moduleRef", "index", "subIndex"}}
    \cup IF <<"kind", DEPLOY>> \in ItemsOf(s) THEN {<<"source", Bytes(s, "source")>>}
         ELSE {NameRow(Announced(s, "nameLength"), Bytes(s, "name")),
               <<"payload", Bytes(s, "name") \o Bytes(s, "params")>>}

\* The parts of s with this tag: announced once, right before them, and whole.
IsPart(s, length, tag) ==
    \E i \in DOMAIN s :
        /\ s[i][1] = length
        /\ s[i][2] = Len(Bytes(s, tag))
        /\ \A j \in DOMAIN s : s[j][1] = length => i = j
        /\ \A j \in DOMAIN s : s[j][1] = tag => j > i /\ s[j - 1][1] \in {length, tag}

\* The name before the parameters, each as long as announced, at any split into
\* chunks, although the handlers do not check the state of a chunk that is not
\* the first.
IsContractTransaction(s) ==
    /\ Len(s) > 2 /\ s[1][1] = "header" /\ s[2][1] = "kind"
    /\ \/ s[2][2] = DEPLOY /\ IsPart(s, "sourceLength", "source")
       \/ /\ s[2][2] \in {INITIALIZE, UPDATE}
          /\ Len(s) > 5
          /\ LET head == HeadItems(s[2][2], s[3][2])
             IN  SubSeq(s, 3, 2 + Len(head)) = head /\ s[3 + Len(head)][1] = "nameLength"
          /\ IsPart(s, "nameLength", "name") /\ IsPart(s, "paramsLength", "params")
          /\ s[Len(s)][1] = "params"
=============================================================================
