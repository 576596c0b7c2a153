---------------------------- MODULE AccountFlows ----------------------------
(***************************************************************************)
(* Account transactions in one session: registering data, unshielding an   *)
(* amount, configuring delegation, deploying, initializing or updating a   *)
(* contract, and token operations share the latch, the union, the hash and *)
(* the screen, and a host may leave one for another at any point.          *)
(***************************************************************************)
EXTENDS RegisterData, TransferToPublic, ConfigureDelegation, Contracts, Plt

AccountInss == {REGISTER, TOPUBLIC, DELEGATION, DEPLOY, INITIALIZE, UPDATE, PLT}

\* A packet out of order: ERROR_INVALID_STATE.
AccountWrongState ==
    /\ \E ins \in AccountInss : Enters(ins)
    /\ Throw
    /\ UNCHANGED noFlow

AccountPacket ==
    \/ RegisterInitial \/ RegisterDatum
    \/ ToPublicInitial \/ ToPublicAmounts \/ ToPublicProof
    \/ handle_sign_configure_delegation
    \/ ContractsPacket
    \/ PltPacket
    \/ AccountWrongState

\* Reviews that are not the last cannot be declined on BAGL.
DeclineAccount ==
    /\ screen.cb \in IF Bagl THEN {"sign"} ELSE {"proceed", "sign"}
    /\ UserDeclines

AccountNext ==
    \/ AccountPacket
    \/ sendSuccessNoIdleCallback \/ register_data_on_data_confirm
    \/ buildAndSignTransactionHash \/ SigningFails \/ DeclineAccount
    \/ Shell(AccountInss)
    \/ Restart

AccountSpec == DeviceInit /\ [][AccountNext]_deviceVars

-----------------------------------------------------------------------------
(* Properties. *)

\* Every variable keeps its type.  The two counts of data bytes to come agree,
\* whichever packet was refused; no count of bytes to come wraps, and no text
\* outgrows its buffer.
AccountTypeOK ==
    /\ latch \in AccountInss \cup {NONE, "GET_APP_NAME"}
    /\ \/ ctx = Wiped
       \/ ContractsContext(ctx)
       \/ ctx.view = "delegation" /\ ctx.texts \in Seq(DelegationFields \X Vals)
       \/ ctx.view = "public" /\ ctx.state \in ToPublicStates /\ ctx.proofSize \in 0 .. ProofMax
       \/ /\ ctx.view = "register" /\ ctx.state \in RegisterStates
          /\ ctx.dataLength \in 0 .. CborMax /\ ctx.cbor.length = ctx.dataLength
          /\ BufLen(ctx.cbor.buf) <= CborMax
       \/ /\ ctx.view = "plt" /\ ctx.state \in PltStates
          /\ Len(ctx.cborBuf) <= ctx.cborTotalLength /\ ctx.cborTotalLength <= PltMax
    /\ path \in Paths \cup {NoPath}
    /\ account \in [header : Headers \cup {"none"}, network : Networks]
    /\ screen.cb \in {"home", "stale", "proceed", "data", "sign"}
    /\ keyPending = FALSE

KindOf(s) == IF Len(s) < 2 THEN NONE ELSE s[2][2]

AccountRows(s) ==
    CASE KindOf(s) = REGISTER   -> RegisterRows(s)
      [] KindOf(s) = TOPUBLIC   -> ToPublicRows(s)
      [] KindOf(s) = DELEGATION -> DelegationRows(s)
      [] KindOf(s) \in {DEPLOY, INITIALIZE, UPDATE} -> ContractRows(s)
      [] KindOf(s) = PLT        -> PltRows(s)
      [] OTHER                  -> ItemsOf(s)

\* What you see is what you sign, although a flow may follow on the remains of
\* another: every row of the signed transaction and the network of the signing
\* path were accepted since the transaction was begun.
AccountSignedWasReviewed ==
    HasSignature => /\ AccountRows(SignedItems) \subseteq approved
                    /\ <<"network", NetworkOf(SigningPath)>> \in approved

\* A signature is only ever made over one whole transaction, never over the
\* beginning of one and the end of another.
AccountSignedIsComplete ==
    HasSignature => \/ IsRegistration(SignedItems)
                    \/ IsToPublic(SignedItems)
                    \/ IsDelegation(SignedItems)
                    \/ IsContractTransaction(SignedItems)
                    \/ IsPlt(SignedItems)

\* doc/ins_sign_plt.md: "each field is shown in human-readable form before the
\* user signs", whatever fields the payload of a token operation holds.
EveryTokenFieldWasShown ==
    HasSignature /\ KindOf(SignedItems) = PLT =>
        LET buf == PayloadOf(SignedItems)
        IN  \A i \in 2 .. Len(buf) : <<RowName(buf[i][1]), buf[i][2]>> \in approved

AccountContract == INSTANCE SigningContract
                       WITH collected <- hash, answer <- reply, Visible <- AccountRows

\* The flows implement the contract of a signing instruction.
AccountFlowsImplementContract == AccountContract!ContractSpec
=============================================================================
