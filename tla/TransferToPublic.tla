-------------------------- MODULE TransferToPublic --------------------------
(***************************************************************************)
(* INS_TRANSFER_TO_PUBLIC: header, amounts and recipient, then proof bytes *)
(* until as many have come as were announced, then one review.             *)
(***************************************************************************)
EXTENDS Device

CONSTANTS
    ProofMax,        \* longest proof (65535)
    ProofChunkMax    \* most proof bytes in one packet (255)

ASSUME ProofAssumption == ProofMax \in Nat /\ ProofChunkMax \in Nat \ {0}

TOPUBLIC == "TRANSFER_TO_PUBLIC"

ToPublicStates == {"zero", "INITIAL", "REMAINING_AMOUNT", "PROOF"}

\* signTransferToPublic_t
ToPublicZero == [view |-> "public", state |-> "zero", amount |-> "none", to |-> "none",
                 proofSize |-> 0]
ToPublicView ==
    IF IsInitialCall THEN [ToPublicZero EXCEPT !.state = "INITIAL"]
    ELSE IF ctx = Wiped THEN ToPublicZero ELSE ctx

uiSignTransferToPublicDisplay(c) ==
    [cb |-> "sign",
     items |-> addAccountHeaderPairs \cup {<<"amount", c.amount>>, <<"to", c.to>>}]

-----------------------------------------------------------------------------
(* Packets. *)

\* P1_INITIAL
ToPublicInitial ==
    \E h \in Headers, p \in Paths :
        LET items == <<<<"kind", TOPUBLIC>>>>
        IN  /\ Enters(TOPUBLIC)
            /\ ToPublicView.state = "INITIAL"
            /\ \/ /\ hashAccountTransactionHeaderAndKind(h, p, items)
                  /\ Ack(TOPUBLIC, [ToPublicView EXCEPT !.state = "REMAINING_AMOUNT"])
               \/ HeaderThrows(h, p, items)

\* P1_REMAINING_AMOUNT.  The size of the proof is read but not hashed.
ToPublicAmounts ==
    \E a, r \in Vals, n \in 0 .. ProofMax :
        LET c     == ToPublicView
            items == <<<<"remaining", a>>, <<"amount", a>>, <<"to", r>>, <<"index", a>>>>
        IN  /\ Enters(TOPUBLIC)
            /\ c.state = "REMAINING_AMOUNT"
            /\ UNCHANGED txConst
            /\ \/ /\ Feed(items)
                  /\ Ack(TOPUBLIC, [c EXCEPT !.amount = a, !.to = r, !.proofSize = n,
                                             !.state = "PROOF"])
               \/ ThrowAfterPrefix(items)

\* P1_PROOF: hashed before it is measured.
ToPublicProof ==
    \E n \in 1 .. ProofChunkMax :
        LET c == ToPublicView
        IN  /\ Enters(TOPUBLIC)
            /\ c.state = "PROOF"
            /\ UNCHANGED txConst
            /\ Feed(<<<<"proof", n>>>>)
            /\ \/ c.proofSize = n /\ Review(TOPUBLIC, c, uiSignTransferToPublicDisplay(c))
               \/ c.proofSize < n /\ Throw
               \/ /\ c.proofSize > n
                  /\ Ack(TOPUBLIC, [c EXCEPT !.proofSize = @ - n])

-----------------------------------------------------------------------------
(* What an unshielding is, and what of it must be seen. *)

ToPublicRows(s) == {item \in ItemsOf(s) : item[1] \in {"header", "amount", "to"}}

IsToPublic(s) ==
    /\ Len(s) > 6
    /\ [i \in 1 .. 6 |-> s[i][1]] = <<"header", "kind", "remaining", "amount", "to", "index">>
    /\ s[2][2] = TOPUBLIC
    /\ \A i \in 7 .. Len(s) : s[i][1] = "proof"
=============================================================================
