------------------------- MODULE ConfigureDelegation ------------------------
(***************************************************************************)
(* INS_CONFIGURE_DELEGATION: one packet that holds a bitmap and the fields *)
(* it declares, and one review.                                            *)
(***************************************************************************)
EXTENDS Device

DELEGATION == "CONFIGURE_DELEGATION"

DelegationFields == {"capital", "restakeEarnings", "delegationTarget"}

\* A field stands in the packet if the bitmap declares it.
IfDeclared(f, has, v) == IF f \in has THEN <<<<f, v>>>> ELSE << >>

\* The fields as they stand in the packet, all with the value v.
DelegationItems(has, v) ==
    IfDeclared("capital", has, v) \o IfDeclared("restakeEarnings", has, v)
        \o IfDeclared("delegationTarget", has, v)

\* signConfigureDelegationContext_t: which fields there are, and their texts.
DelegationContext(has, v) == [view |-> "delegation", texts |-> DelegationItems(has, v)]

startConfigureDelegationDisplay_NoTarget(c, sender) ==
    [cb |-> "sign",
     items |-> HeaderPairs(sender) \cup {row \in ItemsOf(c.texts) : row[1] # "delegationTarget"}]
startConfigureDelegationDisplay(c, sender) ==
    [cb |-> "sign", items |-> HeaderPairs(sender) \cup ItemsOf(c.texts)]

\* A packet without a field, or one that is longer or shorter than its bitmap
\* says, throws.  So does any packet that is not the first.
handle_sign_configure_delegation ==
    \E h \in Headers, p \in Paths, has \in SUBSET DelegationFields, v \in Vals :
        LET items == <<<<"kind", DELEGATION>>, <<"bitmap", has>>>> \o DelegationItems(has, v)
            c     == DelegationContext(has, v)
        IN  /\ Enters(DELEGATION)
            /\ IsInitialCall
            /\ \/ /\ has # {}
                  /\ hashAccountTransactionHeaderAndKind(h, p, items)
                  /\ Review(DELEGATION, c,
                            startConfigureDelegationDisplay(c, AccountSender(h, p)))
               \/ HeaderThrows(h, p, items)

-----------------------------------------------------------------------------
(* What a configuration is, and what of it must be seen. *)

DelegationRows(s) ==
    {item \in ItemsOf(s) : item[1] \in {"header"} \cup DelegationFields}

IsDelegation(s) ==
    /\ Len(s) > 3
    /\ s[1][1] = "header" /\ s[2] = <<"kind", DELEGATION>> /\ s[3][1] = "bitmap"
    /\ SubSeq(s, 4, Len(s)) = DelegationItems(s[3][2], s[4][2])
=============================================================================
