--------------------------- MODULE PublicInfoForIp --------------------------
(***************************************************************************)
(* INS_PUBLIC_INFO_FOR_IP: identifiers, public keys one to a packet, and a *)
(* threshold.  Every key but the last is reviewed as it comes; the last is *)
(* shown with the threshold.  The identifiers go on whichever is first.    *)
(***************************************************************************)
EXTENDS Device

CONSTANT KeysMax    \* most public keys (255)

ASSUME KeysAssumption == KeysMax \in Nat

IPINFO == "PUBLIC_INFO_FOR_IP"

IpStates == {"zero", "INITIAL", "VERIFICATION_KEY", "THRESHOLD"}

\* signPublicInformationForIp_t
IpZero == [view |-> "ip", state |-> "zero", keysLeft |-> 0, showIntro |-> FALSE,
           ids |-> "none", key |-> "none", threshold |-> "none"]
IpView ==
    IF IsInitialCall THEN [IpZero EXCEPT !.state = "INITIAL"]
    ELSE IF ctx = Wiped THEN IpZero ELSE ctx

-----------------------------------------------------------------------------
(* Screens.  On BAGL those that open with "Review identity provider info"  *)
(* acknowledge the packet from that step.                                  *)

IdRows(c)  == {<<"idCredPub", c.ids>>, <<"credId", c.ids>>}
KeyRows(c) == {<<"key", c.key>>, <<"keyType", c.key>>}

FromIntro == IF Bagl THEN {{}} ELSE {}

uiReviewPublicInformationForIpDisplay(c) ==
    [cb |-> "proceed", items |-> KeyRows(c) \cup IdRows(c), early |-> FromIntro]
uiSignPublicInformationForIpPublicKeyDisplay(c) ==
    [cb |-> "proceed", items |-> KeyRows(c), early |-> {}]
uiSignPublicInformationForIpCompleteDisplay(c) ==
    [cb |-> "sign", items |-> KeyRows(c) \cup IdRows(c) \cup {<<"threshold", c.threshold>>},
     early |-> FromIntro]
uiSignPublicInformationForIpFinalDisplay(c) ==
    [cb |-> "sign", items |-> KeyRows(c) \cup {<<"threshold", c.threshold>>}, early |-> {}]

-----------------------------------------------------------------------------
(* Packets. *)

\* P1_INITIAL
IpInitial ==
    \E p \in Paths, v \in Vals, n \in 0 .. KeysMax :
        LET items == <<<<"idCredPub", v>>, <<"credId", v>>, <<"keyCount", n>>>>
        IN  /\ Enters(IPINFO)
            /\ IpView.state = "INITIAL"
            /\ \/ /\ BeginTranscript(p, items)
                  /\ Ack(IPINFO, [IpView EXCEPT !.ids = v, !.keysLeft = n, !.showIntro = TRUE,
                                                !.state = "VERIFICATION_KEY"])
               \/ BeginThrows(p, SubSeq(items, 1, 2))

\* P1_VERIFICATION_KEY.  The intro is shown once, with the first key that is
\* reviewed.
AfterIntro_Forgets(c) == [c EXCEPT !.showIntro = FALSE]
AfterIntro(c) == IF c.keysLeft # 0 THEN [c EXCEPT !.showIntro = FALSE] ELSE c

KeyIsDue_Unchecked(c) == TRUE
KeyIsDue(c) == c.keysLeft > 0

IpKey ==
    \E v \in Vals :
        LET c     == IpView
            d     == [c EXCEPT !.key = v, !.keysLeft = @ - 1]
            items == <<<<"keyType", v>>, <<"keyIndex", v>>, <<"key", v>>>>
        IN  /\ Enters(IPINFO)
            /\ c.state = "VERIFICATION_KEY"
            /\ UNCHANGED txConst
            /\ \/ ~KeyIsDue(c) /\ Throw /\ UNCHANGED hash
               \/ KeyIsDue(c) /\ ThrowAfterPrefix(SubSeq(items, 1, 2))
               \/ /\ KeyIsDue(c) /\ d.keysLeft # 0
                  /\ Feed(items)
                  /\ Review(IPINFO, AfterIntro(d),
                            IF c.showIntro THEN uiReviewPublicInformationForIpDisplay(d)
                            ELSE uiSignPublicInformationForIpPublicKeyDisplay(d))
               \/ /\ KeyIsDue(c) /\ d.keysLeft = 0
                  /\ Feed(items)
                  /\ Ack(IPINFO, [AfterIntro(d) EXCEPT !.state = "THRESHOLD"])

\* P1_THRESHOLD: the state is left as it is.
IpThreshold ==
    \E v \in Vals :
        LET c == [IpView EXCEPT !.threshold = v]
        IN  /\ Enters(IPINFO)
            /\ c.state = "THRESHOLD"
            /\ UNCHANGED txConst
            /\ Feed(<<<<"threshold", v>>>>)
            /\ Review(IPINFO, c, IF c.showIntro THEN uiSignPublicInformationForIpCompleteDisplay(c)
                                 ELSE uiSignPublicInformationForIpFinalDisplay(c))

IpWrongState ==
    /\ Enters(IPINFO)
    /\ Throw
    /\ UNCHANGED noFlow

IpPacket == IpInitial \/ IpKey \/ IpThreshold \/ IpWrongState

-----------------------------------------------------------------------------
(* What this transaction is, and what of it must be seen. *)

\* The count of keys to come does not wrap, and the threshold is only waited for
\* when they have all come.
IpContext(c) ==
    /\ c.view = "ip" /\ c.state \in IpStates /\ c.keysLeft \in 0 .. KeysMax
    /\ c.showIntro \in BOOLEAN
    /\ c.state = "THRESHOLD" => c.keysLeft = 0 /\ c.key \in Vals

\* The count and the index of a key have no row, and no screen of this flow
\* names the network.
IpRows(s) == {item \in ItemsOf(s) : item[1] \notin {"keyCount", "keyIndex"}}

\* The identifiers, as many keys as announced, and one threshold.
IsPublicInfo(s) ==
    /\ Len(s) > 3 /\ s[3][1] = "keyCount" /\ s[3][2] > 0
    /\ [i \in DOMAIN s |-> s[i][1]] =
           <<"idCredPub", "credId", "keyCount">>
             \o [i \in 1 .. 3 * s[3][2] |->
                    CASE i % 3 = 1 -> "keyType" [] i % 3 = 2 -> "keyIndex" [] OTHER -> "key"]
             \o <<"threshold">>
=============================================================================
