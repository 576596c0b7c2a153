----------------------------- MODULE PublicKey ------------------------------
(***************************************************************************)
(* INS_GET_PUBLIC_KEY: a key is derived and sent, at once or after a       *)
(* review; after a review the key that was sent stays on a comparison      *)
(* screen, behind which other instructions are already let in.             *)
(***************************************************************************)
EXTENDS Device

VARIABLE pinned    \* global_reviewed_path

keyVars == <<deviceVars, pinned>>

KEY == "GET_PUBLIC_KEY"

\* exportPublicKeyContext_t.  display holds the identity and account indices
\* of the path, not its network.
IdentityOf(p) == p[2]
KeyContext(display, signed) == [view |-> "key", display |-> display, signPublicKey |-> signed]

\* The key the device derives for a path stands for itself.
KeyOf(p) == p
KeyReply(p, signed) == Success(<<"key", KeyOf(p), signed>>)

uiGeneratePubkey(p) ==
    [cb |-> "key",
     items |-> {<<"identity", IdentityOf(p)>>} \cup IF Bagl THEN {<<"key", KeyOf(p)>>} ELSE {}]

\* global_compare_public_key: the identity text kept from the review, and the
\* key that was sent.
uiComparePubkey(display, key) ==
    [cb |-> "compare",
     items |-> {<<"key", key>>} \cup IF Bagl THEN {} ELSE {<<"identity", display>>}]

\* The path send_public_key derives from.
PathToSend_Global == path
PathToSend == pinned

\* signPublicKey and display as send_public_key finds them in the union: what
\* another instruction left there reads as anything.
SignFlags == IF ctx # Wiped /\ ctx.view = "key" THEN {ctx.signPublicKey}
             ELSE IF ctx = Wiped THEN {FALSE} ELSE BOOLEAN
DisplayIn(c) == IF c # Wiped /\ c.view = "key" THEN c.display ELSE "none"

\* A request while a review of one is waiting is refused, keeping the claim.
RefuseWhilePending == keyPending

handle_get_public_key ==
    /\ Enters(KEY)
    /\ UNCHANGED <<hash, account, approved>>
    /\ \/ /\ RefuseWhilePending
          /\ latch' = KEY
          /\ ctx' = Union
          /\ reply' = Refused
          /\ UNCHANGED <<screen, keyPending, path, pinned>>
       \/ \E p \in Paths, signed \in BOOLEAN :
             /\ ~RefuseWhilePending
             /\ \/ /\ path' = p /\ pinned' = p
                   /\ ctx' = KeyContext(IdentityOf(p), signed)
                   /\ latch' = KEY
                   /\ keyPending' = TRUE
                   /\ reply' = Owed
                   /\ screen' = uiGeneratePubkey(p)
                \/ /\ path' = p /\ pinned' = p            \* P1_SKIP_DISPLAY
                   /\ ctx' = KeyContext(DisplayIn(Union), signed)
                   /\ send_success(KeyReply(p, signed).body)
                \/ /\ \/ path' \in {path, p} /\ UNCHANGED pinned
                      \/ path' = p /\ pinned' = p
                   /\ Throw

\* Accept: send_public_key(true).
send_public_key_confirm ==
    /\ screen.cb = "key"
    /\ UNCHANGED <<noFlow, pinned>>
    /\ \/ /\ keyPending' = FALSE
          /\ \E signed \in SignFlags : reply' = KeyReply(PathToSend, signed)
          /\ screen' = uiComparePubkey(DisplayIn(ctx), KeyOf(PathToSend))
          /\ latch' = NONE
          /\ UNCHANGED ctx
       \/ CallbackThrow

DeclineKey ==
    /\ screen.cb = "key"
    /\ UserDeclines
    /\ UNCHANGED pinned

\* Either answer on the comparison screen; NBGL goes by a status page.
review_choice ==
    /\ screen.cb = "compare"
    /\ \/ Bagl /\ ui_menu_main
       \/ ~Bagl /\ screen' = [cb |-> "status", items |-> {}] /\ UNCHANGED <<latch, keyPending>>
    /\ UNCHANGED <<ctx, reply, noFlow, pinned>>

KeyButton ==
    \/ send_public_key_confirm \/ DeclineKey \/ review_choice
    \/ StatusPageCloses /\ UNCHANGED pinned

-----------------------------------------------------------------------------
(* What the reply holds. *)

HasKey == reply.sw = "success" /\ reply.body # << >> /\ reply.body[1] = "key"
SentKey == reply.body[2]
=============================================================================
