-------------------------- MODULE PrivateKeyExport --------------------------
(***************************************************************************)
(* INS_EXPORT_PRIVATE_KEY_NEW and INS_EXPORT_PRIVATE_KEY_LEGACY: a review  *)
(* names what is released, and the keys are derived when it is accepted,   *)
(* from what the union and the path hold by then.                          *)
(***************************************************************************)
EXTENDS Device

CONSTANT Purposes     \* the purposes (P1) a host asks for

NEWKEYS == "EXPORT_PRIVATE_KEY_NEW"
OLDKEYS == "EXPORT_PRIVATE_KEY_LEGACY"

AllPurposes == {"identity creation", "account creation", "recovery", "discovery", "zk proof"}

ASSUME PurposesAssumption == Purposes \subseteq AllPurposes

\* The key types of a purpose, in the order they are sent.
keysToExport(purpose) ==
    CASE purpose = "identity creation" -> <<"IdCredSec", "PRF", "blinding">>
      [] purpose = "account creation"  -> <<"PRF", "IdCredSec", "commitment">>
      [] purpose = "recovery"          -> <<"IdCredSec", "blinding">>
      [] purpose = "discovery"         -> <<"PRF">>
      [] purpose = "zk proof"          -> <<"commitment">>

\* display_key_types, a table of its own in the handler.
display_key_types(purpose) ==
    CASE purpose = "identity creation" -> {"IdCredSec", "PRF", "blinding"}
      [] purpose = "account creation"  -> {"PRF", "IdCredSec", "commitment"}
      [] purpose = "recovery"          -> {"IdCredSec", "blinding"}
      [] purpose = "discovery"         -> {"PRF"}
      [] purpose = "zk proof"          -> {"commitment"}

need_account_suffix(purpose) == purpose \in {"account creation", "zk proof"}

\* exportPrivateKeyContext_t.  identity stands for provider and identity, output
\* for outputPrivateKeys.
ExportZero == [view |-> "export", isNewPath |-> FALSE, purpose |-> "identity creation",
               network |-> "mainnet", identity |-> "none", account |-> "none",
               output |-> << >>, exportBoth |-> FALSE, exportSeed |-> FALSE]

\* The union as the callbacks read it.  isNewPath, exportBoth and exportSeed lie
\* beyond all that the key, address and transfer contexts write (byte 263 on),
\* so in those they read as zero.
AsExport(c) == IF c # Wiped /\ c.view = "export" THEN c ELSE ExportZero

Identities == {p[2] : p \in Paths}

-----------------------------------------------------------------------------
(* Requests. *)

uiExportPrivateKeysNewPath(c) ==
    [cb |-> "export",
     items |-> {<<"identity", c.identity>>, <<"network", c.network>>,
                <<"keys", display_key_types(c.purpose)>>}
               \cup IF need_account_suffix(c.purpose) THEN {<<"account", c.account>>} ELSE {}]

\* A P1, P2 or index out of range throws, and so do indices too long to be shown.
handle_export_private_key_new_path ==
    /\ Enters(NEWKEYS)
    /\ UNCHANGED noFlow
    /\ \/ Throw
       \/ \E purpose \in Purposes, p \in Paths, a \in Vals :
             LET c == [AsExport(Union) EXCEPT !.isNewPath = TRUE, !.purpose = purpose,
                          !.network = NetworkOf(p), !.identity = p[2],
                          !.account = IF need_account_suffix(purpose) THEN a ELSE "none",
                          !.output = << >>]
             IN  Review(NEWKEYS, c, uiExportPrivateKeysNewPath(c))

\* m/1105'/0'/0'/0'/identity', which has no network.
LegacyPath(i) == <<"none", i>>
LegacyKeys(both) == IF both THEN <<"PRF", "IdCredSec">> ELSE <<"PRF">>

uiExportPrivateKey(i, c) ==
    [cb |-> "exportLegacy",
     items |-> {<<"identity", i>>, <<"format", IF c.exportSeed THEN "seed" ELSE "BLS">>,
                <<"keys", ItemsOf(LegacyKeys(c.exportBoth))>>}]

handle_export_private_key_legacy_path ==
    /\ Enters(OLDKEYS)
    /\ UNCHANGED <<hash, account, approved>>
    /\ \/ Throw /\ UNCHANGED path
       \/ \E i \in Identities, both \in BOOLEAN, seed \in BOOLEAN :
             LET c == [AsExport(Union) EXCEPT !.isNewPath = FALSE, !.exportBoth = both,
                                              !.exportSeed = seed]
             IN  path' = LegacyPath(i) /\ Review(OLDKEYS, c, uiExportPrivateKey(i, c))

-----------------------------------------------------------------------------
(* Accept and decline. *)

\* A derived key stands for what it is derived from; only the commitment
\* randomness depends on the account.
NewSecret(c, k) ==
    <<k, c.network, c.identity, IF k = "commitment" THEN c.account ELSE "none">>

Derived(c, n) == [k \in 1 .. n |-> NewSecret(c, keysToExport(c.purpose)[k])]

\* FINALLY: an export that stopped half way leaves nothing in the output buffer.
Finally_Keeps(complete, output) == output
Finally(complete, output) == IF complete THEN output ELSE << >>

\* The witness that the parameters in the union are those of the request.
ValidatedRequest_Any(c) == TRUE
ValidatedRequest(c) == c.isNewPath

\* The loop of exportNewPathPrivateKeysForPurpose may throw at any key.
sendPrivateKeysNewPath ==
    LET c     == AsExport(ctx)
        total == Len(keysToExport(c.purpose))
    IN  /\ screen.cb = "export"
        /\ UNCHANGED noFlow
        /\ \/ /\ ~ValidatedRequest(c)
              /\ reply' = Refused /\ ui_menu_main /\ UNCHANGED ctx
           \/ \E n \in 0 .. total - 1 :
                 /\ ValidatedRequest(c)
                 /\ ctx' = [c EXCEPT !.output = Finally(FALSE, Derived(c, n))]
                 /\ reply' = Refused /\ ui_menu_main
           \/ /\ ValidatedRequest(c)
              /\ send_success(<<"secrets", Finally(TRUE, Derived(c, total))>>)
              /\ ctx' = [c EXCEPT !.output = << >>]

rejectPrivateKeysNewPath ==
    /\ screen.cb = "export"
    /\ send_user_rejection
    /\ ctx' = IF ctx = AsExport(ctx) THEN [ctx EXCEPT !.output = << >>] ELSE ctx
    /\ UNCHANGED noFlow

\* The key type is written over node 5 of the path the device holds.
AtKey(p, k) == <<p[1], p[2], k>>
LegacySecret(seed, p) == <<"legacy", IF seed THEN "seed" ELSE "BLS", p>>

ReadsExportBoth_Always(c) == TRUE
ReadsExportBoth(c) == c.exportBoth

exportPrivateKey ==
    LET c    == AsExport(ctx)
        keys == LegacyKeys(ReadsExportBoth(c))
        nth  == [n \in DOMAIN keys |-> AtKey(path, keys[n])]
    IN  /\ screen.cb = "exportLegacy"
        /\ UNCHANGED <<hash, account, approved>>
        /\ \/ /\ path' = nth[Len(nth)]
              /\ send_success(<<"secrets", [n \in DOMAIN nth |-> LegacySecret(c.exportSeed, nth[n])]>>)
              /\ UNCHANGED ctx
           \/ path' \in ItemsOf(nth) /\ CallbackThrow

DeclineLegacyExport == screen.cb = "exportLegacy" /\ UserDeclines

ExportPacket == handle_export_private_key_new_path \/ handle_export_private_key_legacy_path

ExportButton ==
    \/ sendPrivateKeysNewPath \/ rejectPrivateKeysNewPath
    \/ exportPrivateKey \/ DeclineLegacyExport

-----------------------------------------------------------------------------
(* What the reply holds, and what the accepted screen says of it. *)

HasSecrets  == reply.sw = "success" /\ reply.body # << >> /\ reply.body[1] = "secrets"
Secrets     == ItemsOf(reply.body[2])

\* The screen s releases exactly these keys of the new format.
NewConsent(s, secrets) ==
    \E i \in Identities, n \in Networks, a \in Vals \cup {"none"}, purpose \in AllPurposes :
        /\ {<<"identity", i>>, <<"network", n>>, <<"keys", display_key_types(purpose)>>} \subseteq s.items
        /\ secrets = {<<k, n, i, IF k = "commitment" THEN a ELSE "none">> :
                          k \in display_key_types(purpose)}
        /\ "commitment" \in display_key_types(purpose) => <<"account", a>> \in s.items

LegacyConsent(s, secrets) ==
    \E i \in Identities, seed \in BOOLEAN, both \in BOOLEAN :
        /\ s = uiExportPrivateKey(i, [ExportZero EXCEPT !.exportBoth = both, !.exportSeed = seed])
        /\ secrets = {LegacySecret(seed, AtKey(LegacyPath(i), k)) : k \in ItemsOf(LegacyKeys(both))}
=============================================================================
