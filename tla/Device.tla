------------------------------- MODULE Device -------------------------------
(***************************************************************************)
(* The part of the application every instruction runs on: the main loop,   *)
(* the dispatcher with its instruction latch, the two exception guards,    *)
(* the reply primitives, the idle menu, and the shared state that          *)
(* instructions read and write (the context union, the transaction hash,   *)
(* the derivation path, the account header texts, the screen).             *)
(*                                                                         *)
(* The firmware is single threaded: a command is handled to completion by  *)
(* app_main, and the UX loop runs a button callback to completion.  Each   *)
(* is therefore one step here; what interleaves is commands, button        *)
(* presses, screen timeouts and restarts.                                  *)
(***************************************************************************)
EXTENDS Naturals, Sequences

CONSTANTS
    Gated,     \* the SDK holds commands back while an answer is owed (external)
    Bagl,      \* TRUE: BAGL screens (Nano), FALSE: NBGL screens (Stax, Flex)
    Headers,   \* the sender and energy of a header (nonce and expiry are never shown)
    Paths,     \* derivation paths, <<network, account>>
    Vals       \* values of a field

ASSUME DeviceAssumption == Gated \in BOOLEAN /\ Bagl \in BOOLEAN

VARIABLES
    latch,       \* global_tx_state.currentInstruction
    ctx,         \* global: the union of the instruction contexts
    hash,        \* global_tx_state.hash: the items fed to it since cx_sha256_init
    path,        \* global_derivation_path
    account,     \* global_account_sender: header texts shown by a review
    screen,      \* what is drawn, and the callback its accept button runs
    reply,       \* the answer to the last command, Owed while there is none
    keyPending,  \* global_public_key_review_pending
    approved     \* history: items on the screens accepted since the hash was reset

deviceVars == <<latch, ctx, hash, path, account, screen, reply, keyPending, approved>>

-----------------------------------------------------------------------------
(* Values. *)

NONE  == "NONE"
Wiped == [view |-> "zero"]               \* the union after explicit_bzero
NoAccount == [header |-> "none", network |-> "none"]
NoPath    == <<"none", "none">>

Home  == [cb |-> "home", items |-> {}]
Stale == [cb |-> "stale", items |-> {}]   \* a review that has been answered

Owed     == [sw |-> "owed", body |-> << >>]
Idle     == [sw |-> "idle", body |-> << >>]
Refused  == [sw |-> "refused", body |-> << >>]
Declined == [sw |-> "declined", body |-> << >>]
Success(body) == [sw |-> "success", body |-> body]

ItemsOf(s) == {s[i] : i \in DOMAIN s}

\* path_display_network: node 1 of the path selects the network a review names.
NetworkOf(p) == p[1]
Networks == {NetworkOf(p) : p \in Paths} \cup {"none"}

\* The header texts kept in global_account_sender.
AccountSender(h, p) == [header |-> h, network |-> NetworkOf(p)]

DeviceInit ==
    /\ latch = NONE
    /\ ctx = Wiped
    /\ hash = << >>
    /\ path = NoPath
    /\ account = NoAccount
    /\ screen = Home
    /\ reply = Idle
    /\ keyPending = FALSE
    /\ approved = {}

-----------------------------------------------------------------------------
(* Receiving a command.  app_main claims a free latch and zeroes the union; *)
(* the dispatcher lets the command through when the latch is its own.      *)

Delivered == Gated => reply # Owed

Enters(ins) == Delivered /\ latch \in {NONE, ins}

IsInitialCall == latch = NONE

\* The union as the handler finds it.
Union == IF IsInitialCall THEN Wiped ELSE ctx

-----------------------------------------------------------------------------
(* How a handler or a callback ends. *)

\* send_success_no_idle: answer, keep the flow open and the screen as it is.
Ack(ins, c) ==
    /\ latch' = ins
    /\ ctx' = c
    /\ reply' = Success(<< >>)
    /\ UNCHANGED <<screen, keyPending>>

\* Draw a review and leave the answer to its callback (IO_ASYNCH_REPLY).
Review(ins, c, s) ==
    /\ latch' = ins
    /\ ctx' = c
    /\ reply' = Owed
    /\ screen' = s
    /\ UNCHANGED keyPending

\* A status word thrown by a handler and caught by dispatch_guarded.
Throw ==
    /\ latch' = NONE
    /\ ctx' = Wiped
    /\ reply' = Refused
    /\ UNCHANGED <<screen, keyPending>>

\* send_rejection: the latch is released, the union is left as it is.
send_rejection(c) ==
    /\ latch' = NONE
    /\ ctx' = c
    /\ reply' = Refused
    /\ UNCHANGED <<screen, keyPending>>

ui_menu_main ==
    /\ latch' = NONE
    /\ keyPending' = FALSE
    /\ screen' = Home

\* send_success: answer, then the idle menu, which releases the latch.
send_success(body) ==
    /\ reply' = Success(body)
    /\ ui_menu_main

\* send_user_rejection, also what rejectStagedReview comes to.
send_user_rejection ==
    /\ reply' = Declined
    /\ ui_menu_main

\* A status word thrown by a callback and caught by ux_run_guarded.
CallbackThrow_KeepsScreen ==
    /\ ctx' = Wiped
    /\ reply' = Refused
    /\ latch' = NONE
    /\ UNCHANGED <<screen, keyPending>>

CallbackThrow ==
    /\ ctx' = Wiped
    /\ reply' = Refused
    /\ ui_menu_main

-----------------------------------------------------------------------------
(* The head of an account transaction: the path that will sign, the header  *)
(* texts every review opens with, and the hash started afresh.             *)

hashAccountTransactionHeaderAndKind(h, p, items) ==
    /\ path' = p
    /\ account' = AccountSender(h, p)
    /\ hash' = <<<<"header", h>>>> \o items
    /\ approved' = {}

\* The same, when the handler throws on the way: the path, the header texts
\* and the hash may already have been overwritten.
HeaderThrows(h, p, items) ==
    /\ approved' = {}
    /\ \/ /\ path' \in {path, p}
          /\ hash' \in {hash, << >>}
          /\ UNCHANGED account
       \/ /\ path' = p
          /\ account' = AccountSender(h, p)
          /\ \E k \in 0 .. Len(items) + 1 :
                hash' = SubSeq(<<<<"header", h>>>> \o items, 1, k)
    /\ Throw

\* A transcript without an account header: only the path and the hash are set.
BeginTranscript(p, items) ==
    /\ path' = p
    /\ hash' = items
    /\ approved' = {}
    /\ UNCHANGED account

BeginThrows(p, items) ==
    /\ approved' = {}
    /\ UNCHANGED account
    /\ \/ path' \in {path, p} /\ UNCHANGED hash
       \/ path' = p /\ \E k \in 0 .. Len(items) : hash' = SubSeq(items, 1, k)
    /\ Throw

\* The rows every account transaction shows: sender and energy, and network.
HeaderPairs(sender) == {<<"header", sender.header>>, <<"network", sender.network>>}
addAccountHeaderPairs == HeaderPairs(account)

\* update_hash, for the fields a packet carries.
Feed(items) == hash' = hash \o items

\* A packet whose data is short, long or out of range makes the handler throw
\* after it has hashed the fields before the offending one.
ThrowAfterPrefix(items) ==
    /\ \E k \in 0 .. Len(items) : Feed(SubSeq(items, 1, k))
    /\ Throw

\* What a packet after the first leaves alone.
txConst == <<path, account, approved>>

-----------------------------------------------------------------------------
(* Steps that belong to no single instruction. *)

noFlow == <<hash, path, account, approved>>

\* apdu_parser fails or the class byte is wrong: answered before the claim.
BadCommand ==
    /\ Delivered
    /\ reply' = Refused
    /\ UNCHANGED <<latch, ctx, screen, keyPending>>
    /\ UNCHANGED noFlow

SwitchGuard_KeepsLatch(ins) ==
    /\ Delivered
    /\ latch \notin {NONE, ins}
    /\ reply' = Refused
    /\ UNCHANGED <<latch, ctx, screen, keyPending>>
    /\ UNCHANGED noFlow

\* The instruction-switching guard: another instruction holds the latch.
SwitchGuard(ins) ==
    /\ Delivered
    /\ latch \notin {NONE, ins}
    /\ latch' = NONE
    /\ reply' = Refused
    /\ UNCHANGED <<ctx, screen, keyPending>>
    /\ UNCHANGED noFlow

\* A command the dispatcher refuses with io_send_sw before any handler runs:
\* no data where data is required, or data, P1 or P2 where none is expected.
\* The claim made by app_main stays.
RefusedByDispatcher(ins) ==
    /\ Enters(ins)
    /\ latch' = ins
    /\ ctx' = Union
    /\ reply' = Refused
    /\ UNCHANGED <<screen, keyPending>>
    /\ UNCHANGED noFlow

\* GET_APP_NAME and APP_VERSION answer at once and release the latch.
AppInfo(ins) ==
    /\ Enters(ins)
    /\ latch' = NONE
    /\ ctx' = Union
    /\ reply' = Success(<< >>)
    /\ UNCHANGED <<screen, keyPending>>
    /\ UNCHANGED noFlow

\* The default branch of the dispatcher.
UnknownInstruction ==
    /\ Enters("UNKNOWN")
    /\ send_rejection(Union)
    /\ UNCHANGED noFlow

\* The idle BAGL menu: About, then Back, runs ui_menu_main.  It can be
\* pressed while a flow that has not drawn anything yet holds the latch.
AboutBack ==
    /\ Bagl
    /\ screen = Home
    /\ ui_menu_main
    /\ UNCHANGED <<ctx, reply>>
    /\ UNCHANGED noFlow

\* An NBGL status page (nbgl_useCaseReviewStatus) closes into ui_menu_main.
StatusPageCloses ==
    /\ screen.cb = "status"
    /\ ui_menu_main
    /\ UNCHANGED <<ctx, reply>>
    /\ UNCHANGED noFlow

UserDeclines ==
    /\ send_user_rejection
    /\ UNCHANGED ctx
    /\ UNCHANGED noFlow

\* The user declines the review on screen.  BAGL stages that only offer
\* Continue have no decline button.
Decline ==
    /\ screen.cb \in {"sign", "continue"}
    /\ Bagl => screen.cb # "continue"
    /\ UserDeclines

\* The Continue button of a stage that only acknowledges the packet behind it.
sendSuccessNoIdleCallback ==
    /\ screen.cb = "proceed"
    /\ reply' = Success(<< >>)
    /\ screen' = Stale
    /\ approved' = approved \cup screen.items
    /\ UNCHANGED <<latch, ctx, keyPending, hash, path, account>>

\* Some BAGL reviews hold, before their last step, steps that acknowledge the
\* packet when both buttons are pressed on them: early is, for each of them,
\* the rows that come up to it.
AcknowledgingStep ==
    /\ "early" \in DOMAIN screen
    /\ \E seen \in screen.early : approved' = approved \cup seen
    /\ reply' = Success(<< >>)
    /\ screen' = Stale
    /\ UNCHANGED <<latch, ctx, keyPending, hash, path, account>>

\* buildAndSignTransactionHash, run by the accept button of a signing screen.
buildAndSignTransactionHash ==
    /\ screen.cb = "sign"
    /\ send_success(<<"signature", hash, path>>)
    /\ approved' = approved \cup screen.items
    /\ UNCHANGED <<ctx, hash, path, account>>

\* The same callback when a cx_* operation throws.
SigningFails ==
    /\ screen.cb = "sign"
    /\ CallbackThrow
    /\ approved' = approved \cup screen.items
    /\ UNCHANGED <<hash, path, account>>

\* Quit, a system exception, or loss of power: RAM is zeroed on the next start.
Restart ==
    /\ latch' = NONE
    /\ ctx' = Wiped
    /\ hash' = << >>
    /\ path' = NoPath
    /\ account' = NoAccount
    /\ screen' = Home
    /\ reply' = Idle
    /\ keyPending' = FALSE
    /\ approved' = {}

\* What can happen around the packets and buttons of a flow, in an application
\* that also answers the instructions that draw nothing and keep nothing.
Shell(inss) ==
    \/ BadCommand
    \/ \E ins \in inss \cup {"GET_APP_NAME"} : SwitchGuard(ins) \/ RefusedByDispatcher(ins)
    \/ AppInfo("GET_APP_NAME")
    \/ UnknownInstruction
    \/ AboutBack

-----------------------------------------------------------------------------
(* What the reply holds. *)

HasSignature == reply.sw = "success" /\ reply.body # << >> /\ reply.body[1] = "signature"
SignedItems  == reply.body[2]
SigningPath  == reply.body[3]

-----------------------------------------------------------------------------
(* What comments and tests of the repository say of refusals. *)

\* test_malformed_apdu_survival.py sends "something the app must refuse, and
\* then sends a plain GET_APP_NAME": a command refused while no flow is open
\* leaves the device free for the next one.
RefusalLeavesDeviceFree ==
    [][latch = NONE /\ reply' = Refused => latch' = NONE]_deviceVars
=============================================================================
