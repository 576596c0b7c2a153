# A TLA+ verification of app-concordium

app-concordium is the Ledger application that signs Concordium transactions. A
host sends commands (APDUs), most transactions take several of them; the
application hashes what arrives, shows it piece by piece on a small screen, and
signs the hash when the user accepts the last piece. The question this project
asks is whether, over every order of packets, button presses, refusals, failures
and restarts, **what is signed is a whole transaction that the user has seen**,
and whether the device always comes back to a state in which it can be used.

All source paths below are relative to `src/src/`.

## 1. The system

### 1.1 Concurrency

The firmware is single threaded. `app_main` handles a command to completion and
the UX loop runs a button callback to completion, so each is one step. What
interleaves is commands, button presses, screens that close by themselves, and
restarts. Nothing is persisted: a restart zeroes RAM.

The SDK does not deliver a command while the answer to the previous one is owed
(`os_io_handle_ux_event_reject_apdu`, quoted in `handler/get_public_key.c:28-32`).
That is outside this repository, so it is a constant, `Gated`. Some of the code's
defences are meant to hold without it, and are checked with `Gated = FALSE`; the
others are checked with `Gated = TRUE`, and section 7 lists what rests on it.

### 1.2 Inventory

| Part | State | Operations | What makes it correct |
|---|---|---|---|
| Command loop, dispatcher (`app_main.c`, `apdu/dispatcher.c`) | instruction latch, context union | claim, switching guard, refuse, dispatch, catch | no flow resumes on another's state; a refusal frees the device |
| Replies and guards (`apdu/apdu_response.c`, `helpers/ux_guard.c`, `ui/menu_*.c`) | latch, screen, pending flag | the six ways to end a command or a callback | an answer is owed exactly while a review that gives it is up |
| Hash and signature (`helpers/tx_hash.c`) | running hash, path, header texts | start, feed, sign | signs exactly what was collected |
| Configure baker | state, `pendingState`, bitmap, shared text union | 7 packets, 4 staged reviews | no stage skipped; each reviewed before the next |
| Transfers, memo (`sign_transfer*.c`, `cbor_data_blob.c`) | state, memo buffer and count | 1 and 3 packets, one review | memo whole and shown whole |
| Public key export (`get_public_key.c`) | pinned path, pending flag | request, accept, decline, compare | the key sent is the key reviewed |
| Scheduled transfers | two counters, buffer of releases | packets, and Continue, which hashes | each release hashed and shown once, in order |
| Register data, transfer to public, delegation | counts of bytes to come | packets and reviews | counts never wrap, flows do not mix |
| Deploy, init, update contract | counts, name buffer, digests | packets, one review | name before parameters, both whole; name fits |
| Identity provider information | key count, intro flag | packets, one review per key | identifiers and every key shown |
| Credential deployment and update | two nested states, six counts, running digest | 9 + 5 packets, 6 kinds of review | every list as long as announced; each entry shown |
| Protocol-level tokens (`sign_plt.c`) | payload buffer and count, decoded fields | 2 packets, one review | all of the payload decoded; each field shown |
| Private key export (`export_private_key_*.c`) | request in the union, global path, output buffer | 2 requests, accept, decline | what is sent is what the screen named; nothing left behind |
| Address verification, trusted name, challenge (`verify_address.c`, `set_trusted_name.c`, `get_challenge.c`) | challenge and binding, outside the union | 3 commands, one review | challenge and descriptor serve once; an address beside its own path |
| Derivation paths (`derivation_path.c`) | the global path | read, harden, classify, refuse | an exported key never signs |
| Formatting (`numberHelpers.c`, `time.c`, integers of `cbor_data_blob.c`) | none | pure functions | a text reads as the number signed, and fits |

The parts meet in the shared state: all flows read and write one latch, one
union, one hash, one path, one set of header texts and one screen. Callbacks run
later than the handler that drew their screen and read the union as they find
it. The hard behaviours follow from that: a screen that outlives its flow, texts
overwritten before they are accepted, a handler that throws after hashing part
of a packet, counters at their limits, and replies given twice or never. They
are listed, with their lines and properties, under "hazards" in PROJECT.json.

## 2. Modules

    SigningContract            what every signing instruction promises
    Device                     loop, dispatcher, replies, hash, screen
      ConfigureBaker             -> ConfigureBakerProofs, MCBaker
      CborBlob
      Transfer, PublicKey, PrivateKeyExport
                                 -> Session -> SessionProofs, MCSession
      PublicKey, PrivateKeyExport, VerifyAddress
                                 -> KeyFlows -> KeyFlowsProofs, MCKeyFlows
      ScheduledTransfer          -> ScheduleProofs, MCSchedule
      RegisterData, TransferToPublic, ConfigureDelegation, Contracts, Plt
                                 -> AccountFlows -> AccountProofs, MCAccountFlows
      PublicInfoForIp, Credential
                                 -> IdentityFlows -> IdentityProofs, MCIdentity
    FlowLemmas                   lemmas the proof modules share
    Calendar, Formats            pure helpers
    DerivationPath               paths, node by node
      all three                  -> Algorithms -> AlgorithmsProofs, MCAlgorithms

**Device.** `latch` is `global_tx_state.currentInstruction`; `ctx` the union
`global`, `Wiped` after `explicit_bzero`; `hash` the sequence of items fed to the
hash since `cx_sha256_init`; `path`, `account`, `keyPending` the globals of
similar name; `screen` the rows that are drawn and the callback behind them;
`reply` the answer to the last command, `Owed` while there is none. `approved`
is a history variable: the rows on screens accepted since the hash was last
started. The operators `Ack`, `Review`, `Throw`, `send_rejection`,
`send_success`, `send_user_rejection` and `CallbackThrow` are the ways a handler
or a callback can end, each with everything the code does on the way: for
example `Throw` wipes the union and frees the latch (`dispatch_guarded`) while
`send_rejection` frees the latch only. `Shell` is what can happen around a flow:
bad commands, the switching guard, refusals by the dispatcher, an informational
command, an unknown one, and the idle menu.

**Flow modules.** One action per packet (its guard is the P1 and state test of the
handler, its disjuncts the success and error paths), one operator per screen,
one action per callback. `...WrongState` is the `else` of a handler. A field is
an item `<<tag, value>>`; the fields of a packet that are never told apart share
one value. A packet of wrong length or contents is a disjunct that throws after
any prefix of its fields has been hashed. Chunked data is a sequence of chunks
with sizes, so every split is explored. A digest is the sequence it is computed
over (an ideal hash).

**Session, KeyFlows, AccountFlows, IdentityFlows** compose flows over the shared
state, with a host that may leave one for another at any moment.

**Plt.** A payload is a sequence of items, an operation and the fields of its map;
lengths count items, so that any split into packets, a payload cut inside its map
and one that is longer or shorter than announced all occur. What tinycbor or a
field parser refuses (`parse_amount_value` to `parse_memo_value`) is the item
`other`. `parse_plt_cbor` keeps which fields are taken, that a repeated one
overwrites, and which ones an operation requires.

**PrivateKeyExport.** A private key stands for what it is derived from. Both exports
derive when the review is accepted, from what union and path hold by then, so a
command in between can change them. `AsExport` is the union read as an export
context: `isNewPath`, `exportBoth` and `exportSeed` lie at an offset that none of
the contexts composed with it writes, so they are zero there.

**VerifyAddress.** A public key stands for its path and an address for the path it
is derived from and the counter. `challenge` and `bound` are globals outside the
union. `Descriptors` is the external backend: it certifies an account's address
for the key of its signing path or for the PRF key of its identity. `issued`,
`tried` and `certified` are history variables. The TLV parser, the field checks
and the signature check are one refusal; they end alike.

**Calendar, Formats, DerivationPath.** Operators. 64-bit values exceed TLC's
integers, so a number of seconds is a day and a second, and a large amount is its
decimal digits; eight-byte CBOR arguments are not evaluated, and the behaviour at
the greatest argument is checked at smaller widths. `format_fpu64_trimmed` is the
SDK's. **Algorithms** walks the calendar day by day with rules of its own and reads
derivation paths node by node, so that TLC compares the helpers with reference
definitions in every state. `IsDateOf` says without walking which date a day has, by
counting years, leap days and months; `WalksAssumption` asks of the stretches only that
they begin with the date of their first day. `secondsToTm` is put together from an
operator per stage of the C function: the day and second (`WholeDays`, `SecsOfDay`), the
weekday, the cycle of 400 years (`Cycle`, `DayOfCycle`), its parts (`PartsOfCycle`), and the
month and fields. Its two refusals of years that an `int` cannot hold are left out.

**SigningContract** is the abstract specification: a transcript is begun,
collected, resolved by the user and signed; while an answer is owed only the
user's acceptance moves the transcript, and a signature covers exactly what was
collected, all visible items of it accepted. ConfigureBaker, ScheduledTransfer,
AccountFlows and IdentityFlows are shown to implement it with the mapping
`collected <- hash, answer <- reply`, `approved` as itself, and `Visible` the
rows owed to a transcript of the flow.

`handle_init_contract` and `handle_update_contract` are twins except for the
fields of their first packet; they share `ContractName` and `ContractParams`. The
map names the lines of one for some of these and of the other for the rest.
BAGL (Nano) and NBGL (Stax, Flex, Apex) screens differ in what can be declined, and in
steps that answer early; the constant `Bagl` selects one.

## 3. Properties and runs

Each module has a type invariant that also bounds the unsigned counters. The
others state, for each flow:

- *SignedWasReviewed*: each visible item of a signed transcript, and the network of
  the signing path, were on accepted screens since the hash was started;
- *SignedIsComplete*: a signed transcript is the serialization of one whole
  transaction, defined independently of the state machine;
- *ReplyOwedIffReviewUp*: no answer is lost and none is given twice;
- *...HostGetsSignature*: whatever came before, a persistent host and an accepting
  user get a signature.

| Run | Instance | Shows |
|---|---|---|
| `baker` | gated NBGL, 2 headers, 2 networks, 2 values, 9 bitmaps, URL <= 2, chunks <= 3 | the four above, that stages wait for reviews, the inductive invariant of the proofs, the refinement of SigningContract |
| `session` | gated NBGL, 2 paths, memo <= 2 bytes in chunks <= 3, purpose "recovery" | transfers with and without memo, public and private key export in one session |
| `keys_ungated` | ungated BAGL, 2 accounts of one identity, all purposes, 2 challenges | keys, addresses, challenge and descriptor with commands arriving during reviews |
| `schedule` | gated NBGL, <= 3 releases in packets <= 2, memo <= 2 | no release lost, repeated, unseen or signed early |
| `account` | gated BAGL, 2 headers, 2 values (symmetric), lengths 2 to 3, token payloads <= 4 items in packets <= 2 | seven flows in one session; counts, name and payload buffers, completeness, refinement |
| `identity` | gated NBGL, lists <= 2, keys <= 3, proofs <= 2 | nested lists, texts overwritten, completeness, refinement |
| `credential_keys` | ungated BAGL, 2 values (symmetric), transcript <= 9 items | keys wait for their review by the state alone |
| `algorithms` | 400 years of days, two months around the last year shown and the year 100000; paths of <= 8 nodes out of 4 | dates, numbers, buffer sizes, paths |
| `refusal_latch` | *violation* | section 4 |
| `credential_replay` | *violation*, BAGL | section 4 |
| `plt_unseen` | *violation*, payloads of 2 items | section 4 |
| `provider_text` | *violation*, 2 providers | section 4 |

The properties of `keys_ungated` are about values that wait between two commands or
between a request and its acceptance: `KeySentWasReviewed` and `NewKeysWereConsented`
(what is released is what the accepted screen named), `NoSecretLeftBehind`,
`ChallengeServesOneAttempt`, `CertifiedReviewsAreFresh` (no two reviews vouched for
by one challenge) and `VerifiedAddressIsOfShownPath`. The legacy export has no
witness of its request, so its part is stated in `session`, with the gate
(`ExportedKeysWereConsented`).

**Bounds.** Every count has instances on both sides of each comparison the code
makes: below, at and one above the limit; a chunk smaller than, equal to and
larger than what is left; one packet, a full packet and a further one; a list of
none, one and several. Values are only compared for equality, so two tell
apart "the same" and "another" (the identity run has one value: which
revoker or key is shown is told there by the position and number of items, and
a confusion of equal-length values there is not covered by a run). The nine bitmaps open at, end at
and skip each stage. Without the gate
credential packets can be repeated for ever, so that run bounds the transcript
(`ShortHash`). Two accounts of one identity share a PRF key, which is the case the
descriptor checks are about; two challenges let an old one be replayed against a
newer. A token payload of four items holds an operation with all its fields, or
with one repeated. The days of a whole cycle of the calendar, before and after
`LEAPOCH`, are all there are up to a shift of 400 years; section 5 proves the rest. Ordinals tell equal
releases apart, so that a repeated one cannot hide.

**Deadlock** is checked in every run but `algorithms`, whose walks end; the idle
device always accepts a command.

**Fairness.** The specifications have none: nothing obliges a host to send or a
user to press. The liveness properties state it for what they are about:
`WF(HonestStep) /\ <>[][HonestStep] => []<>HasSignature`. The assumption is that from some
point on only well-formed packets of a flow and accepting presses happen, and
do happen; commands are handled to completion, so that no finer fairness of
the code is needed. The reset of a flow that was left half done, and the retry
of a refused command, are part of `HonestStep`, so the property says that no reachable
state wedges the flow.

## 4. What the violations show

1. **A refusal can keep the latch** (`refusal_latch`). The dispatcher's own refusals
   (`dispatcher.c:90` and alike) do not release the claim `app_main` made, so a
   different command that follows is refused too; the one after that goes through.
   The survival tests expect a refused command to leave the device free.
2. **A credential's last packet can be replayed on BAGL** (`credential_replay`). Two steps
   inside the final review answer the packet, the state stays, and the packet is
   hashed a second time. The signature is over something that is not a
   deployment. `ux_sign_public_info_review` (`ui/display_bagl.c:847`) does the same for the
   threshold of the identity provider flow.
3. **A token field can be signed unseen** (`plt_unseen`). `parse_plt_cbor` takes the four
   field names in any operation and any number of times; the review shows the rows of
   the operation, and of a repeated field the last. The document says that each
   field is shown, and refuses unknown names for that reason.
4. **A provider text keeps old digits** (`provider_text`). `number_to_text` writes no NUL,
   and the context is not cleared between the credentials an update adds: after
   provider 23, provider 1 is shown as 13.

## 5. Proofs

`ConfigureBakerProofs` proves, with TLAPS and for every set of headers, paths,
values and bitmaps and all limits, with the assumptions `DeviceAssumption`
(`Gated` and `Bagl` are Boolean) and `BakerAssumption` (bitmaps are sets of fields,
limits are naturals, a chunk is not empty) only:

- `TypeCorrect`: `BakerSpec => []TypeOK`.
- `ReviewDrivesFlow`: `BakerSpec => []ReviewInv`, gated or not. `OpenStageWasReviewed` is not
  inductive: when Continue is pressed it must be known that the screen holds all
  that was hashed since the last acceptance, and that the Continue button belongs to the flow
  that is parked. `ReviewInv` adds both: `ParkedIsOnScreen`, and
  `StaleContinueIsInert` (a Continue button that has survived its flow finds a zero
  `pendingState`, which no packet matches).
- `StagesWaitForReview`: `OpenStageWasReviewed`, as its corollary.
- `AnswersMatchReviews`, with `Gated`: `AnswerInv`, that the review on screen is the one the
  flow is parked behind. It is inductive relative to `TypeOK` and `ReviewInv`.
- `WhatIsSignedWasReviewed`, `NoAnswerIsLost`: `SignedWasReviewed` and `ReplyOwedIffReviewUp` from it.
- `FlowHonoursContract`: `BakerSpec => Contract!ContractSpec` with `Gated`: initial states map to
  initial states and each action to a step of the contract or a stutter.

- `OnlyWholeTransactionsAreSigned`, with `Gated`: `SignedIsComplete`. Its invariant
  `TranscriptInv` says what a transcript is half way: its tags are those of the stages
  behind (`StageWire`, for the stages `Reached`), the announced URL length is the
  bytes hashed so far plus the bytes to come, no URL item precedes its stage, and
  Sign is offered only behind the last stage.

Each step proof goes action by action: the packets, the buttons, the shell, restart. TLC
checks the invariants up to `AnswerInv` in `baker`, with the gate; without it the theorems stand
alone.

The three modules that follow prove the same four things of the other flows of an
account, all for every set of headers, paths and values and for all limits, with
`Gated` as the only hypothesis besides the named assumptions on the constants
(limits are naturals, a chunk is not empty). Their invariants have the same
shape: answers match reviews; the union is well formed for the flow the latch
names; the transcript is what the flow's state says it is; the screen together
with what was accepted before holds every visible row of it; a signature, if there
is one, is over a reviewed and whole transcript.

`SessionProofs` (transfers, key export; `CborAssumption`, `PurposesAssumption`):

- `SessionAnswersMatchReviews`, `KeyFlagMatchesReview`: `SessionReplyOwedIffReviewUp` and
  `PendingIffKeyReviewUp`, inductive together.
- `SessionTypeCorrect`, and `ReleasedKeysAreConsented` for the action property
  `ExportedKeysWereConsented`, from `ConsentInv`: while an export review is up, legacy ones
  included (`LegacyOnScreen`), the screen is the one drawn from what union and path
  hold.
- `SignedTransferWasReviewed`, `SignedTransferIsComplete`, from `SessionInv`, which adds
  `MemoInFlight` (the memo chunks hashed are those buffered, and the bytes buffered
  plus the bytes to come are the announced length) and `SignOnScreen` (what is signed when Sign
  is pressed is whole and on screen).

`ScheduleProofs` (scheduled transfers; `CborAssumption`, `ScheduleAssumption`):
`ScheduleTypeCorrect`, `ScheduleAnswersMatchReviews`, `SignedScheduleWasReviewed`, `SignedScheduleIsComplete`
and the refinement `ScheduleFlowHonoursContract`. The part of `ScheduleInv` that is hard to see
is `ReleasesInv`: releases hashed, releases buffered from the last packet and releases to
come add up to the announced count, the hash holds the pairs in order behind the header
(and memo), and a packet is half taken only under a release review.
`FreshReleases` keeps the ordinals of what was accepted below the next, so that an
accepted row cannot stand for a later release.

`AccountProofs` (registration, transfer to public, delegation, module, contracts, tokens;
all assumptions of their modules): `AccountTypeCorrect`, `SignedAccountTransactionWasReviewed`,
`SignedAccountTransactionIsComplete` and the refinement `AccountFlowsHonourContract`. `FlowInv` has one
predicate on transcript and context for each flow (`RegisterFlow`, `ToPublicFlow`,
`DeployFlow`, `ContractFlow`, `PltFlow`), which ties counters and buffers in the union to the chunks
hashed; `LastReview` says that a Sign button stands behind a whole transcript
whose rows are on screen or accepted.

`FlowLemmas` holds what these share. Recursive functions are unfolded with
`RecursionIsDefined` and compared with `StepwiseEqual`, both by an induction over a set of
naturals (`SetInduction`, from the well-foundedness of `<` in the library), which
needs no operator parameter. With these `BufLenAppend`, `BlobOfAppend` and alike say how the
sum of chunk sizes and the chunks of a transcript grow.

`KeyFlowsProofs` proves all properties of `keys_ungated` for every set of paths,
values and purposes, any number of challenges, both kinds of screen, gated or not.
Besides `DeviceAssumption` it uses `PurposesAssumption` (purposes are those of the
code), `ChallengesAssumption` (a natural number) and `PathsAssumption` (an account
path is a network and a counter, and none is the PRF path). None of the
properties is inductive; the invariants are

- `ChallengeInv`, for `ChallengeIsSpent` and `ReviewsAreFresh`: reviews vouched for, plus
  one for a binding in store, plus one for an unspent challenge, are at most the
  challenges issued. A descriptor turns a challenge into a binding, a review turns
  a binding into a count.
- `KeyReviewInv`, for `SentKeyWasReviewed`: while a key review is up the pending flag is set
  and the screen is that of the pinned path. The flag makes the handler refuse
  the request that would pin another; no other command touches the pin.
- `ExportInv`, for `SecretsAreErased` and `NewKeysAreConsented`: an export context in the union
  is well formed with an empty output, and whenever its `isNewPath` is set under an
  export review, the screen is the one drawn from it. A command that reuses the
  union clears the witness, or draws its own screen.
- `AddressInv`, for `ShownAddressIsOfItsPath`: a binding in store is one the backend issued, and
  an address review on screen has the property.

The action properties (`SentKeyWasReviewed`, `NewKeysAreConsented`) follow from a lemma that each
step under the invariant satisfies the action formula, with a case for each callback
that sends and one lemma that nothing else does.

`IdentityProofs` proves `KeysWaitForReview` for the credential flows with commands at any time,
for either kind of screen and every bound, from `CredentialAssumption` alone. The
action formula says nothing of how a flow got where it is; the invariant `KeyInv` does.
It types the union (`Credentials`: the counts agree with the stage, so that none is
counted below zero) and says (`KeysAccepted`) that wherever a key can be hashed, or can come
to be hashed by a callback, the keys before it are accepted. Without the gate a host may leave a review for
another transaction while its screen is up. The late callback is harmless: the button of
a key moves on only where it accepts all keys there are or none is to come, and the
button of an added credential accepts the key that is in the union.

It then proves the `identity` run's properties for every `ListMax`, `ProofMax`, `CdataMax`,
`KeysMax` and set of values, with `Gated`:

- `IdentityTypeCorrect`: `IdentitySpec => []IdentityTypeOK`, on either kind of screen, from `Typed` (the
  context is that of the flow the latch names, and its counts agree with its stage)
  and `Screens` (a review is up exactly while an answer is owed, and the flow that drew
  it is where its callback expects it).
- `SignedIdentityWasReviewed`, `SignedIdentityIsComplete`, from `IdentityInv`, with NBGL screens
  (`~Bagl`) as a second hypothesis. `FlowInv` says what transcript, context and screen
  have to do with each other at each stage. `IpSoFar`, `CredentialSoFar` and `UpdateSoFar`
  read the transcript as far as it goes: the lists behind are as long as announced, and
  what is counted down is what is still missing of the list that is open. An update adds
  credentials one after another, so its transcript ends in a credential begun at some
  `Starts` while all those before are whole. `RowsKept` says that every row the transcript
  owes is accepted, or on screen, or still in the context to be drawn (`RowsDue`); that last
  part is what a later packet could overwrite, and the invariant is that none does so early.
- `IdentityFlowsHonourContract`, the refinement of `SigningContract`, with the same hypotheses.

`~Bagl` is not for convenience. On BAGL both properties of signatures are false, with the gate too: a step that
acknowledges the last packet leaves the flow where it was, and the packet can be
repeated (finding 2 of section 4; the same happens with the threshold packet of the
identity provider flow). TLC checked `FlowInv` in the bounds of `identity` before it was proved.

`AlgorithmsProofs` proves what the run `algorithms` checks, for every day from 1970 on, every
number and every set of nodes:

- `DateCorrect`: the inductive invariant `DateInv`, that the date the walk keeps is the date
  told by counting (`IsDateOf`). The step is the lemma `TomorrowIsNext`: the rules for the next
  day, with their ends of months, leap days and turns of the year, count on by one.
- `DatesAgreeAlways`: `secondsToTm` gives that date. A date lies in a year from March on, and the
  year in a cycle, a century, a leap period (`DateLocated`, `LeapsFromMarch`); day n after
  `LEAPOCH` is then `146097 qc + 36524 c + 1461 q + 365 y + r`, and the clipped quotients find each
  part again (`CyclesFound`), because a whole part can only be left over by a leap day at its
  end. The loop over the months stops within the table (`MonthsBehind`), and `/` and `%` towards
  zero are set right for days before `LEAPOCH` (`TowardsZero`, `DayAndSecond`).
- `NumbersReadBackAlways`: `Digits` and `Number` are inverse (`DigitsReadBack`), and what
  `format_fpu64_trimmed` cuts off are zeros (`TrimmedIs`), so a text with a point reads back at any
  exponent; exactly one CBOR count is let through for each argument (`OneEncoding`).
- `TextsFitTheirBuffersAlways`: the year has five digits at most as `DatesAgreeAlways` makes it a
  number, `FiveDigits` and `Digits100000` bound a rate, `WidestFits` an amount, and `HexWrittenIs`
  gives the line ends of `to_paginated_hex` in closed form.
- `HardeningKeepsClass` (hardening changes neither class nor network), `PathTypeCorrect` and from
  them `ExportableKeysNeverSign`; `WalksReadPaths` carries it to the specification of the run.

The recursive functions are shown to have a solution (`DigitsUptoExist`, `NumbersRead`), and what
they compute follows by induction stated for a set (`StrongInduction`, `SetInduction`): what
lies outside of it would have a least element. The theorems about dates hold of the model's integers:
of the days that the code refuses, whose year would overflow an `int`, they say nothing.
TLC checked `DateInv` on the walks of `algorithms` before it was proved.

**Only model-checked.** Liveness: `HonestHostGetsSignature`, `TransferHostGetsSignature` and
`ScheduleHostGetsSignature` (fairness and `ENABLED` are beyond the prover). Every invariant
and every action property that a passing run checks is stated by a theorem, under the
hypotheses named above.

## 6. Not modelled

- Byte-level decoding: CBOR (`parse_complete_cbor` but for integers, and the tinycbor calls
  of `sign_plt.c`), TLV, base58check. What is refused there is a nondeterministic
  refusal, what is taken is a value.
- `helpers/display_text.c` (which bytes can be shown): a refusal of the handler.
- Texts of governance paths and of the compact identity rows beyond their identity.
- The fee row a host may request: it is outside the hash and marked as an estimate.
- Screens are snapshots of what they showed when drawn. Real screens read the union
  live; with the gate no handler runs while a review is up, so that is the same.
- That a screen delivers one decision is the SDK's promise; an answered review is `Stale`.
- SDK, cryptography, PKI, transport. Fuzzing harness, tests and build files.

## 7. Observations

Not all are wrong; each came up while the model was written.

- Resting on the SDK's gate, because the state does not park: releases of a
  schedule with memo (`finish_memo_scheduled` sets TRANSFER_PAIRS before it draws the
  first review, while `helpers/sign_transfer_schedule.h:17-19` says that the flow stays in
  AWAITING_INITIAL_CONFIRM until then, as the plain variant does), the amount of a
  transfer with memo, pair packets during a release review, the first data
  packet before the header review of a registration, attribute value, proofs,
  new-or-existing and threshold packets of the identity flows.
- `send_rejection` and the switching guard leave the union as it is until the next
  claim zeroes it, while the comment at `app_main.c:63-65` says the wipe "mirrors what
  send_rejection() does".
- The switching guard frees the latch that `get_public_key.c:35-39` wants kept for a
  pending review; reachable only without the gate.
- Leaving the comparison or status screen of a key export runs `ui_menu_main`, which drops a
  multi-packet flow begun behind it. The host is refused and may start again.
- Zero releases, a zero-length module, proof or datum, and zero keys or revokers are accepted by
  the first packet and can never be signed.
- On BAGL, pressing "Review details" before the first credential key acknowledges the
  packet but leaves the flow in its AWAITING state; only starting over helps.
- The digest shown for a contract covers name and parameters without a separator; the name row
  (or its length, when too long) tells them apart.
- Credential deployment does not validate P2: with P2 = 2 the length of proofs is hashed
  although the credential stands alone.
- `doc/ins_configure_baker.md` lists eight bitmap bits; the code has nine, and stage `suspended`.
- `doc/error.md` says that `send_rejection()` differs from a thrown status word in
  that it releases the instruction latch. Under `dispatch_guarded` a thrown status
  word releases it too, and wipes the context union besides, which a rejection
  leaves in place until the next instruction claims it.

- `doc/ins_set_trusted_name.md:95` says "a descriptor never supplies the address on screen, it
  has to agree with it"; under P1_FULL_PATH the descriptor's address is the one
  shown (`verify_address.c:231-234`, and the comment at 179-183 explains why). Line 101 says that an attempt
  "clears any previous binding at command start"; one refused for P1, P2 or missing
  data leaves the binding (`set_trusted_name.c:413-420`). It erases the challenge.
- A command that throws in VERIFY_ADDRESS leaves the binding for the next one.
- The legacy private key export reads flags and path when it is accepted and has no witness
  like `isNewPath`; a command during its review could change what is sent. Only the
  gate prevents it.
- `display_credid` has 22 bytes: INS 0x37 refuses, after parsing, provider, identity and account
  indices whose digits do not fit, though the document gives no such limit. The
  21 bytes of `display` in INS 0x01 do the same for long public key identities.
- `identityProviderIndex` has nine bytes: a provider of ten digits is refused, and one of nine
  leaves no room for a NUL. The model has providers of one and two digits.
- `tm_year > 9999` compares years since 1900, so years up to 11899 are shown; with
  milliseconds they take exactly the 25 bytes there are.
- A full path that is not a signing path is shown, without a descriptor, with the address
  of counter 0 of an identity whose PRF key would be there.

## 8. Plan

Done: all handlers of the application, the pure helpers, and the proofs of
section 5. Left:

base58check and `display_text` as operators.
