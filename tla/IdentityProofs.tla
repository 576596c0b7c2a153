--------------------------- MODULE IdentityProofs ---------------------------
(***************************************************************************)
(* Proofs about the identity flows, for every ListMax, ProofMax, CdataMax  *)
(* and set of values, with commands arriving at any time.  On either kind  *)
(* of screen every variable keeps its type and no further key of a         *)
(* credential is hashed before the earlier ones have been accepted; with   *)
(* NBGL screens a signature is made over a complete transcript, all of     *)
(* whose visible items have been reviewed, and the flows implement the     *)
(* contract of a signing instruction.                                      *)
(***************************************************************************)
EXTENDS IdentityFlows, FlowLemmas, FiniteSetTheorems

-----------------------------------------------------------------------------
(* Contexts. *)

CredentialContexts ==
    [view : {"credential"}, state : CredentialStates, update : UpdateStates, showIntro : BOOLEAN,
     keysLeft : 0 .. ListMax, arsLeft : 0 .. ListMax, attributesLeft : 0 .. ListMax,
     proofLeft : 0 .. ProofMax, credentialsLeft : 0 .. ListMax, idsLeft : 0 .. ListMax,
     key : Vals \cup {"none"}, details : Vals \cup {"none"}, provider : Seq(0 .. 9),
     arLength : 0 .. ListMax, ars : Seq(Vals), tag : Vals \cup {"none"}]

\* The counts agree with the stage, so that none is ever counted below zero.
Consistent(c) ==
    /\ c.update = "CREDENTIAL" => c.credentialsLeft > 0
    /\ c.update = "ID" => c.idsLeft > 0
    /\ c.state \in {"ATTRIBUTE_TAG", "ATTRIBUTE_VALUE"} => c.attributesLeft > 0
    /\ c.state = "AR_IDENTITY" => Len(c.ars) + c.arsLeft = c.arLength
    /\ c.state = "CREDENTIAL_DATES" => Len(c.ars) = c.arLength /\ c.arLength > 0

Credentials == {c \in CredentialContexts : Consistent(c)}

LEMMA ZeroKnown ==
    /\ CredentialZero \in Credentials
    /\ [CredentialZero EXCEPT !.state = "INITIAL"] \in Credentials
    /\ CredentialZero # Wiped
    /\ \A c \in Credentials : c # Wiped
<1>1. 0 \in 0 .. ListMax /\ 0 \in 0 .. ProofMax
  BY CredentialAssumption
<1>2. << >> \in Seq(Vals) /\ << >> \in Seq(0 .. 9) /\ Len(<< >>) = 0
  OBVIOUS
<1>3. \A c \in Credentials : c # Wiped
  BY DEF Credentials, CredentialContexts, Wiped
<1>4. CredentialZero \in CredentialContexts
  BY <1>1, <1>2 DEF CredentialContexts, CredentialZero, CredentialStates, UpdateStates
<1>5. Consistent(CredentialZero)
  BY DEF Consistent, CredentialZero
<1>6. [CredentialZero EXCEPT !.state = "INITIAL"] \in CredentialContexts
  BY <1>1, <1>2 DEF CredentialContexts, CredentialZero, CredentialStates, UpdateStates
<1>7. Consistent([CredentialZero EXCEPT !.state = "INITIAL"])
  BY DEF Consistent, CredentialZero
<1> QED
  BY <1>3, <1>4, <1>5, <1>6, <1>7 DEF Credentials

\* The union holds a credential's context, when a credential's flow is open.
Holds == latch # NONE => ctx \in Credentials \cup {Wiped}

LEMMA ViewKnown ==
    ASSUME Holds, NEW ins
    PROVE  /\ CredentialView(ins) \in Credentials
           /\ latch # NONE /\ ctx # Wiped => CredentialView(ins) = ctx
  BY ZeroKnown DEF Holds, CredentialView, IsInitialCall

\* What one packet does to the context, for any context c.
Fields(c) ==
    /\ c.view = "credential" /\ c.state \in CredentialStates /\ c.update \in UpdateStates
    /\ c.showIntro \in BOOLEAN
    /\ c.keysLeft \in 0 .. ListMax /\ c.arsLeft \in 0 .. ListMax
    /\ c.attributesLeft \in 0 .. ListMax /\ c.proofLeft \in 0 .. ProofMax
    /\ c.credentialsLeft \in 0 .. ListMax /\ c.idsLeft \in 0 .. ListMax
    /\ c.key \in Vals \cup {"none"} /\ c.details \in Vals \cup {"none"}
    /\ c.provider \in Seq(0 .. 9) /\ c.arLength \in 0 .. ListMax
    /\ c.ars \in Seq(Vals) /\ c.tag \in Vals \cup {"none"}

LEMMA FieldsKnown == ASSUME NEW c \in CredentialContexts PROVE Fields(c)
  BY DEF CredentialContexts, Fields


LEMMA Limits == ListMax \in Nat /\ ProofMax \in Nat /\ CdataMax \in Nat /\ CdataMax > 0
  BY CredentialAssumption

\* A count that has something left counts down within its range.
LEMMA CountsDown ==
    ASSUME NEW m \in Nat, NEW n \in 0 .. m, NEW k \in Nat, n >= k
    PROVE  n - k \in 0 .. m /\ (k = 1 => (n - k = 0 <=> n = 1) /\ (n - k > 0 <=> n # 1))
  OBVIOUS

-----------------------------------------------------------------------------
(* What each packet and each callback does to the context. *)

Begun(c) ==
    [c EXCEPT !.showIntro = TRUE, !.state = "VERIFICATION_KEYS_LENGTH"]

KeysAnnounced(c, n) ==
    [c EXCEPT !.keysLeft = n, !.state = "VERIFICATION_KEY"]

KeyParked(c, v) ==
    [[c EXCEPT !.key = v, !.keysLeft = @ - 1] EXCEPT !.state = AfterKey, !.showIntro = FALSE]

KeyLast(c, v) ==
    [[c EXCEPT !.key = v, !.keysLeft = @ - 1] EXCEPT !.state = "SIGNATURE_THRESHOLD"]

DetailsRead(c, v, q, n) ==
    [c EXCEPT !.details = v, !.provider = number_to_text(@, q), !.arLength = n, !.arsLeft = n,
              !.ars = << >>, !.state = "AR_IDENTITY"]

RevokerRead(c, v) ==
    [c EXCEPT !.ars = Append(@, v), !.arsLeft = @ - 1,
              !.state = IF c.arsLeft = 1 THEN "CREDENTIAL_DATES" ELSE @]

DatesRead(c, n) ==
    [c EXCEPT !.attributesLeft = n,
              !.state = IF n = 0 THEN "LENGTH_OF_PROOFS" ELSE "ATTRIBUTE_TAG"]

TagRead(c, v) ==
    [c EXCEPT !.tag = v, !.state = "ATTRIBUTE_VALUE"]

ProofAnnounced(c, n) ==
    [c EXCEPT !.proofLeft = n, !.state = "PROOFS"]

ProofRead(c) ==
    [c EXCEPT !.proofLeft = @ - CdataMax]

ProofsRead(c) ==
    [c EXCEPT !.state = "NEW_OR_EXISTING"]

UpdateBegun(c, n) ==
    [c EXCEPT !.credentialsLeft = n,
              !.update = IF n = 0 THEN "ID_COUNT" ELSE "CREDENTIAL_INDEX"]

IndexRead(c) ==
    [c EXCEPT !.update = "CREDENTIAL", !.state = "VERIFICATION_KEYS_LENGTH"]

IdsAnnounced(c, n) ==
    [c EXCEPT !.idsLeft = n, !.update = IF n = 0 THEN "THRESHOLD" ELSE "ID"]

IdRead(c) ==
    [[c EXCEPT !.idsLeft = @ - 1] EXCEPT
              !.update = IF [c EXCEPT !.idsLeft = @ - 1].idsLeft = 0 THEN "THRESHOLD" ELSE @]

KeyAccepted(c) ==
    [c EXCEPT !.state = IF c.keysLeft = 0 THEN "SIGNATURE_THRESHOLD" ELSE "VERIFICATION_KEY"]

AttributeAccepted(c) ==
    [c EXCEPT !.attributesLeft = @ - 1,
              !.state = IF c.attributesLeft = 1 THEN "LENGTH_OF_PROOFS" ELSE "ATTRIBUTE_TAG"]

AddedAccepted(c) ==
    [c EXCEPT !.credentialsLeft = @ - 1, !.update = AfterAdded(c),
              !.state = IF c.credentialsLeft = 1 THEN "zero" ELSE "VERIFICATION_KEYS_LENGTH"]

CredentialFields ==
    {"state", "update", "keysLeft", "arsLeft", "attributesLeft", "proofLeft", "credentialsLeft",
     "idsLeft", "key", "details", "provider", "arLength", "ars", "tag"}

\* d differs from c in the given fields only.
Kept(c, d, changed) == \A f \in CredentialFields \ changed : d[f] = c[f]

LEMMA BegunKnown ==
    ASSUME NEW c \in Credentials,
           NEW d, d = Begun(c)
    PROVE  /\ d \in Credentials
           /\ Kept(c, d, {"state"})
           /\ (d.state = "VERIFICATION_KEYS_LENGTH")
<1>1. c \in CredentialContexts /\ Consistent(c) /\ Fields(c)
  BY FieldsKnown DEF Credentials
<1>5. d \in CredentialContexts
  BY <1>1 DEF CredentialContexts, CredentialStates, UpdateStates, Begun
<1>6. /\ Kept(c, d, {"state"})
      /\ (d.state = "VERIFICATION_KEYS_LENGTH")
  BY <1>1 DEF Kept, CredentialFields, CredentialContexts, Begun
<1>7. Consistent(d)
  BY <1>1, <1>6 DEF Consistent, Kept, CredentialFields, Fields
<1> QED
  BY <1>5, <1>6, <1>7 DEF Credentials

LEMMA KeysAnnouncedKnown ==
    ASSUME NEW c \in Credentials, NEW n \in 0 .. ListMax,
           NEW d, d = KeysAnnounced(c, n)
    PROVE  /\ d \in Credentials
           /\ Kept(c, d, {"state", "keysLeft"})
           /\ (d.state = "VERIFICATION_KEY") /\ d.keysLeft = n
<1>1. c \in CredentialContexts /\ Consistent(c) /\ Fields(c)
  BY FieldsKnown DEF Credentials
<1>5. d \in CredentialContexts
  BY <1>1 DEF CredentialContexts, CredentialStates, UpdateStates, KeysAnnounced
<1>6. /\ Kept(c, d, {"state", "keysLeft"})
      /\ (d.state = "VERIFICATION_KEY") /\ d.keysLeft = n
  BY <1>1 DEF Kept, CredentialFields, CredentialContexts, KeysAnnounced
<1>7. Consistent(d)
  BY <1>1, <1>6 DEF Consistent, Kept, CredentialFields, Fields
<1> QED
  BY <1>5, <1>6, <1>7 DEF Credentials

LEMMA KeyParkedKnown ==
    ASSUME NEW c \in Credentials, NEW v \in Vals, c.keysLeft > 1,
           NEW d, d = KeyParked(c, v)
    PROVE  /\ d \in Credentials
           /\ Kept(c, d, {"state", "key", "keysLeft"})
           /\ d.state = AfterKey /\ d.key = v /\ d.keysLeft = c.keysLeft - 1
<1>1. c \in CredentialContexts /\ Consistent(c) /\ Fields(c)
  BY FieldsKnown DEF Credentials
<1>4. c.keysLeft - 1 \in 0 .. ListMax
  <2>1. c.keysLeft \in 0 .. ListMax
    BY <1>1 DEF Fields
  <2>2. c.keysLeft >= 1
    BY <1>1, <2>1, Limits
  <2> QED
    BY <2>1, <2>2, Limits, CountsDown
<1>5. d \in CredentialContexts
  BY <1>1, <1>4 DEF CredentialContexts, CredentialStates, UpdateStates, KeyParked, AfterKey
<1>6. /\ Kept(c, d, {"state", "key", "keysLeft"})
      /\ d.state = AfterKey /\ d.key = v /\ d.keysLeft = c.keysLeft - 1
  BY <1>1, <1>4 DEF Kept, CredentialFields, CredentialContexts, KeyParked, AfterKey
<1>7. Consistent(d)
  BY <1>1, <1>4, <1>6 DEF Consistent, Kept, CredentialFields, Fields, AfterKey
<1> QED
  BY <1>5, <1>6, <1>7 DEF Credentials

LEMMA KeyLastKnown ==
    ASSUME NEW c \in Credentials, NEW v \in Vals, c.keysLeft = 1,
           NEW d, d = KeyLast(c, v)
    PROVE  /\ d \in Credentials
           /\ Kept(c, d, {"state", "key", "keysLeft"})
           /\ d.state = "SIGNATURE_THRESHOLD" /\ d.key = v /\ d.keysLeft = 0
<1>1. c \in CredentialContexts /\ Consistent(c) /\ Fields(c)
  BY FieldsKnown DEF Credentials
<1>4. c.keysLeft - 1 \in 0 .. ListMax /\ c.keysLeft - 1 = 0
  <2>1. c.keysLeft \in 0 .. ListMax
    BY <1>1 DEF Fields
  <2>2. c.keysLeft >= 1
    BY <1>1, <2>1, Limits
  <2> QED
    BY <2>1, <2>2, Limits, CountsDown
<1>5. d \in CredentialContexts
  BY <1>1, <1>4 DEF CredentialContexts, CredentialStates, UpdateStates, KeyLast
<1>6. /\ Kept(c, d, {"state", "key", "keysLeft"})
      /\ d.state = "SIGNATURE_THRESHOLD" /\ d.key = v /\ d.keysLeft = 0
  BY <1>1, <1>4 DEF Kept, CredentialFields, CredentialContexts, KeyLast
<1>7. Consistent(d)
  BY <1>1, <1>4, <1>6 DEF Consistent, Kept, CredentialFields, Fields
<1> QED
  BY <1>5, <1>6, <1>7 DEF Credentials

LEMMA DetailsReadKnown ==
    ASSUME NEW c \in Credentials, NEW v \in Vals, NEW q \in Providers, NEW n \in 0 .. ListMax,
           NEW d, d = DetailsRead(c, v, q, n)
    PROVE  /\ d \in Credentials
           /\ Kept(c, d, {"state", "details", "provider", "arLength", "arsLeft", "ars"})
           /\ d.state = "AR_IDENTITY" /\ d.details = v
           /\ d.provider = number_to_text(c.provider, q) /\ d.arLength = n /\ d.arsLeft = n
           /\ d.ars = << >>
<1>1. c \in CredentialContexts /\ Consistent(c) /\ Fields(c)
  BY FieldsKnown DEF Credentials
<1>2. number_to_text(c.provider, q) \in Seq(0 .. 9)
  <2> DEFINE p == c.provider
  <2>1. p \in Seq(0 .. 9) /\ q \in Seq(0 .. 9)
    BY <1>1, CredentialAssumption DEF Fields
  <2> HIDE DEF p
  <2>2. SubSeq(p, Len(q) + 1, Len(p)) \in Seq(0 .. 9)
    BY <2>1
  <2>3. number_to_text(p, q) \in Seq(0 .. 9)
    BY <2>1, <2>2 DEF number_to_text
  <2> QED
    BY <2>3 DEF p
<1>3. << >> \in Seq(Vals) /\ Len(<< >>) = 0 /\ n \in Nat
  OBVIOUS
<1>5. d \in CredentialContexts
  BY <1>1, <1>2, <1>3 DEF CredentialContexts, CredentialStates, UpdateStates, DetailsRead
<1>6. /\ Kept(c, d, {"state", "details", "provider", "arLength", "arsLeft", "ars"})
      /\ d.state = "AR_IDENTITY" /\ d.details = v
      /\ d.provider = number_to_text(c.provider, q) /\ d.arLength = n /\ d.arsLeft = n
      /\ d.ars = << >>
  BY <1>1, <1>2, <1>3 DEF Kept, CredentialFields, CredentialContexts, DetailsRead
<1>7. Consistent(d)
  BY <1>1, <1>2, <1>3, <1>6 DEF Consistent, Kept, CredentialFields, Fields
<1> QED
  BY <1>5, <1>6, <1>7 DEF Credentials

LEMMA RevokerReadKnown ==
    ASSUME NEW c \in Credentials, NEW v \in Vals, c.state = "AR_IDENTITY", c.arsLeft # 0,
           NEW d, d = RevokerRead(c, v)
    PROVE  /\ d \in Credentials
           /\ Kept(c, d, {"state", "ars", "arsLeft"})
           /\ (d.state = IF c.arsLeft = 1 THEN "CREDENTIAL_DATES" ELSE "AR_IDENTITY")
           /\ d.ars = Append(c.ars, v) /\ d.arsLeft = c.arsLeft - 1
<1>1. c \in CredentialContexts /\ Consistent(c) /\ Fields(c)
  BY FieldsKnown DEF Credentials
<1>2. Append(c.ars, v) \in Seq(Vals) /\ Len(Append(c.ars, v)) = Len(c.ars) + 1 /\ Len(c.ars) \in Nat
  BY <1>1 DEF Fields
<1>4. c.arsLeft - 1 \in 0 .. ListMax
  <2>1. c.arsLeft \in 0 .. ListMax
    BY <1>1 DEF Fields
  <2>2. c.arsLeft >= 1
    BY <1>1, <2>1, Limits
  <2> QED
    BY <2>1, <2>2, Limits, CountsDown
<1>5. d \in CredentialContexts
  <2> DEFINE k == c.arsLeft - 1
             w == IF c.arsLeft = 1 THEN "CREDENTIAL_DATES" ELSE c.state
             g == Append(c.ars, v)
  <2>1. k \in 0 .. ListMax /\ w \in CredentialStates /\ g \in Seq(Vals)
    BY <1>2, <1>4 DEF CredentialStates
  <2>2. d = [c EXCEPT !.ars = g, !.arsLeft = k, !.state = w]
    BY DEF RevokerRead
  <2> HIDE DEF k, w, g
  <2> QED
    BY <1>1, <2>1, <2>2 DEF CredentialContexts
<1>6. /\ Kept(c, d, {"state", "ars", "arsLeft"})
      /\ (d.state = IF c.arsLeft = 1 THEN "CREDENTIAL_DATES" ELSE "AR_IDENTITY")
      /\ d.ars = Append(c.ars, v) /\ d.arsLeft = c.arsLeft - 1
  BY <1>1, <1>2, <1>4 DEF Kept, CredentialFields, CredentialContexts, RevokerRead
<1>7. Consistent(d)
  <2>1. /\ d.update = c.update /\ d.credentialsLeft = c.credentialsLeft /\ d.idsLeft = c.idsLeft
        /\ d.arLength = c.arLength
    BY <1>6 DEF Kept, CredentialFields
  <2>2. Len(d.ars) + d.arsLeft = d.arLength /\ d.arsLeft \in Nat
    BY <1>1, <1>2, <1>4, <1>6, <2>1 DEF Consistent, Fields
  <2>3. c.arsLeft = 1 => Len(d.ars) = d.arLength /\ d.arLength > 0
    BY <1>1, <1>2, <1>6, <2>1 DEF Consistent, Fields
  <2> QED
    BY <1>1, <1>6, <2>1, <2>2, <2>3 DEF Consistent
<1> QED
  BY <1>5, <1>6, <1>7 DEF Credentials

LEMMA DatesReadKnown ==
    ASSUME NEW c \in Credentials, NEW n \in 0 .. ListMax,
           NEW d, d = DatesRead(c, n)
    PROVE  /\ d \in Credentials
           /\ Kept(c, d, {"state", "attributesLeft"})
           /\ (d.state = IF n = 0 THEN "LENGTH_OF_PROOFS" ELSE "ATTRIBUTE_TAG")
           /\ d.attributesLeft = n
<1>1. c \in CredentialContexts /\ Consistent(c) /\ Fields(c)
  BY FieldsKnown DEF Credentials
<1>5. d \in CredentialContexts
  <2> DEFINE w == IF n = 0 THEN "LENGTH_OF_PROOFS" ELSE "ATTRIBUTE_TAG"
  <2>1. w \in CredentialStates
    BY DEF CredentialStates
  <2>2. d = [c EXCEPT !.attributesLeft = n, !.state = w]
    BY DEF DatesRead
  <2> HIDE DEF w
  <2> QED
    BY <1>1, <2>1, <2>2 DEF CredentialContexts
<1>6. /\ Kept(c, d, {"state", "attributesLeft"})
      /\ (d.state = IF n = 0 THEN "LENGTH_OF_PROOFS" ELSE "ATTRIBUTE_TAG")
      /\ d.attributesLeft = n
  BY <1>1 DEF Kept, CredentialFields, CredentialContexts, DatesRead
<1>7. Consistent(d)
  BY <1>1, <1>6 DEF Consistent, Kept, CredentialFields, Fields
<1> QED
  BY <1>5, <1>6, <1>7 DEF Credentials

LEMMA TagReadKnown ==
    ASSUME NEW c \in Credentials, NEW v \in Vals, c.state = "ATTRIBUTE_TAG",
           NEW d, d = TagRead(c, v)
    PROVE  /\ d \in Credentials
           /\ Kept(c, d, {"state", "tag"})
           /\ d.state = "ATTRIBUTE_VALUE" /\ d.tag = v
<1>1. c \in CredentialContexts /\ Consistent(c) /\ Fields(c)
  BY FieldsKnown DEF Credentials
<1>5. d \in CredentialContexts
  BY <1>1 DEF CredentialContexts, CredentialStates, UpdateStates, TagRead
<1>6. /\ Kept(c, d, {"state", "tag"})
      /\ d.state = "ATTRIBUTE_VALUE" /\ d.tag = v
  BY <1>1 DEF Kept, CredentialFields, CredentialContexts, TagRead
<1>7. Consistent(d)
  BY <1>1, <1>6 DEF Consistent, Kept, CredentialFields, Fields
<1> QED
  BY <1>5, <1>6, <1>7 DEF Credentials

LEMMA ProofAnnouncedKnown ==
    ASSUME NEW c \in Credentials, NEW n \in 0 .. ProofMax,
           NEW d, d = ProofAnnounced(c, n)
    PROVE  /\ d \in Credentials
           /\ Kept(c, d, {"state", "proofLeft"})
           /\ d.state = "PROOFS" /\ d.proofLeft = n
<1>1. c \in CredentialContexts /\ Consistent(c) /\ Fields(c)
  BY FieldsKnown DEF Credentials
<1>5. d \in CredentialContexts
  BY <1>1 DEF CredentialContexts, CredentialStates, UpdateStates, ProofAnnounced
<1>6. /\ Kept(c, d, {"state", "proofLeft"})
      /\ d.state = "PROOFS" /\ d.proofLeft = n
  BY <1>1 DEF Kept, CredentialFields, CredentialContexts, ProofAnnounced
<1>7. Consistent(d)
  BY <1>1, <1>6 DEF Consistent, Kept, CredentialFields, Fields
<1> QED
  BY <1>5, <1>6, <1>7 DEF Credentials

LEMMA ProofReadKnown ==
    ASSUME NEW c \in Credentials, c.proofLeft > CdataMax,
           NEW d, d = ProofRead(c)
    PROVE  /\ d \in Credentials
           /\ Kept(c, d, {"proofLeft"})
           /\ d.proofLeft = c.proofLeft - CdataMax
<1>1. c \in CredentialContexts /\ Consistent(c) /\ Fields(c)
  BY FieldsKnown DEF Credentials
<1>4. c.proofLeft - CdataMax \in 0 .. ProofMax
  <2>1. c.proofLeft \in 0 .. ProofMax
    BY <1>1 DEF Fields
  <2>2. c.proofLeft >= CdataMax
    BY <1>1, <2>1, Limits
  <2> QED
    BY <2>1, <2>2, Limits, CountsDown
<1>5. d \in CredentialContexts
  BY <1>1, <1>4 DEF CredentialContexts, CredentialStates, UpdateStates, ProofRead
<1>6. /\ Kept(c, d, {"proofLeft"})
      /\ d.proofLeft = c.proofLeft - CdataMax
  BY <1>1, <1>4 DEF Kept, CredentialFields, CredentialContexts, ProofRead
<1>7. Consistent(d)
  BY <1>1, <1>4, <1>6 DEF Consistent, Kept, CredentialFields, Fields
<1> QED
  BY <1>5, <1>6, <1>7 DEF Credentials

LEMMA ProofsReadKnown ==
    ASSUME NEW c \in Credentials,
           NEW d, d = ProofsRead(c)
    PROVE  /\ d \in Credentials
           /\ Kept(c, d, {"state"})
           /\ d.state = "NEW_OR_EXISTING"
<1>1. c \in CredentialContexts /\ Consistent(c) /\ Fields(c)
  BY FieldsKnown DEF Credentials
<1>5. d \in CredentialContexts
  BY <1>1 DEF CredentialContexts, CredentialStates, UpdateStates, ProofsRead
<1>6. /\ Kept(c, d, {"state"})
      /\ d.state = "NEW_OR_EXISTING"
  BY <1>1 DEF Kept, CredentialFields, CredentialContexts, ProofsRead
<1>7. Consistent(d)
  BY <1>1, <1>6 DEF Consistent, Kept, CredentialFields, Fields
<1> QED
  BY <1>5, <1>6, <1>7 DEF Credentials

LEMMA UpdateBegunKnown ==
    ASSUME NEW c \in Credentials, NEW n \in 0 .. ListMax,
           NEW d, d = UpdateBegun(c, n)
    PROVE  /\ d \in Credentials
           /\ Kept(c, d, {"update", "credentialsLeft"})
           /\ (d.update = IF n = 0 THEN "ID_COUNT" ELSE "CREDENTIAL_INDEX")
           /\ d.credentialsLeft = n
<1>1. c \in CredentialContexts /\ Consistent(c) /\ Fields(c)
  BY FieldsKnown DEF Credentials
<1>5. d \in CredentialContexts
  <2> DEFINE w == IF n = 0 THEN "ID_COUNT" ELSE "CREDENTIAL_INDEX"
  <2>1. w \in UpdateStates
    BY DEF UpdateStates
  <2>2. d = [c EXCEPT !.credentialsLeft = n, !.update = w]
    BY DEF UpdateBegun
  <2> HIDE DEF w
  <2> QED
    BY <1>1, <2>1, <2>2 DEF CredentialContexts
<1>6. /\ Kept(c, d, {"update", "credentialsLeft"})
      /\ (d.update = IF n = 0 THEN "ID_COUNT" ELSE "CREDENTIAL_INDEX")
      /\ d.credentialsLeft = n
  BY <1>1 DEF Kept, CredentialFields, CredentialContexts, UpdateBegun
<1>7. Consistent(d)
  BY <1>1, <1>6 DEF Consistent, Kept, CredentialFields, Fields
<1> QED
  BY <1>5, <1>6, <1>7 DEF Credentials

LEMMA IndexReadKnown ==
    ASSUME NEW c \in Credentials, c.credentialsLeft > 0,
           NEW d, d = IndexRead(c)
    PROVE  /\ d \in Credentials
           /\ Kept(c, d, {"update", "state"})
           /\ d.update = "CREDENTIAL" /\ (d.state = "VERIFICATION_KEYS_LENGTH")
<1>1. c \in CredentialContexts /\ Consistent(c) /\ Fields(c)
  BY FieldsKnown DEF Credentials
<1>5. d \in CredentialContexts
  BY <1>1 DEF CredentialContexts, CredentialStates, UpdateStates, IndexRead
<1>6. /\ Kept(c, d, {"update", "state"})
      /\ d.update = "CREDENTIAL" /\ (d.state = "VERIFICATION_KEYS_LENGTH")
  BY <1>1 DEF Kept, CredentialFields, CredentialContexts, IndexRead
<1>7. Consistent(d)
  BY <1>1, <1>6 DEF Consistent, Kept, CredentialFields, Fields
<1> QED
  BY <1>5, <1>6, <1>7 DEF Credentials

LEMMA IdsAnnouncedKnown ==
    ASSUME NEW c \in Credentials, NEW n \in 0 .. ListMax,
           NEW d, d = IdsAnnounced(c, n)
    PROVE  /\ d \in Credentials
           /\ Kept(c, d, {"update", "idsLeft"})
           /\ (d.update = IF n = 0 THEN "THRESHOLD" ELSE "ID") /\ d.idsLeft = n
<1>1. c \in CredentialContexts /\ Consistent(c) /\ Fields(c)
  BY FieldsKnown DEF Credentials
<1>5. d \in CredentialContexts
  <2> DEFINE u == IF n = 0 THEN "THRESHOLD" ELSE "ID"
  <2>1. u \in UpdateStates
    BY DEF UpdateStates
  <2>2. d = [c EXCEPT !.idsLeft = n, !.update = u]
    BY DEF IdsAnnounced
  <2> HIDE DEF u
  <2> QED
    BY <1>1, <2>1, <2>2 DEF CredentialContexts
<1>6. /\ Kept(c, d, {"update", "idsLeft"})
      /\ (d.update = IF n = 0 THEN "THRESHOLD" ELSE "ID") /\ d.idsLeft = n
  BY <1>1 DEF Kept, CredentialFields, CredentialContexts, IdsAnnounced
<1>7. Consistent(d)
  BY <1>1, <1>6 DEF Consistent, Kept, CredentialFields, Fields
<1> QED
  BY <1>5, <1>6, <1>7 DEF Credentials

LEMMA IdReadKnown ==
    ASSUME NEW c \in Credentials, c.update = "ID",
           NEW d, d = IdRead(c)
    PROVE  /\ d \in Credentials
           /\ Kept(c, d, {"update", "idsLeft"})
           /\ (d.update = IF c.idsLeft = 1 THEN "THRESHOLD" ELSE "ID")
           /\ d.idsLeft = c.idsLeft - 1
<1>1. c \in CredentialContexts /\ Consistent(c) /\ Fields(c)
  BY FieldsKnown DEF Credentials
<1>4. c.idsLeft - 1 \in 0 .. ListMax /\ (c.idsLeft - 1 = 0 <=> c.idsLeft = 1)
  <2>1. c.idsLeft \in 0 .. ListMax
    BY <1>1 DEF Fields
  <2>2. c.idsLeft >= 1
    BY <1>1, <2>1, Limits DEF Consistent
  <2> QED
    BY <2>1, <2>2, Limits, CountsDown
<1>5. d \in CredentialContexts
  BY <1>1, <1>4 DEF CredentialContexts, CredentialStates, UpdateStates, IdRead
<1>6. /\ Kept(c, d, {"update", "idsLeft"})
      /\ (d.update = IF c.idsLeft = 1 THEN "THRESHOLD" ELSE "ID")
      /\ d.idsLeft = c.idsLeft - 1
  BY <1>1, <1>4 DEF Kept, CredentialFields, CredentialContexts, IdRead
<1>7. Consistent(d)
  BY <1>1, <1>4, <1>6 DEF Consistent, Kept, CredentialFields, Fields
<1> QED
  BY <1>5, <1>6, <1>7 DEF Credentials

LEMMA KeyAcceptedKnown ==
    ASSUME NEW c \in Credentials,
           NEW d, d = KeyAccepted(c)
    PROVE  /\ d \in Credentials
           /\ Kept(c, d, {"state"})
           /\ (d.state = IF c.keysLeft = 0 THEN "SIGNATURE_THRESHOLD" ELSE "VERIFICATION_KEY")
<1>1. c \in CredentialContexts /\ Consistent(c) /\ Fields(c)
  BY FieldsKnown DEF Credentials
<1>5. d \in CredentialContexts
  <2> DEFINE w == IF c.keysLeft = 0 THEN "SIGNATURE_THRESHOLD" ELSE "VERIFICATION_KEY"
  <2>1. w \in CredentialStates
    BY DEF CredentialStates
  <2>2. d = [c EXCEPT !.state = w]
    BY DEF KeyAccepted
  <2> HIDE DEF w
  <2> QED
    BY <1>1, <2>1, <2>2 DEF CredentialContexts
<1>6. /\ Kept(c, d, {"state"})
      /\ (d.state = IF c.keysLeft = 0 THEN "SIGNATURE_THRESHOLD" ELSE "VERIFICATION_KEY")
  BY <1>1 DEF Kept, CredentialFields, CredentialContexts, KeyAccepted
<1>7. Consistent(d)
  BY <1>1, <1>6 DEF Consistent, Kept, CredentialFields, Fields
<1> QED
  BY <1>5, <1>6, <1>7 DEF Credentials

LEMMA AttributeAcceptedKnown ==
    ASSUME NEW c \in Credentials, c.attributesLeft # 0,
           NEW d, d = AttributeAccepted(c)
    PROVE  /\ d \in Credentials
           /\ Kept(c, d, {"state", "attributesLeft"})
           /\ (d.state = IF c.attributesLeft = 1 THEN "LENGTH_OF_PROOFS" ELSE "ATTRIBUTE_TAG")
           /\ d.attributesLeft = c.attributesLeft - 1
<1>1. c \in CredentialContexts /\ Consistent(c) /\ Fields(c)
  BY FieldsKnown DEF Credentials
<1>4. c.attributesLeft - 1 \in 0 .. ListMax /\ (c.attributesLeft - 1 > 0 <=> c.attributesLeft # 1)
  <2>1. c.attributesLeft \in 0 .. ListMax
    BY <1>1 DEF Fields
  <2>2. c.attributesLeft >= 1
    BY <1>1, <2>1, Limits
  <2> QED
    BY <2>1, <2>2, Limits, CountsDown
<1>5. d \in CredentialContexts
  <2> DEFINE k == c.attributesLeft - 1
             w == IF c.attributesLeft = 1 THEN "LENGTH_OF_PROOFS" ELSE "ATTRIBUTE_TAG"
  <2>1. k \in 0 .. ListMax /\ w \in CredentialStates
    BY <1>4 DEF CredentialStates
  <2>2. d = [c EXCEPT !.attributesLeft = k, !.state = w]
    BY DEF AttributeAccepted
  <2> HIDE DEF k, w
  <2> QED
    BY <1>1, <2>1, <2>2 DEF CredentialContexts
<1>6. /\ Kept(c, d, {"state", "attributesLeft"})
      /\ (d.state = IF c.attributesLeft = 1 THEN "LENGTH_OF_PROOFS" ELSE "ATTRIBUTE_TAG")
      /\ d.attributesLeft = c.attributesLeft - 1
  BY <1>1, <1>4 DEF Kept, CredentialFields, CredentialContexts, AttributeAccepted
<1>7. Consistent(d)
  BY <1>1, <1>4, <1>6 DEF Consistent, Kept, CredentialFields, Fields
<1> QED
  BY <1>5, <1>6, <1>7 DEF Credentials

LEMMA AddedAcceptedKnown ==
    ASSUME NEW c \in Credentials, c.credentialsLeft # 0,
           NEW d, d = AddedAccepted(c)
    PROVE  /\ d \in Credentials
           /\ Kept(c, d, {"state", "credentialsLeft", "update"})
           /\ (d.state = IF c.credentialsLeft = 1 THEN "zero" ELSE "VERIFICATION_KEYS_LENGTH")
           /\ d.credentialsLeft = c.credentialsLeft - 1 /\ d.update = AfterAdded(c)
<1>1. c \in CredentialContexts /\ Consistent(c) /\ Fields(c)
  BY FieldsKnown DEF Credentials
<1>4. c.credentialsLeft - 1 \in 0 .. ListMax
  <2>1. c.credentialsLeft \in 0 .. ListMax
    BY <1>1 DEF Fields
  <2>2. c.credentialsLeft >= 1
    BY <1>1, <2>1, Limits
  <2> QED
    BY <2>1, <2>2, Limits, CountsDown
<1>5. d \in CredentialContexts
  <2> DEFINE k == c.credentialsLeft - 1
             u == AfterAdded(c)
             w == IF c.credentialsLeft = 1 THEN "zero" ELSE "VERIFICATION_KEYS_LENGTH"
  <2>1. k \in 0 .. ListMax /\ u \in UpdateStates /\ w \in CredentialStates
    BY <1>4 DEF UpdateStates, CredentialStates, AfterAdded
  <2>2. d = [c EXCEPT !.credentialsLeft = k, !.update = u, !.state = w]
    BY DEF AddedAccepted
  <2> HIDE DEF k, u, w
  <2> QED
    BY <1>1, <2>1, <2>2 DEF CredentialContexts
<1>6. /\ Kept(c, d, {"state", "credentialsLeft", "update"})
      /\ (d.state = IF c.credentialsLeft = 1 THEN "zero" ELSE "VERIFICATION_KEYS_LENGTH")
      /\ d.credentialsLeft = c.credentialsLeft - 1 /\ d.update = AfterAdded(c)
  BY <1>1, <1>4 DEF Kept, CredentialFields, CredentialContexts, AddedAccepted, AfterAdded
<1>7. Consistent(d)
  BY <1>1, <1>4, <1>6 DEF Consistent, Kept, CredentialFields, Fields, AfterAdded
<1> QED
  BY <1>5, <1>6, <1>7 DEF Credentials

-----------------------------------------------------------------------------
(* Items. *)

ValueTags ==
    {"idCredPub", "credId", "keyType", "keyIndex", "key", "threshold", "signatureThreshold",
     "regIdCred", "ar", "tag", "value", "credentialIndex", "expiry", "address"}

CountTags == {"keyCount", "keysLength", "credentialCount", "idCount", "proofLength", "proof"}

IdentityItem ==
    ({"header"} \X Headers) \cup {<<"kind", UPDATECRED>>} \cup (ValueTags \X Vals)
        \cup (CountTags \X Nat) \cup ({"identityProvider"} \X Providers)
        \cup ({"arThreshold", "dates"} \X Vals \X Nat)
        \cup ({"newOrExisting"} \X {"expiry", "address"})

LEMMA ItemsKnown ==
    /\ \A h \in Headers : <<"header", h>> \in IdentityItem
    /\ <<"kind", UPDATECRED>> \in IdentityItem
    /\ \A t \in ValueTags, v \in Vals : <<t, v>> \in IdentityItem
    /\ \A t \in CountTags, n \in Nat : <<t, n>> \in IdentityItem
    /\ \A q \in Providers : <<"identityProvider", q>> \in IdentityItem
    /\ \A v \in Vals, n \in Nat : <<"arThreshold", v, n>> \in IdentityItem
    /\ \A v \in Vals, n \in Nat : <<"dates", v, n>> \in IdentityItem
    /\ \A t \in {"expiry", "address"} : <<"newOrExisting", t>> \in IdentityItem
  BY DEF IdentityItem

\* Items other than the key of a credential.
OtherItem == {x \in IdentityItem : x[1] # "key"}

LEMMA OthersKnown ==
    /\ \A h \in Headers : <<"header", h>> \in OtherItem
    /\ <<"kind", UPDATECRED>> \in OtherItem
    /\ \A t \in ValueTags \ {"key"}, v \in Vals : <<t, v>> \in OtherItem
    /\ \A t \in CountTags, n \in Nat : <<t, n>> \in OtherItem
    /\ \A q \in Providers : <<"identityProvider", q>> \in OtherItem
    /\ \A v \in Vals, n \in Nat : <<"arThreshold", v, n>> \in OtherItem
    /\ \A v \in Vals, n \in Nat : <<"dates", v, n>> \in OtherItem
    /\ \A t \in {"expiry", "address"} : <<"newOrExisting", t>> \in OtherItem
<1>1. ASSUME NEW t \in CountTags PROVE t # "key"
  BY DEF CountTags
<1> QED
  BY ItemsKnown, <1>1 DEF OtherItem

Keys(s) == {x \in ItemsOf(s) : x[1] = "key"}

\* A step that hashes no key of a credential.
AddsNoKey == \E t \in Seq(OtherItem) : hash' = hash \o t \/ hash' = t

LEMMA OtherSeq ==
    ASSUME NEW t \in Seq(OtherItem)
    PROVE  /\ t \in Seq(IdentityItem) /\ Keys(t) = {}
           /\ \A k \in 0 .. Len(t) : SubSeq(t, 1, k) \in Seq(OtherItem)
<1>1. OtherItem \subseteq IdentityItem
  BY DEF OtherItem
<1>2. t \in Seq(IdentityItem)
  BY <1>1
<1>3. ItemsOf(t) \subseteq OtherItem
  BY ItemsOfSeq
<1>4. Keys(t) = {}
  BY <1>3 DEF Keys, OtherItem
<1> QED
  BY <1>2, <1>4, PrefixOfSeq

LEMMA AddsNoKeyKnown ==
    ASSUME hash \in Seq(IdentityItem), AddsNoKey
    PROVE  /\ hash' \in Seq(IdentityItem) /\ Keys(hash') \subseteq Keys(hash)
           /\ Len(hash') > Len(hash) => hash'[Len(hash')][1] # "key"
<1>1. PICK t \in Seq(OtherItem) : hash' = hash \o t \/ hash' = t
  BY DEF AddsNoKey
<1>2. t \in Seq(IdentityItem) /\ Keys(t) = {} /\ \A k \in 1 .. Len(t) : t[k][1] # "key"
  <2>1. \A k \in 1 .. Len(t) : t[k] \in OtherItem
    OBVIOUS
  <2> QED
    BY <2>1, OtherSeq DEF OtherItem
<1>3. CASE hash' = t
  BY <1>2, <1>3
<1>4. CASE hash' = hash \o t
  <2>1. hash' \in Seq(IdentityItem) /\ ItemsOf(hash') = ItemsOf(hash) \cup ItemsOf(t)
    BY <1>2, <1>4, ItemsOfConcat
  <2>2. Keys(hash') \subseteq Keys(hash)
    BY <1>2, <2>1 DEF Keys
  <2>3. ASSUME Len(hash') > Len(hash) PROVE hash'[Len(hash')][1] # "key"
    <3>1. Len(t) \in 1 .. Len(t) /\ hash'[Len(hash')] = t[Len(t)]
      BY <1>2, <1>4, <2>3
    <3> QED
      BY <1>2, <3>1
  <2> QED
    BY <2>1, <2>2, <2>3
<1> QED
  BY <1>1, <1>3, <1>4

LEMMA SameAddsNoKey == ASSUME hash \in Seq(IdentityItem), hash' = hash PROVE AddsNoKey
<1>1. << >> \in Seq(OtherItem) /\ hash \o << >> = hash
  OBVIOUS
<1> QED
  BY <1>1 DEF AddsNoKey

LEMMA EmptyAddsNoKey == ASSUME hash' = << >> PROVE AddsNoKey
<1>1. << >> \in Seq(OtherItem)
  OBVIOUS
<1> QED
  BY <1>1 DEF AddsNoKey

LEMMA FeedAddsNoKey == ASSUME NEW t \in Seq(OtherItem), Feed(t) PROVE AddsNoKey
  BY DEF Feed, AddsNoKey

LEMMA PrefixAddsNoKey == ASSUME NEW t \in Seq(OtherItem), ThrowAfterPrefix(t) PROVE AddsNoKey
<1>1. PICK k \in 0 .. Len(t) : Feed(SubSeq(t, 1, k))
  BY DEF ThrowAfterPrefix
<1> QED
  BY <1>1, OtherSeq, FeedAddsNoKey

-----------------------------------------------------------------------------
(* A packet that is taken in a stage behind the first finds the open flow. *)

LEMMA InStateOpen ==
    ASSUME Holds, NEW ins \in CredentialInss, NEW st, st \notin {"zero", "INITIAL"}, InState(ins, st)
    PROVE  /\ latch = ins /\ ctx \in Credentials /\ CredentialView(ins) = ctx /\ ctx.state = st
           /\ ins = UPDATECRED => ctx.update = "CREDENTIAL" /\ ctx.credentialsLeft > 0
           /\ UNCHANGED txConst
<1>1. latch \in {NONE, ins} /\ CredentialView(ins).state = st /\ UNCHANGED txConst
  BY DEF InState, Enters
<1>2. ins # NONE
  BY DEF CredentialInss, CREDENTIAL, UPDATECRED, NONE
<1>3. CredentialZero.state = "zero" /\ [CredentialZero EXCEPT !.state = "INITIAL"].state = "INITIAL"
  BY DEF CredentialZero
<1>4. latch # NONE
  BY <1>1, <1>3 DEF CredentialView, IsInitialCall
<1>5. ctx # Wiped
  BY <1>1, <1>3, <1>4 DEF CredentialView, IsInitialCall
<1>6. CredentialView(ins) = ctx
  BY <1>4, <1>5 DEF CredentialView, IsInitialCall
<1> QED
  BY <1>1, <1>4, <1>5, <1>6 DEF Holds, InState

LEMMA InUpdateOpen ==
    ASSUME Holds, NEW u, u # "INITIAL", InUpdate(u)
    PROVE  /\ latch = UPDATECRED /\ ctx \in Credentials /\ CredentialView(UPDATECRED) = ctx
           /\ ctx.update = u
<1>1. latch \in {NONE, UPDATECRED} /\ CredentialView(UPDATECRED).update = u
  BY DEF InUpdate, Enters
<1>2. /\ CredentialZero.update = "INITIAL"
      /\ [CredentialZero EXCEPT !.state = "INITIAL"].update = "INITIAL"
  BY DEF CredentialZero
<1>4. latch # NONE
  BY <1>1, <1>2 DEF CredentialView, IsInitialCall
<1>5. ctx # Wiped
  BY <1>1, <1>2, <1>4 DEF CredentialView, IsInitialCall
<1>6. CredentialView(UPDATECRED) = ctx
  BY <1>4, <1>5 DEF CredentialView, IsInitialCall
<1> QED
  BY <1>1, <1>4, <1>5, <1>6 DEF Holds, InUpdate

-----------------------------------------------------------------------------
(* Keys wait for their review, without the gate.                           *)

Open == latch \in CredentialInss /\ ctx # Wiped

KeyTyped ==
    /\ latch \in CredentialInss \cup {NONE, "GET_APP_NAME"}
    /\ ctx \in Credentials \cup {Wiped}
    /\ hash \in Seq(IdentityItem)

\* Wherever a key can be hashed or can come to be hashed next, those before it
\* have been accepted.  A callback that is late finds a flow in which it does no
\* harm: the button of a key moves to the next key only where all keys are
\* accepted with it, and that of an added credential shows the key that is in
\* the union.
KeysAccepted ==
    Open =>
        /\ ctx.state \in {"VERIFICATION_KEYS_LENGTH", "VERIFICATION_KEY"} => Keys(hash) \subseteq approved
        /\ ctx.update = "CREDENTIAL_INDEX" => Keys(hash) \subseteq approved
        /\ screen.cb = "nextKey" => ctx.keysLeft = 0 \/ Keys(hash) \subseteq approved \cup screen.items
        /\ ctx.update # "INITIAL" => Keys(hash) \subseteq approved \cup {<<"key", ctx.key>>}
        /\ ctx.update # "INITIAL" /\ screen.cb = "added" =>
               <<"key", ctx.key>> \in screen.items /\ ctx.state = "PROOFS" /\ ctx.update = "CREDENTIAL"
        /\ ctx.update = "INITIAL" => ctx.credentialsLeft = 0
        /\ latch = CREDENTIAL => ctx.update = "INITIAL"

KeyInv == KeyTyped /\ KeysAccepted

\* One step of the credential flows.
KeyStep ==
    /\ KeyInv'
    /\ Len(hash') > Len(hash) /\ hash'[Len(hash')][1] = "key" => Keys(hash) \subseteq approved

LEMMA ClosedStep ==
    ASSUME KeyInv, AddsNoKey, latch' \notin CredentialInss \/ ctx' = Wiped,
           latch' \in CredentialInss \cup {NONE, "GET_APP_NAME"}, ctx' \in Credentials \cup {Wiped}
    PROVE  KeyStep
<1>1. hash \in Seq(IdentityItem)
  BY DEF KeyInv, KeyTyped
<1> QED
  BY <1>1, AddsNoKeyKnown DEF KeyStep, KeyInv, KeyTyped, KeysAccepted, Open

LEMMA ThrowStep ==
    ASSUME KeyInv, AddsNoKey, Throw \/ CallbackThrow
    PROVE  KeyStep
<1>1. latch' = NONE /\ ctx' = Wiped
  BY DEF Throw, CallbackThrow, ui_menu_main
<1>2. NONE \notin CredentialInss
  BY DEF CredentialInss, CREDENTIAL, UPDATECRED, NONE
<1> QED
  BY <1>1, <1>2, ClosedStep

\* A packet behind the keys of a credential.
LEMMA LaterPacketStep ==
    ASSUME KeyInv, Open, AddsNoKey, latch' = latch, ctx' \in Credentials, approved' = approved,
           NEW X, Kept(ctx, ctx', X), X \cap {"update", "key", "keysLeft", "credentialsLeft"} = {},
           ctx.state # "PROOFS", latch = UPDATECRED => ctx.update # "INITIAL",
           ctx'.state \notin {"VERIFICATION_KEYS_LENGTH", "VERIFICATION_KEY"},
           screen' = screen \/ screen'.cb \notin {"nextKey", "added"}
    PROVE  KeyStep
<1>1. hash \in Seq(IdentityItem) /\ latch \in CredentialInss /\ ctx' # Wiped
  BY ZeroKnown DEF KeyInv, KeyTyped, Open
<1>2. hash' \in Seq(IdentityItem) /\ Keys(hash') \subseteq Keys(hash)
  BY <1>1, AddsNoKeyKnown
<1>3. /\ ctx'.update = ctx.update /\ ctx'.key = ctx.key /\ ctx'.keysLeft = ctx.keysLeft
      /\ ctx'.credentialsLeft = ctx.credentialsLeft
  BY DEF Kept, CredentialFields
<1>4. KeysAccepted'
  BY <1>2, <1>3 DEF KeyInv, KeysAccepted, Open
<1> QED
  BY <1>1, <1>2, <1>4, AddsNoKeyKnown DEF KeyStep, KeyInv, KeyTyped

LEMMA OneOther == ASSUME NEW x \in OtherItem PROVE <<x>> \in Seq(OtherItem)
  OBVIOUS

LEMMA HoldsKnown == ASSUME KeyInv PROVE Holds /\ hash \in Seq(IdentityItem)
  BY DEF KeyInv, KeyTyped, Holds

LEMMA KeysLengthStep ==
    ASSUME KeyInv, NEW ins \in CredentialInss, CredentialKeysLength(ins) PROVE KeyStep
<1>1. PICK n \in 0 .. ListMax :
          /\ InState(ins, "VERIFICATION_KEYS_LENGTH") /\ Feed(<<<<"keysLength", n>>>>)
          /\ Ack(ins, KeysAnnounced(CredentialView(ins), n))
  BY DEF CredentialKeysLength, KeysAnnounced
<1>2. /\ latch = ins /\ ctx \in Credentials /\ CredentialView(ins) = ctx
      /\ ctx.state = "VERIFICATION_KEYS_LENGTH" /\ approved' = approved
  BY <1>1, InStateOpen, HoldsKnown DEF txConst
<1>3. AddsNoKey
  BY <1>1, OthersKnown, OneOther, FeedAddsNoKey DEF CountTags
<1>4. latch' = latch /\ ctx' = KeysAnnounced(ctx, n) /\ screen' = screen
  BY <1>1, <1>2 DEF Ack
<1>5. /\ ctx' \in Credentials /\ ctx'.update = ctx.update /\ ctx'.key = ctx.key
      /\ ctx'.credentialsLeft = ctx.credentialsLeft /\ ctx'.state = "VERIFICATION_KEY"
  BY <1>2, <1>4, KeysAnnouncedKnown DEF Kept, CredentialFields
<1>6. Open /\ ctx # Wiped /\ ctx' # Wiped
  BY <1>2, <1>5, ZeroKnown DEF Open
<1>7. hash' \in Seq(IdentityItem) /\ Keys(hash') \subseteq Keys(hash)
  BY <1>3, AddsNoKeyKnown, HoldsKnown
<1>8. KeysAccepted'
  BY <1>2, <1>4, <1>5, <1>6, <1>7 DEF KeyInv, KeysAccepted, Open
<1> QED
  BY <1>2, <1>3, <1>4, <1>5, <1>7, <1>8, AddsNoKeyKnown, HoldsKnown DEF KeyStep, KeyInv, KeyTyped

LEMMA KeyFed ==
    ASSUME hash \in Seq(IdentityItem), NEW v \in Vals, Feed(<<<<"key", v>>>>)
    PROVE  hash' \in Seq(IdentityItem) /\ Keys(hash') = Keys(hash) \cup {<<"key", v>>}
<1> DEFINE x == <<"key", v>>
<1>1. x \in IdentityItem /\ x[1] = "key"
  BY ItemsKnown DEF ValueTags
<1> HIDE DEF x
<1>2. <<x>> \in Seq(IdentityItem) /\ ItemsOf(<<x>>) = {x}
  BY <1>1, SingletonSeq
<1>3. hash' = hash \o <<x>>
  BY DEF Feed, x
<1>4. hash' \in Seq(IdentityItem) /\ ItemsOf(hash') = ItemsOf(hash) \cup {x}
  <2>1. /\ hash \o <<x>> \in Seq(IdentityItem)
        /\ ItemsOf(hash \o <<x>>) = ItemsOf(hash) \cup ItemsOf(<<x>>)
    BY <1>2, ItemsOfConcat
  <2> QED
    BY <1>2, <1>3, <2>1, Zenon
<1> QED
  BY <1>1, <1>4 DEF Keys, x

LEMMA CredentialKeyStep ==
    ASSUME KeyInv, NEW ins \in CredentialInss, CredentialKey(ins) PROVE KeyStep
<1> DEFINE c == CredentialView(ins)
<1>1. PICK v \in Vals :
          /\ InState(ins, "VERIFICATION_KEY")
          /\ \/ Throw /\ UNCHANGED hash
             \/ /\ c.keysLeft > 1 /\ Feed(<<<<"key", v>>>>)
                /\ Review(ins, KeyParked(c, v), uiSignCredentialDeploymentVerificationKeyFlowDisplay(
                                                    [c EXCEPT !.key = v, !.keysLeft = @ - 1]))
             \/ /\ c.keysLeft = 1 /\ Feed(<<<<"key", v>>>>) /\ Ack(ins, KeyLast(c, v))
  BY Zenon DEF CredentialKey, KeyParked, KeyLast
<1>2. /\ latch = ins /\ ctx \in Credentials /\ c = ctx
      /\ ctx.state = "VERIFICATION_KEY" /\ approved' = approved
  BY <1>1, InStateOpen, HoldsKnown DEF txConst
<1>3. CASE Throw /\ UNCHANGED hash
  BY <1>3, ThrowStep, SameAddsNoKey, HoldsKnown
<1>4. ctx # Wiped /\ Open /\ Keys(hash) \subseteq approved
  BY <1>2, ZeroKnown DEF Open, KeyInv, KeysAccepted
<1>5. CASE /\ c.keysLeft > 1 /\ Feed(<<<<"key", v>>>>)
           /\ Review(ins, KeyParked(c, v), uiSignCredentialDeploymentVerificationKeyFlowDisplay(
                                               [c EXCEPT !.key = v, !.keysLeft = @ - 1]))
  <2>1. /\ hash' \in Seq(IdentityItem) /\ Keys(hash') = Keys(hash) \cup {<<"key", v>>}
    BY <1>5, KeyFed, HoldsKnown
  <2>2. latch' = latch /\ ctx' = KeyParked(ctx, v)
    BY <1>2, <1>5 DEF Review
  <2>3. screen'.cb = "nextKey" /\ screen'.items = {<<"key", v>>}
    <3>1. ctx \in CredentialContexts
      BY <1>2 DEF Credentials
    <3>2. [ctx EXCEPT !.key = v, !.keysLeft = @ - 1].key = v
      BY <3>1 DEF CredentialContexts
    <3> QED
      BY <1>2, <1>5, <3>2 DEF Review, uiSignCredentialDeploymentVerificationKeyFlowDisplay, KeyRow
  <2>4. /\ ctx' \in Credentials /\ ctx'.update = ctx.update /\ ctx'.key = v
        /\ ctx'.credentialsLeft = ctx.credentialsLeft /\ ctx'.state = AfterKey
    BY <1>2, <1>5, <2>2, KeyParkedKnown DEF Kept, CredentialFields
  <2>5. ctx.update # "CREDENTIAL_INDEX"
    BY <1>1, <1>2, <1>4, InStateOpen, HoldsKnown DEF KeyInv, KeysAccepted, CredentialInss
  <2>6. KeysAccepted'
    BY <1>2, <1>4, <2>1, <2>2, <2>3, <2>4, <2>5 DEF KeyInv, KeysAccepted, Open, AfterKey
  <2> QED
    BY <1>2, <1>4, <2>1, <2>2, <2>4, <2>6 DEF KeyStep, KeyInv, KeyTyped
<1>6. CASE c.keysLeft = 1 /\ Feed(<<<<"key", v>>>>) /\ Ack(ins, KeyLast(c, v))
  <2>1. /\ hash' \in Seq(IdentityItem) /\ Keys(hash') = Keys(hash) \cup {<<"key", v>>}
    BY <1>6, KeyFed, HoldsKnown
  <2>2. latch' = latch /\ ctx' = KeyLast(ctx, v) /\ screen' = screen
    BY <1>2, <1>6 DEF Ack
  <2>4. /\ ctx' \in Credentials /\ ctx'.update = ctx.update /\ ctx'.key = v /\ ctx'.keysLeft = 0
        /\ ctx'.credentialsLeft = ctx.credentialsLeft /\ ctx'.state = "SIGNATURE_THRESHOLD"
    BY <1>2, <1>6, <2>2, KeyLastKnown DEF Kept, CredentialFields
  <2>5. ctx.update # "CREDENTIAL_INDEX"
    BY <1>1, <1>2, <1>4, InStateOpen, HoldsKnown DEF KeyInv, KeysAccepted, CredentialInss
  <2>6. KeysAccepted'
    BY <1>2, <1>4, <2>1, <2>2, <2>4, <2>5 DEF KeyInv, KeysAccepted, Open
  <2> QED
    BY <1>2, <1>4, <2>1, <2>2, <2>4, <2>6 DEF KeyStep, KeyInv, KeyTyped
<1> QED
  BY <1>1, <1>3, <1>5, <1>6

\* Which of the packets behind the keys it is makes no difference.
LaterPacket(ins, st, X) ==
    \/ Throw /\ AddsNoKey
    \/ /\ AddsNoKey /\ InState(ins, st) /\ st \notin {"zero", "INITIAL", "PROOFS"}
       /\ latch' = ins /\ ctx' \in Credentials /\ Kept(ctx, ctx', X)
       /\ X \cap {"update", "key", "keysLeft", "credentialsLeft"} = {}
       /\ ctx'.state \notin {"VERIFICATION_KEYS_LENGTH", "VERIFICATION_KEY"}
       /\ screen' = screen \/ screen'.cb \notin {"nextKey", "added"}

LEMMA LaterPacketKeeps ==
    ASSUME KeyInv, NEW ins \in CredentialInss, NEW st, NEW X, LaterPacket(ins, st, X) PROVE KeyStep
<1>1. CASE Throw /\ AddsNoKey
  BY <1>1, ThrowStep
<1>2. CASE ~(Throw /\ AddsNoKey)
  <2>1. /\ InState(ins, st) /\ st \notin {"zero", "INITIAL", "PROOFS"}
    BY <1>2 DEF LaterPacket
  <2>2. /\ latch = ins /\ ctx \in Credentials /\ ctx.state = st /\ approved' = approved
        /\ ins = UPDATECRED => ctx.update = "CREDENTIAL"
    BY <2>1, InStateOpen, HoldsKnown DEF txConst
  <2>3. Open
    BY <2>2, ZeroKnown DEF Open
  <2> QED
    BY <1>2, <2>1, <2>2, <2>3, LaterPacketStep DEF LaterPacket
<1> QED
  BY <1>1, <1>2

LEMMA DetailItems ==
    ASSUME NEW v \in Vals, NEW q \in Providers, NEW n \in 0 .. ListMax
    PROVE  LET t == <<<<"signatureThreshold", v>>, <<"regIdCred", v>>, <<"identityProvider", q>>,
                      <<"arThreshold", v, n>>>>
           IN  t \in Seq(OtherItem) /\ SubSeq(t, 1, 3) \in Seq(OtherItem)
<1> DEFINE a == <<"signatureThreshold", v>>
           b == <<"regIdCred", v>>
           c == <<"identityProvider", q>>
           d == <<"arThreshold", v, n>>
<1>1. a \in OtherItem /\ b \in OtherItem /\ c \in OtherItem /\ d \in OtherItem
  BY OthersKnown DEF ValueTags
<1> HIDE DEF a, b, c, d
<1>2. <<a, b, c, d>> \in Seq(OtherItem) /\ 3 \in 0 .. Len(<<a, b, c, d>>)
  BY <1>1
<1>3. SubSeq(<<a, b, c, d>>, 1, 3) \in Seq(OtherItem)
  BY <1>2, PrefixOfSeq
<1> QED
  BY <1>2, <1>3 DEF a, b, c, d

LEMMA DetailsStep ==
    ASSUME KeyInv, NEW ins \in CredentialInss, CredentialDetails(ins) PROVE KeyStep
<1>1. PICK v \in Vals, q \in Providers, n \in 0 .. ListMax :
          LET t == <<<<"signatureThreshold", v>>, <<"regIdCred", v>>, <<"identityProvider", q>>,
                     <<"arThreshold", v, n>>>>
          IN  /\ InState(ins, "SIGNATURE_THRESHOLD")
              /\ \/ Throw /\ UNCHANGED hash
                 \/ ThrowAfterPrefix(SubSeq(t, 1, 3))
                 \/ Feed(t) /\ Ack(ins, DetailsRead(CredentialView(ins), v, q, n))
  BY Zenon DEF CredentialDetails, DetailsRead
<1> DEFINE t == <<<<"signatureThreshold", v>>, <<"regIdCred", v>>, <<"identityProvider", q>>,
                  <<"arThreshold", v, n>>>>
<1>2. t \in Seq(OtherItem) /\ SubSeq(t, 1, 3) \in Seq(OtherItem)
  BY DetailItems
<1> HIDE DEF t
<1>3. AddsNoKey
  BY <1>1, <1>2, SameAddsNoKey, HoldsKnown, PrefixAddsNoKey, FeedAddsNoKey DEF t
<1>4. latch = ins /\ ctx \in Credentials /\ CredentialView(ins) = ctx
  BY <1>1, InStateOpen, HoldsKnown
<1>5. CASE Throw
  BY <1>3, <1>5, ThrowStep
<1>6. CASE ~Throw
  <2>1. latch' = ins /\ ctx' = DetailsRead(ctx, v, q, n) /\ screen' = screen
    BY <1>1, <1>4, <1>6 DEF ThrowAfterPrefix, Ack
  <2>2. /\ ctx' \in Credentials /\ ctx'.state = "AR_IDENTITY"
        /\ Kept(ctx, ctx', {"state", "details", "provider", "arLength", "arsLeft", "ars"})
    BY <1>4, <2>1, DetailsReadKnown
  <2>3. LaterPacket(ins, "SIGNATURE_THRESHOLD",
                    {"state", "details", "provider", "arLength", "arsLeft", "ars"})
    BY <1>1, <1>3, <2>1, <2>2 DEF LaterPacket
  <2> QED
    BY <2>3, LaterPacketKeeps
<1> QED
  BY <1>5, <1>6

LEMMA RevokerStep ==
    ASSUME KeyInv, NEW ins \in CredentialInss, CredentialRevoker(ins) PROVE KeyStep
<1>1. PICK v \in Vals :
          /\ InState(ins, "AR_IDENTITY")
          /\ \/ Throw /\ UNCHANGED hash
             \/ /\ CredentialView(ins).arsLeft # 0 /\ Feed(<<<<"ar", v>>>>)
                /\ Ack(ins, RevokerRead(CredentialView(ins), v))
  BY Zenon DEF CredentialRevoker, RevokerRead
<1>2. latch = ins /\ ctx \in Credentials /\ CredentialView(ins) = ctx /\ ctx.state = "AR_IDENTITY"
  BY <1>1, InStateOpen, HoldsKnown
<1>3. AddsNoKey
  BY <1>1, SameAddsNoKey, HoldsKnown, FeedAddsNoKey, OneOther, OthersKnown DEF ValueTags
<1>4. CASE Throw
  BY <1>3, <1>4, ThrowStep
<1>5. CASE ~Throw
  <2>1. ctx.arsLeft # 0 /\ latch' = ins /\ ctx' = RevokerRead(ctx, v) /\ screen' = screen
    BY <1>1, <1>2, <1>5 DEF Ack
  <2>2. /\ ctx' \in Credentials /\ ctx'.state \in {"CREDENTIAL_DATES", "AR_IDENTITY"}
        /\ Kept(ctx, ctx', {"state", "ars", "arsLeft"})
    BY <1>2, <2>1, RevokerReadKnown
  <2>3. LaterPacket(ins, "AR_IDENTITY", {"state", "ars", "arsLeft"})
    BY <1>1, <1>3, <2>1, <2>2 DEF LaterPacket
  <2> QED
    BY <2>3, LaterPacketKeeps
<1> QED
  BY <1>4, <1>5

LEMMA DatesStep ==
    ASSUME KeyInv, NEW ins \in CredentialInss, CredentialDates(ins) PROVE KeyStep
<1>1. PICK v \in Vals, n \in 0 .. ListMax :
          /\ InState(ins, "CREDENTIAL_DATES")
          /\ \/ Throw /\ UNCHANGED hash
             \/ Feed(<<<<"dates", v, n>>>>) /\ Ack(ins, DatesRead(CredentialView(ins), n))
  BY Zenon DEF CredentialDates, DatesRead
<1>2. latch = ins /\ ctx \in Credentials /\ CredentialView(ins) = ctx
  BY <1>1, InStateOpen, HoldsKnown
<1>3. AddsNoKey
  BY <1>1, SameAddsNoKey, HoldsKnown, FeedAddsNoKey, OneOther, OthersKnown
<1>4. CASE Throw
  BY <1>3, <1>4, ThrowStep
<1>5. CASE ~Throw
  <2>1. latch' = ins /\ ctx' = DatesRead(ctx, n) /\ screen' = screen
    BY <1>1, <1>2, <1>5 DEF Ack
  <2>2. /\ ctx' \in Credentials /\ ctx'.state \in {"LENGTH_OF_PROOFS", "ATTRIBUTE_TAG"}
        /\ Kept(ctx, ctx', {"state", "attributesLeft"})
    BY <1>2, <2>1, DatesReadKnown
  <2>3. LaterPacket(ins, "CREDENTIAL_DATES", {"state", "attributesLeft"})
    BY <1>1, <1>3, <2>1, <2>2 DEF LaterPacket
  <2> QED
    BY <2>3, LaterPacketKeeps
<1> QED
  BY <1>4, <1>5

LEMMA TagStep ==
    ASSUME KeyInv, NEW ins \in CredentialInss, CredentialTag(ins) PROVE KeyStep
<1>1. PICK v \in Vals :
          /\ InState(ins, "ATTRIBUTE_TAG")
          /\ \/ ThrowAfterPrefix(<<<<"tag", v>>>>)
             \/ Feed(<<<<"tag", v>>>>) /\ Ack(ins, TagRead(CredentialView(ins), v))
  BY Zenon DEF CredentialTag, TagRead
<1>2. latch = ins /\ ctx \in Credentials /\ CredentialView(ins) = ctx /\ ctx.state = "ATTRIBUTE_TAG"
  BY <1>1, InStateOpen, HoldsKnown
<1>3. AddsNoKey
  BY <1>1, PrefixAddsNoKey, FeedAddsNoKey, OneOther, OthersKnown DEF ValueTags
<1>4. CASE Throw
  BY <1>3, <1>4, ThrowStep
<1>5. CASE ~Throw
  <2>1. latch' = ins /\ ctx' = TagRead(ctx, v) /\ screen' = screen
    BY <1>1, <1>2, <1>5 DEF Ack, ThrowAfterPrefix
  <2>2. ctx' \in Credentials /\ ctx'.state = "ATTRIBUTE_VALUE" /\ Kept(ctx, ctx', {"state", "tag"})
    BY <1>2, <2>1, TagReadKnown
  <2>3. LaterPacket(ins, "ATTRIBUTE_TAG", {"state", "tag"})
    BY <1>1, <1>3, <2>1, <2>2 DEF LaterPacket
  <2> QED
    BY <2>3, LaterPacketKeeps
<1> QED
  BY <1>4, <1>5

LEMMA ValueStep ==
    ASSUME KeyInv, NEW ins \in CredentialInss, CredentialValue(ins) PROVE KeyStep
<1>1. PICK v \in Vals :
          /\ InState(ins, "ATTRIBUTE_VALUE")
          /\ \/ ThrowAfterPrefix(<<<<"value", v>>>>)
             \/ /\ Feed(<<<<"value", v>>>>)
                /\ Review(ins, CredentialView(ins),
                          uiSignCredentialDeploymentAttributeDisplay(CredentialView(ins), v))
  BY Zenon DEF CredentialValue
<1>2. /\ latch = ins /\ ctx \in Credentials /\ CredentialView(ins) = ctx
      /\ ctx.state = "ATTRIBUTE_VALUE"
  BY <1>1, InStateOpen, HoldsKnown
<1>3. AddsNoKey
  BY <1>1, PrefixAddsNoKey, FeedAddsNoKey, OneOther, OthersKnown DEF ValueTags
<1>4. CASE Throw
  BY <1>3, <1>4, ThrowStep
<1>5. CASE ~Throw
  <2>1. latch' = ins /\ ctx' = ctx /\ screen'.cb = "attribute" /\ Kept(ctx, ctx', {})
    BY <1>1, <1>2, <1>5
    DEF Review, ThrowAfterPrefix, uiSignCredentialDeploymentAttributeDisplay, Kept
  <2>2. LaterPacket(ins, "ATTRIBUTE_VALUE", {})
    BY <1>1, <1>2, <1>3, <2>1 DEF LaterPacket
  <2> QED
    BY <2>2, LaterPacketKeeps
<1> QED
  BY <1>4, <1>5

LEMMA ProofLengthStep ==
    ASSUME KeyInv, NEW ins \in CredentialInss, CredentialProofLength(ins) PROVE KeyStep
<1>1. PICK n \in 0 .. ProofMax, embedded \in BOOLEAN :
          /\ InState(ins, "LENGTH_OF_PROOFS")
          /\ \/ Throw /\ UNCHANGED hash
             \/ /\ Feed(IF embedded THEN <<<<"proofLength", n>>>> ELSE << >>)
                /\ Ack(ins, ProofAnnounced(CredentialView(ins), n))
  BY Zenon DEF CredentialProofLength, ProofAnnounced
<1>2. latch = ins /\ ctx \in Credentials /\ CredentialView(ins) = ctx
  BY <1>1, InStateOpen, HoldsKnown
<1>3. AddsNoKey
  <2>1. <<"proofLength", n>> \in OtherItem
    BY OthersKnown DEF CountTags
  <2>2. (IF embedded THEN <<<<"proofLength", n>>>> ELSE << >>) \in Seq(OtherItem)
    BY <2>1
  <2> QED
    BY <1>1, <2>2, SameAddsNoKey, HoldsKnown, FeedAddsNoKey
<1>4. CASE Throw
  BY <1>3, <1>4, ThrowStep
<1>5. CASE ~Throw
  <2>1. latch' = ins /\ ctx' = ProofAnnounced(ctx, n) /\ screen' = screen
    BY <1>1, <1>2, <1>5 DEF Ack
  <2>2. ctx' \in Credentials /\ ctx'.state = "PROOFS" /\ Kept(ctx, ctx', {"state", "proofLeft"})
    BY <1>2, <2>1, ProofAnnouncedKnown
  <2>3. LaterPacket(ins, "LENGTH_OF_PROOFS", {"state", "proofLeft"})
    BY <1>1, <1>3, <2>1, <2>2 DEF LaterPacket
  <2> QED
    BY <2>3, LaterPacketKeeps
<1> QED
  BY <1>4, <1>5

LEMMA ProofsStep ==
    ASSUME KeyInv, NEW ins \in CredentialInss, CredentialProofs(ins) PROVE KeyStep
<1>1. /\ InState(ins, "PROOFS")
      /\ \/ Throw /\ UNCHANGED hash
         \/ /\ CredentialView(ins).proofLeft > CdataMax /\ Feed(<<<<"proof", CdataMax>>>>)
            /\ Ack(ins, ProofRead(CredentialView(ins)))
         \/ /\ Feed(<<<<"proof", CredentialView(ins).proofLeft>>>>)
            /\ \/ /\ ins = UPDATECRED
                  /\ Review(ins, CredentialView(ins),
                            uiSignUpdateCredentialAddedCredentialDisplay(CredentialView(ins)))
               \/ ins # UPDATECRED /\ Ack(ins, ProofsRead(CredentialView(ins)))
  BY Zenon DEF CredentialProofs, ProofRead, ProofsRead
<1>2. /\ latch = ins /\ ctx \in Credentials /\ CredentialView(ins) = ctx /\ ctx.state = "PROOFS"
      /\ approved' = approved
      /\ ins = UPDATECRED => ctx.update = "CREDENTIAL"
  BY <1>1, InStateOpen, HoldsKnown DEF txConst
<1>3. ctx.proofLeft \in Nat /\ CdataMax \in Nat
  BY <1>2, Limits, FieldsKnown DEF Credentials, Fields
<1>4. AddsNoKey
  <2>1. <<"proof", CdataMax>> \in OtherItem /\ <<"proof", ctx.proofLeft>> \in OtherItem
    BY <1>3, OthersKnown DEF CountTags
  <2> QED
    BY <1>1, <1>2, <2>1, SameAddsNoKey, HoldsKnown, FeedAddsNoKey, OneOther
<1>5. hash' \in Seq(IdentityItem) /\ Keys(hash') \subseteq Keys(hash)
  BY <1>4, AddsNoKeyKnown, HoldsKnown
<1>6. ins = CREDENTIAL \/ ins = UPDATECRED
  BY DEF CredentialInss
<1>7. ctx # Wiped /\ Open /\ (ins = CREDENTIAL => ctx.update = "INITIAL") /\ ctx.update # "CREDENTIAL_INDEX"
  BY <1>2, <1>6, ZeroKnown DEF Open, KeyInv, KeysAccepted
<1>8. CASE Throw
  BY <1>4, <1>8, ThrowStep
<1>9. CASE Ack(ins, ProofRead(ctx)) /\ ctx.proofLeft > CdataMax
  <2>1. latch' = latch /\ ctx' = ProofRead(ctx) /\ screen' = screen
    BY <1>2, <1>9 DEF Ack
  <2>2. ctx' \in Credentials /\ Kept(ctx, ctx', {"proofLeft"})
    BY <1>2, <1>9, <2>1, ProofReadKnown
  <2>3. /\ ctx'.update = ctx.update /\ ctx'.key = ctx.key /\ ctx'.keysLeft = ctx.keysLeft
        /\ ctx'.credentialsLeft = ctx.credentialsLeft /\ ctx'.state = ctx.state
    BY <2>2 DEF Kept, CredentialFields
  <2>4. KeysAccepted'
    BY <1>2, <1>5, <1>7, <2>1, <2>3 DEF KeyInv, KeysAccepted, Open
  <2> QED
    BY <1>2, <1>4, <1>5, <2>1, <2>2, <2>4, AddsNoKeyKnown, HoldsKnown DEF KeyStep, KeyInv, KeyTyped
<1>10. CASE ins = UPDATECRED /\ Review(ins, ctx, uiSignUpdateCredentialAddedCredentialDisplay(ctx))
  <2>1. /\ latch' = latch /\ ctx' = ctx /\ screen'.cb = "added" /\ <<"key", ctx.key>> \in screen'.items
    BY <1>2, <1>10 DEF Review, uiSignUpdateCredentialAddedCredentialDisplay, DetailRows, KeyRow
  <2>2. KeysAccepted'
    BY <1>2, <1>5, <1>7, <1>10, <2>1 DEF KeyInv, KeysAccepted, Open
  <2> QED
    BY <1>2, <1>4, <1>5, <2>1, <2>2, AddsNoKeyKnown, HoldsKnown DEF KeyStep, KeyInv, KeyTyped
<1>11. CASE ins # UPDATECRED /\ Ack(ins, ProofsRead(ctx))
  <2>1. latch' = latch /\ ctx' = ProofsRead(ctx) /\ screen' = screen
    BY <1>2, <1>11 DEF Ack
  <2>2. ctx' \in Credentials /\ Kept(ctx, ctx', {"state"}) /\ ctx'.state = "NEW_OR_EXISTING"
    BY <1>2, <2>1, ProofsReadKnown
  <2>3. /\ ctx'.update = ctx.update /\ ctx'.key = ctx.key /\ ctx'.keysLeft = ctx.keysLeft
        /\ ctx'.credentialsLeft = ctx.credentialsLeft
    BY <2>2 DEF Kept, CredentialFields
  <2>4. KeysAccepted'
    BY <1>2, <1>5, <1>6, <1>7, <1>11, <2>1, <2>2, <2>3 DEF KeyInv, KeysAccepted, Open
  <2> QED
    BY <1>2, <1>4, <1>5, <2>1, <2>2, <2>4, AddsNoKeyKnown, HoldsKnown DEF KeyStep, KeyInv, KeyTyped
<1> QED
  BY <1>1, <1>2, <1>8, <1>9, <1>10, <1>11

LEMMA NewOrExistingStep ==
    ASSUME KeyInv, CredentialNewOrExisting(CREDENTIAL) PROVE KeyStep
<1>1. PICK v \in Vals, tag \in {"expiry", "address"} :
          LET t == <<<<"newOrExisting", tag>>, <<tag, v>>>>
          IN  /\ InState(CREDENTIAL, "NEW_OR_EXISTING")
              /\ \/ ThrowAfterPrefix(SubSeq(t, 1, 1))
                 \/ /\ Feed(t)
                    /\ Review(CREDENTIAL, CredentialView(CREDENTIAL),
                              uiSignCredentialDeploymentExistingDisplay(CredentialView(CREDENTIAL),
                                                                        <<tag, v>>))
  BY Zenon DEF CredentialNewOrExisting
<1> DEFINE t == <<<<"newOrExisting", tag>>, <<tag, v>>>>
<1>2. t \in Seq(OtherItem) /\ SubSeq(t, 1, 1) \in Seq(OtherItem)
  <2> DEFINE x == <<"newOrExisting", tag>>
             y == <<tag, v>>
  <2>1. x \in OtherItem /\ y \in OtherItem
    BY OthersKnown DEF ValueTags
  <2> HIDE DEF x, y
  <2>2. <<x, y>> \in Seq(OtherItem) /\ 1 \in 0 .. Len(<<x, y>>)
    BY <2>1
  <2>3. SubSeq(<<x, y>>, 1, 1) \in Seq(OtherItem)
    BY <2>2, PrefixOfSeq
  <2> QED
    BY <2>2, <2>3 DEF x, y
<1> HIDE DEF t
<1>3. AddsNoKey
  BY <1>1, <1>2, PrefixAddsNoKey, FeedAddsNoKey DEF t
<1>4. CREDENTIAL \in CredentialInss
  BY DEF CredentialInss
<1>5. latch = CREDENTIAL /\ ctx \in Credentials /\ CredentialView(CREDENTIAL) = ctx /\ ctx.state = "NEW_OR_EXISTING"
  BY <1>1, <1>4, InStateOpen, HoldsKnown
<1>6. CASE Throw
  BY <1>3, <1>6, ThrowStep
<1>7. CASE ~Throw
  <2>1. latch' = CREDENTIAL /\ ctx' = ctx /\ screen'.cb = "sign" /\ Kept(ctx, ctx', {})
    BY <1>1, <1>5, <1>7
    DEF Review, ThrowAfterPrefix, uiSignCredentialDeploymentExistingDisplay, Kept
  <2>2. LaterPacket(CREDENTIAL, "NEW_OR_EXISTING", {})
    BY <1>1, <1>3, <1>5, <2>1 DEF LaterPacket
  <2> QED
    BY <1>4, <2>2, LaterPacketKeeps
<1> QED
  BY <1>6, <1>7

LEMMA BeginThrowsNoKey ==
    ASSUME hash \in Seq(IdentityItem), NEW p, NEW t \in Seq(OtherItem), BeginThrows(p, t)
    PROVE  AddsNoKey /\ Throw
<1>1. hash' = hash \/ \E k \in 0 .. Len(t) : hash' = SubSeq(t, 1, k)
  BY DEF BeginThrows
<1>2. AddsNoKey
  BY <1>1, SameAddsNoKey, OtherSeq DEF AddsNoKey
<1> QED
  BY <1>2 DEF BeginThrows

LEMMA CredentialInitialStep ==
    ASSUME KeyInv, CredentialInitial PROVE KeyStep
<1>1. PICK p \in Paths :
          /\ InState(CREDENTIAL, "INITIAL")
          /\ \/ /\ BeginTranscript(p, << >>) /\ Ack(CREDENTIAL, Begun(CredentialView(CREDENTIAL)))
             \/ BeginThrows(p, << >>)
  BY Zenon DEF CredentialInitial, Begun
<1>2. CASE BeginThrows(p, << >>)
  <2>1. << >> \in Seq(OtherItem)
    OBVIOUS
  <2> QED
    BY <1>2, <2>1, BeginThrowsNoKey, HoldsKnown, ThrowStep
<1>3. CASE BeginTranscript(p, << >>) /\ Ack(CREDENTIAL, Begun(CredentialView(CREDENTIAL)))
  <2> DEFINE c == CredentialView(CREDENTIAL)
  <2>1. hash' = << >> /\ latch' = CREDENTIAL /\ ctx' = Begun(c) /\ screen' = screen
    BY <1>3 DEF BeginTranscript, Ack
  <2>2. c \in Credentials /\ (c # ctx => c.update = "INITIAL" /\ c.credentialsLeft = 0)
    <3>1. c \in Credentials
      BY ViewKnown, HoldsKnown
    <3>2. /\ CredentialZero.update = "INITIAL" /\ CredentialZero.credentialsLeft = 0
          /\ [CredentialZero EXCEPT !.state = "INITIAL"].update = "INITIAL"
          /\ [CredentialZero EXCEPT !.state = "INITIAL"].credentialsLeft = 0
      BY DEF CredentialZero
    <3> QED
      BY <3>1, <3>2 DEF CredentialView
  <2>3. c.update = "INITIAL" /\ c.credentialsLeft = 0
    <3>1. latch \in {NONE, CREDENTIAL}
      BY <1>1 DEF InState, Enters
    <3>2. CASE latch = NONE \/ ctx = Wiped
      <4>1. c = CredentialZero \/ c = [CredentialZero EXCEPT !.state = "INITIAL"]
        BY <3>2 DEF CredentialView, IsInitialCall
      <4> QED
        BY <4>1 DEF CredentialZero
    <3>3. CASE latch = CREDENTIAL /\ ctx # Wiped
      <4>1. Open /\ c = ctx
        BY <3>3 DEF Open, CredentialInss, CredentialView, IsInitialCall, CREDENTIAL, NONE
      <4> QED
        BY <3>3, <4>1 DEF KeyInv, KeysAccepted
    <3> QED
      BY <3>1, <3>2, <3>3
  <2> HIDE DEF c
  <2>4. /\ ctx' \in Credentials /\ ctx'.update = "INITIAL" /\ ctx'.credentialsLeft = 0
    BY <2>1, <2>2, <2>3, BegunKnown DEF Kept, CredentialFields
  <2>5. Keys(hash') = {} /\ hash' \in Seq(IdentityItem)
    BY <2>1 DEF Keys, ItemsOf
  <2>6. KeysAccepted'
    BY <2>1, <2>4, <2>5 DEF KeysAccepted
  <2>7. AddsNoKey /\ CREDENTIAL \in CredentialInss
    BY <2>1, EmptyAddsNoKey DEF CredentialInss
  <2> QED
    BY <2>1, <2>4, <2>5, <2>6, <2>7, AddsNoKeyKnown, HoldsKnown DEF KeyStep, KeyInv, KeyTyped
<1> QED
  BY <1>1, <1>2, <1>3

LEMMA UpdateItems ==
    ASSUME NEW h \in Headers, NEW n \in 0 .. ListMax
    PROVE  LET t == <<<<"kind", UPDATECRED>>, <<"credentialCount", n>>>>
           IN  /\ t \in Seq(OtherItem) /\ SubSeq(t, 1, 1) \in Seq(OtherItem)
               /\ <<<<"header", h>>>> \o t \in Seq(OtherItem)
<1> DEFINE x == <<"kind", UPDATECRED>>
           y == <<"credentialCount", n>>
           z == <<"header", h>>
<1>1. x \in OtherItem /\ y \in OtherItem /\ z \in OtherItem
  BY OthersKnown DEF CountTags
<1> HIDE DEF x, y, z
<1>2. <<x, y>> \in Seq(OtherItem) /\ 1 \in 0 .. Len(<<x, y>>) /\ <<z>> \in Seq(OtherItem)
  BY <1>1
<1>3. SubSeq(<<x, y>>, 1, 1) \in Seq(OtherItem)
  BY <1>2, PrefixOfSeq
<1>4. <<z>> \o <<x, y>> \in Seq(OtherItem)
  BY <1>2
<1> QED
  BY <1>2, <1>3, <1>4 DEF x, y, z

LEMMA HeaderThrowsNoKey ==
    ASSUME hash \in Seq(IdentityItem), NEW h \in Headers, NEW p, NEW t \in Seq(OtherItem),
           HeaderThrows(h, p, t)
    PROVE  AddsNoKey /\ Throw
<1> DEFINE x == <<"header", h>>
           full == <<x>> \o t
<1>1. x \in OtherItem
  BY OthersKnown
<1> HIDE DEF x
<1>2. full \in Seq(OtherItem) /\ Len(full) = Len(t) + 1
  BY <1>1
<1>3. hash' = hash \/ hash' = << >> \/ \E k \in 0 .. Len(t) + 1 : hash' = SubSeq(full, 1, k)
  BY DEF HeaderThrows, x
<1> HIDE DEF full
<1>4. AddsNoKey
  BY <1>2, <1>3, SameAddsNoKey, EmptyAddsNoKey, OtherSeq DEF AddsNoKey
<1> QED
  BY <1>4 DEF HeaderThrows

LEMMA UpdateInitialStep ==
    ASSUME KeyInv, UpdateInitial PROVE KeyStep
<1>1. PICK h \in Headers, p \in Paths, n \in 0 .. ListMax :
          LET t == <<<<"kind", UPDATECRED>>, <<"credentialCount", n>>>>
          IN  \/ /\ hashAccountTransactionHeaderAndKind(h, p, t)
                 /\ Review(UPDATECRED, UpdateBegun(CredentialView(UPDATECRED), n),
                           uiSignUpdateCredentialInitialDisplay(AccountSender(h, p)))
              \/ HeaderThrows(h, p, SubSeq(t, 1, 1))
  BY Zenon DEF UpdateInitial, UpdateBegun
<1> DEFINE t == <<<<"kind", UPDATECRED>>, <<"credentialCount", n>>>>
<1>2. /\ t \in Seq(OtherItem) /\ SubSeq(t, 1, 1) \in Seq(OtherItem)
      /\ <<<<"header", h>>>> \o t \in Seq(OtherItem)
  BY UpdateItems
<1> HIDE DEF t
<1>3. CASE HeaderThrows(h, p, SubSeq(t, 1, 1))
  BY <1>2, <1>3, HeaderThrowsNoKey, HoldsKnown, ThrowStep
<1>4. CASE /\ hashAccountTransactionHeaderAndKind(h, p, t)
           /\ Review(UPDATECRED, UpdateBegun(CredentialView(UPDATECRED), n),
                     uiSignUpdateCredentialInitialDisplay(AccountSender(h, p)))
  <2>1. hash' = <<<<"header", h>>>> \o t
    BY <1>4 DEF hashAccountTransactionHeaderAndKind
  <2>2. AddsNoKey /\ Keys(hash') = {} /\ hash' \in Seq(IdentityItem)
    BY <1>2, <2>1, OtherSeq DEF AddsNoKey
  <2>3. latch' = UPDATECRED /\ ctx' = UpdateBegun(CredentialView(UPDATECRED), n) /\ screen'.cb = "proceed"
    BY <1>4 DEF Review, uiSignUpdateCredentialInitialDisplay
  <2>4. CredentialView(UPDATECRED) \in Credentials
    BY ViewKnown, HoldsKnown
  <2>5. ctx' \in Credentials /\ ctx'.update # "INITIAL"
    BY <2>3, <2>4, UpdateBegunKnown
  <2>6. KeysAccepted'
    BY <2>2, <2>3, <2>5 DEF KeysAccepted, UPDATECRED, CREDENTIAL
  <2>7. UPDATECRED \in CredentialInss
    BY DEF CredentialInss
  <2> QED
    BY <2>2, <2>3, <2>5, <2>6, <2>7, AddsNoKeyKnown, HoldsKnown DEF KeyStep, KeyInv, KeyTyped
<1> QED
  BY <1>1, <1>3, <1>4 DEF t

LEMMA UpdatePacketStep ==
    ASSUME KeyInv, latch = UPDATECRED, latch' = latch, ctx \in Credentials, AddsNoKey,
           ctx' \in Credentials, approved' = approved,
           NEW X, Kept(ctx, ctx', X), X \subseteq {"update", "idsLeft"},
           ctx.update \notin {"INITIAL", "CREDENTIAL"},
           ctx'.update \notin {"INITIAL", "CREDENTIAL_INDEX"},
           screen' = screen \/ screen'.cb \notin {"nextKey", "added"}
    PROVE  KeyStep
<1>1. hash \in Seq(IdentityItem) /\ latch \in CredentialInss /\ ctx' # Wiped /\ ctx # Wiped
  BY ZeroKnown DEF KeyInv, KeyTyped, CredentialInss
<1>2. hash' \in Seq(IdentityItem) /\ Keys(hash') \subseteq Keys(hash)
  BY <1>1, AddsNoKeyKnown
<1>3. /\ ctx'.state = ctx.state /\ ctx'.key = ctx.key /\ ctx'.keysLeft = ctx.keysLeft
  BY DEF Kept, CredentialFields
<1>4. KeysAccepted'
  BY <1>1, <1>2, <1>3 DEF KeyInv, KeysAccepted, Open, UPDATECRED, CREDENTIAL
<1> QED
  BY <1>1, <1>2, <1>4, AddsNoKeyKnown DEF KeyStep, KeyInv, KeyTyped

LEMMA IndexStep ==
    ASSUME KeyInv, UpdateIndex PROVE KeyStep
<1>1. PICK v \in Vals :
          /\ InUpdate("CREDENTIAL_INDEX") /\ CredentialView(UPDATECRED).credentialsLeft > 0
          /\ UNCHANGED txConst /\ Feed(<<<<"credentialIndex", v>>>>)
          /\ Ack(UPDATECRED, IndexRead(CredentialView(UPDATECRED)))
  BY Zenon DEF UpdateIndex, IndexRead
<1>2. /\ latch = UPDATECRED /\ ctx \in Credentials /\ CredentialView(UPDATECRED) = ctx
      /\ ctx.update = "CREDENTIAL_INDEX"
  BY <1>1, InUpdateOpen, HoldsKnown
<1>3. AddsNoKey
  BY <1>1, FeedAddsNoKey, OneOther, OthersKnown DEF ValueTags
<1>4. latch' = latch /\ ctx' = IndexRead(ctx) /\ screen' = screen /\ approved' = approved
  BY <1>1, <1>2 DEF Ack, txConst
<1>5. /\ ctx' \in Credentials /\ ctx'.update = "CREDENTIAL" /\ ctx'.key = ctx.key
      /\ ctx'.keysLeft = ctx.keysLeft
  BY <1>1, <1>2, <1>4, IndexReadKnown DEF Kept, CredentialFields
<1>6. Open /\ ctx # Wiped /\ Keys(hash) \subseteq approved /\ screen.cb # "added"
  BY <1>2, ZeroKnown DEF Open, CredentialInss, KeyInv, KeysAccepted
<1>7. hash' \in Seq(IdentityItem) /\ Keys(hash') \subseteq Keys(hash)
  BY <1>3, AddsNoKeyKnown, HoldsKnown
<1>8. KeysAccepted'
  BY <1>2, <1>4, <1>5, <1>6, <1>7 DEF KeysAccepted, UPDATECRED, CREDENTIAL
<1>9. UPDATECRED \in CredentialInss
  BY DEF CredentialInss
<1> QED
  BY <1>2, <1>3, <1>4, <1>5, <1>7, <1>8, <1>9, AddsNoKeyKnown, HoldsKnown DEF KeyStep, KeyInv, KeyTyped

LEMMA IdCountStep ==
    ASSUME KeyInv, UpdateIdCount PROVE KeyStep
<1>1. PICK n \in 0 .. ListMax :
          /\ InUpdate("ID_COUNT") /\ UNCHANGED txConst /\ Feed(<<<<"idCount", n>>>>)
          /\ Ack(UPDATECRED, IdsAnnounced(CredentialView(UPDATECRED), n))
  BY Zenon DEF UpdateIdCount, IdsAnnounced
<1>2. /\ latch = UPDATECRED /\ ctx \in Credentials /\ CredentialView(UPDATECRED) = ctx
      /\ ctx.update = "ID_COUNT"
  BY <1>1, InUpdateOpen, HoldsKnown
<1>3. AddsNoKey
  <2>1. <<"idCount", n>> \in OtherItem
    BY OthersKnown DEF CountTags
  <2> QED
    BY <1>1, <2>1, FeedAddsNoKey, OneOther
<1>4. latch' = latch /\ ctx' = IdsAnnounced(ctx, n) /\ screen' = screen /\ approved' = approved
  BY <1>1, <1>2 DEF Ack, txConst
<1>5. /\ ctx' \in Credentials /\ ctx'.update \in {"THRESHOLD", "ID"}
      /\ Kept(ctx, ctx', {"update", "idsLeft"})
  BY <1>2, <1>4, IdsAnnouncedKnown
<1> QED
  BY <1>2, <1>3, <1>4, <1>5, UpdatePacketStep

LEMMA IdStep ==
    ASSUME KeyInv, UpdateId PROVE KeyStep
<1>1. PICK v \in Vals :
          /\ InUpdate("ID") /\ UNCHANGED txConst
          /\ \/ Throw /\ UNCHANGED hash
             \/ /\ Feed(<<<<"credId", v>>>>)
                /\ Review(UPDATECRED, IdRead(CredentialView(UPDATECRED)),
                          uiSignUpdateCredentialIdDisplay(v))
  BY Zenon DEF UpdateId, IdRead
<1>2. /\ latch = UPDATECRED /\ ctx \in Credentials /\ CredentialView(UPDATECRED) = ctx
      /\ ctx.update = "ID"
  BY <1>1, InUpdateOpen, HoldsKnown
<1>3. AddsNoKey
  BY <1>1, SameAddsNoKey, HoldsKnown, FeedAddsNoKey, OneOther, OthersKnown DEF ValueTags
<1>4. CASE Throw
  BY <1>3, <1>4, ThrowStep
<1>5. CASE ~Throw
  <2>1. latch' = latch /\ ctx' = IdRead(ctx) /\ screen'.cb = "proceed" /\ approved' = approved
    BY <1>1, <1>2, <1>5 DEF Review, txConst, uiSignUpdateCredentialIdDisplay
  <2>2. /\ ctx' \in Credentials /\ ctx'.update \in {"THRESHOLD", "ID"}
        /\ Kept(ctx, ctx', {"update", "idsLeft"})
    BY <1>2, <2>1, IdReadKnown
  <2> QED
    BY <1>2, <1>3, <2>1, <2>2, UpdatePacketStep
<1> QED
  BY <1>4, <1>5

LEMMA ThresholdStep ==
    ASSUME KeyInv, UpdateThreshold PROVE KeyStep
<1>1. PICK v \in Vals :
          /\ InUpdate("THRESHOLD") /\ UNCHANGED txConst /\ Feed(<<<<"threshold", v>>>>)
          /\ Review(UPDATECRED, CredentialView(UPDATECRED), uiSignUpdateCredentialThresholdDisplay(v))
  BY Zenon DEF UpdateThreshold
<1>2. /\ latch = UPDATECRED /\ ctx \in Credentials /\ CredentialView(UPDATECRED) = ctx
      /\ ctx.update = "THRESHOLD"
  BY <1>1, InUpdateOpen, HoldsKnown
<1>3. AddsNoKey
  BY <1>1, FeedAddsNoKey, OneOther, OthersKnown DEF ValueTags
<1>4. /\ latch' = latch /\ ctx' = ctx /\ screen'.cb = "sign" /\ approved' = approved
      /\ Kept(ctx, ctx', {})
  BY <1>1, <1>2 DEF Review, txConst, uiSignUpdateCredentialThresholdDisplay, Kept
<1> QED
  BY <1>2, <1>3, <1>4, UpdatePacketStep

LEMMA WrongStateStep ==
    ASSUME KeyInv, CredentialWrongState PROVE KeyStep
  BY ThrowStep, SameAddsNoKey, HoldsKnown DEF CredentialWrongState, noFlow

LEMMA CredentialPacketStep ==
    ASSUME KeyInv, CredentialPacket PROVE KeyStep
<1>1. ASSUME NEW ins \in CredentialInss,
             \/ CredentialKeysLength(ins) \/ CredentialKey(ins) \/ CredentialDetails(ins)
             \/ CredentialRevoker(ins) \/ CredentialDates(ins)
             \/ CredentialTag(ins) \/ CredentialValue(ins)
             \/ CredentialProofLength(ins) \/ CredentialProofs(ins)
      PROVE  KeyStep
  BY <1>1, KeysLengthStep, CredentialKeyStep, DetailsStep, RevokerStep, DatesStep, TagStep,
     ValueStep, ProofLengthStep, ProofsStep
<1> QED
  BY <1>1, CredentialInitialStep, NewOrExistingStep, UpdateInitialStep, IndexStep, IdCountStep,
     IdStep, ThresholdStep, WrongStateStep
  DEF CredentialPacket

\* A callback that leaves latch and union alone, after its screen was accepted
\* in part or as a whole.
LEMMA AcceptedStep ==
    ASSUME KeyInv, hash' = hash, latch' = latch, ctx' = ctx, screen' = Stale,
           approved \subseteq approved'
    PROVE  KeyStep
<1>1. KeysAccepted'
  BY DEF KeyInv, KeysAccepted, Open, Stale
<1> QED
  BY <1>1, AddsNoKeyKnown, SameAddsNoKey, HoldsKnown DEF KeyStep, KeyInv, KeyTyped

\* A callback that moves a flow to d and leaves everything else alone.
LEMMA MovedStep ==
    ASSUME KeyInv, Open => KeysAccepted', NEW d \in Credentials, MovesOn(d), CallbackFrame,
           ctx = Wiped => /\ d.state \notin {"VERIFICATION_KEYS_LENGTH", "VERIFICATION_KEY"}
                          /\ d.update = "INITIAL" /\ d.credentialsLeft = 0
    PROVE  KeyStep
<1>1. hash' = hash /\ latch' = latch /\ ctx' = d /\ screen' = Stale
  BY DEF MovesOn, CallbackFrame
<1>2. KeysAccepted'
  <2>1. CASE Open
    BY <2>1
  <2>2. CASE latch \notin CredentialInss
    BY <1>1, <2>2 DEF KeysAccepted, Open
  <2>3. CASE ctx = Wiped
    BY <1>1, <2>3 DEF KeysAccepted, Stale
  <2> QED
    BY <2>1, <2>2, <2>3 DEF Open
<1> QED
  BY <1>1, <1>2, AddsNoKeyKnown, SameAddsNoKey, HoldsKnown DEF KeyStep, KeyInv, KeyTyped

LEMMA OnScreenKnown ==
    ASSUME KeyInv
    PROVE  /\ OnScreen \in Credentials
           /\ ctx # Wiped => OnScreen = ctx
           /\ ctx = Wiped => /\ OnScreen.keysLeft = 0 /\ OnScreen.attributesLeft = 0
                             /\ OnScreen.credentialsLeft = 0 /\ OnScreen.update = "INITIAL"
<1>1. /\ CredentialZero.keysLeft = 0 /\ CredentialZero.attributesLeft = 0
      /\ CredentialZero.credentialsLeft = 0 /\ CredentialZero.update = "INITIAL"
  BY DEF CredentialZero
<1> QED
  BY <1>1, ZeroKnown DEF OnScreen, KeyInv, KeyTyped

LEMMA NextKeyStep ==
    ASSUME KeyInv, processNextVerificationKey PROVE KeyStep
<1> DEFINE d == KeyAccepted(OnScreen)
<1>1. screen.cb = "nextKey" /\ CallbackFrame /\ MovesOn(d)
  BY Zenon DEF processNextVerificationKey, KeyAccepted
<1>2. /\ d \in Credentials /\ Kept(OnScreen, d, {"state"})
      /\ d.state = IF OnScreen.keysLeft = 0 THEN "SIGNATURE_THRESHOLD" ELSE "VERIFICATION_KEY"
  BY OnScreenKnown, KeyAcceptedKnown
<1> HIDE DEF d
<1>3. d.update = OnScreen.update /\ d.credentialsLeft = OnScreen.credentialsLeft /\ d.key = OnScreen.key
  BY <1>2 DEF Kept, CredentialFields
<1>4. ctx = Wiped => /\ d.state \notin {"VERIFICATION_KEYS_LENGTH", "VERIFICATION_KEY"}
                     /\ d.update = "INITIAL" /\ d.credentialsLeft = 0
  BY <1>2, <1>3, OnScreenKnown
<1>5. ASSUME Open PROVE KeysAccepted'
  <2>1. OnScreen = ctx
    BY <1>5, OnScreenKnown DEF Open
  <2>2. /\ hash' = hash /\ latch' = latch /\ ctx' = d /\ screen'.cb = "stale"
        /\ approved' = approved \cup screen.items
    BY <1>1 DEF MovesOn, CallbackFrame, Stale
  <2> QED
    BY <1>1, <1>2, <1>3, <1>5, <2>1, <2>2 DEF KeyInv, KeysAccepted
<1> QED
  BY <1>1, <1>2, <1>4, <1>5, MovedStep

LEMMA AttributeStep ==
    ASSUME KeyInv, confirmAttribute PROVE KeyStep
<1> DEFINE d == AttributeAccepted(OnScreen)
<1>1. /\ CallbackFrame
      /\ \/ CallbackThrow
         \/ OnScreen.attributesLeft # 0 /\ MovesOn(d)
  BY Zenon DEF confirmAttribute, AttributeAccepted
<1>2. CASE CallbackThrow
  BY <1>1, <1>2, ThrowStep, SameAddsNoKey, HoldsKnown DEF CallbackFrame
<1>3. CASE OnScreen.attributesLeft # 0 /\ MovesOn(d)
  <2>1. /\ d \in Credentials /\ Kept(OnScreen, d, {"state", "attributesLeft"})
        /\ d.state \in {"LENGTH_OF_PROOFS", "ATTRIBUTE_TAG"}
    BY <1>3, OnScreenKnown, AttributeAcceptedKnown
  <2>2. ctx # Wiped
    BY <1>3, OnScreenKnown
  <2> HIDE DEF d
  <2>3. d.update = OnScreen.update /\ d.credentialsLeft = OnScreen.credentialsLeft /\ d.key = OnScreen.key
    BY <2>1 DEF Kept, CredentialFields
  <2>4. ASSUME Open PROVE KeysAccepted'
    <3>1. OnScreen = ctx
      BY <2>2, OnScreenKnown
    <3>2. /\ hash' = hash /\ latch' = latch /\ ctx' = d /\ screen'.cb = "stale"
          /\ approved \subseteq approved'
      BY <1>1, <1>3 DEF MovesOn, CallbackFrame, Stale
    <3> QED
      BY <2>1, <2>3, <2>4, <3>1, <3>2 DEF KeyInv, KeysAccepted
  <2> QED
    BY <1>1, <1>3, <2>1, <2>2, <2>4, MovedStep
<1> QED
  BY <1>1, <1>2, <1>3

LEMMA AddedStep ==
    ASSUME KeyInv, confirmAddedCredential PROVE KeyStep
<1> DEFINE d == AddedAccepted(OnScreen)
<1>1. /\ screen.cb = "added" /\ CallbackFrame
      /\ \/ CallbackThrow
         \/ OnScreen.credentialsLeft # 0 /\ MovesOn(d)
  BY Zenon DEF confirmAddedCredential, AddedAccepted
<1>2. CASE CallbackThrow
  BY <1>1, <1>2, ThrowStep, SameAddsNoKey, HoldsKnown DEF CallbackFrame
<1>3. CASE OnScreen.credentialsLeft # 0 /\ MovesOn(d)
  <2>1. /\ d \in Credentials /\ Kept(OnScreen, d, {"state", "credentialsLeft", "update"})
        /\ d.update \in {"ID_COUNT", "CREDENTIAL_INDEX"}
    BY <1>3, OnScreenKnown, AddedAcceptedKnown DEF AfterAdded
  <2>2. ctx # Wiped
    BY <1>3, OnScreenKnown
  <2> HIDE DEF d
  <2>3. d.key = OnScreen.key
    BY <2>1 DEF Kept, CredentialFields
  <2>4. ASSUME Open PROVE KeysAccepted'
    <3>1. OnScreen = ctx
      BY <2>2, OnScreenKnown
    <3>2. /\ hash' = hash /\ latch' = latch /\ ctx' = d /\ screen'.cb = "stale"
          /\ approved' = approved \cup screen.items
      BY <1>1, <1>3 DEF MovesOn, CallbackFrame, Stale
    <3>3. ctx.update # "INITIAL"
      BY <1>3, <2>4, <3>1 DEF KeyInv, KeysAccepted
    <3>4. latch # CREDENTIAL /\ Keys(hash) \subseteq approved'
      BY <1>1, <2>4, <3>2, <3>3 DEF KeyInv, KeysAccepted
    <3> QED
      BY <2>1, <2>3, <3>2, <3>4 DEF KeysAccepted
  <2> QED
    BY <1>1, <1>3, <2>1, <2>2, <2>4, MovedStep
<1> QED
  BY <1>1, <1>2, <1>3

LEMMA CredentialButtonStep ==
    ASSUME KeyInv, CredentialButton PROVE KeyStep
<1>1. CASE sendSuccessNoIdleCallback \/ AcknowledgingStep
  BY <1>1, AcceptedStep DEF sendSuccessNoIdleCallback, AcknowledgingStep
<1>2. ASSUME hash' = hash, latch' = NONE, ctx' \in {ctx, Wiped} PROVE KeyStep
  BY <1>2, ClosedStep, SameAddsNoKey, HoldsKnown
  DEF KeyInv, KeyTyped, CredentialInss, NONE, CREDENTIAL, UPDATECRED
<1>3. CASE buildAndSignTransactionHash
  BY <1>2, <1>3 DEF buildAndSignTransactionHash, send_success, ui_menu_main
<1>4. CASE SigningFails
  BY <1>2, <1>4 DEF SigningFails, CallbackThrow, ui_menu_main
<1>5. CASE DeclineCredential
  BY <1>2, <1>5 DEF DeclineCredential, UserDeclines, send_user_rejection, ui_menu_main, noFlow
<1> QED
  BY <1>1, <1>3, <1>4, <1>5, NextKeyStep, AttributeStep, AddedStep DEF CredentialButton

LEMMA CredentialShellStep ==
    ASSUME KeyInv, Shell(CredentialInss) PROVE KeyStep
<1>0. hash' = hash /\ approved' = approved
  BY DEF Shell, BadCommand, SwitchGuard, RefusedByDispatcher, AppInfo, UnknownInstruction,
         AboutBack, noFlow
<1>1. Union \in Credentials \cup {Wiped} /\ (latch = NONE => Union = Wiped) /\ (latch # NONE => Union = ctx)
  BY DEF Union, IsInitialCall, KeyInv, KeyTyped
<1>2. CASE latch' = latch /\ ctx' = ctx /\ screen' = screen
  <2>1. KeysAccepted'
    BY <1>0, <1>2 DEF KeyInv, KeysAccepted, Open
  <2> QED
    BY <1>0, <1>2, <2>1, AddsNoKeyKnown, SameAddsNoKey, HoldsKnown DEF KeyStep, KeyInv, KeyTyped
<1>3. CASE /\ latch' \in CredentialInss \cup {NONE, "GET_APP_NAME"} /\ ctx' \in {ctx, Union}
           /\ latch' \notin CredentialInss \/ ctx' = Wiped
  BY <1>0, <1>1, <1>3, ClosedStep, SameAddsNoKey, HoldsKnown DEF KeyInv, KeyTyped
<1>4. NONE \notin CredentialInss
  BY DEF CredentialInss, NONE, CREDENTIAL, UPDATECRED
<1>5. ASSUME NEW ins \in CredentialInss \cup {"GET_APP_NAME"}, RefusedByDispatcher(ins) PROVE KeyStep
  <2>1. latch \in {NONE, ins} /\ latch' = ins /\ ctx' = Union /\ screen' = screen
    BY <1>5 DEF RefusedByDispatcher, Enters
  <2>2. CASE latch = NONE
    BY <1>1, <1>3, <2>1, <2>2
  <2>3. CASE latch # NONE
    BY <1>1, <1>2, <2>1, <2>3
  <2> QED
    BY <2>2, <2>3
<1>6. ASSUME NEW ins, SwitchGuard(ins) PROVE KeyStep
  BY <1>3, <1>4, <1>6 DEF SwitchGuard
<1>7. CASE BadCommand
  BY <1>2, <1>7 DEF BadCommand
<1>8. CASE AppInfo("GET_APP_NAME") \/ UnknownInstruction
  BY <1>3, <1>4, <1>8 DEF AppInfo, UnknownInstruction, send_rejection
<1>9. CASE AboutBack
  BY <1>3, <1>4, <1>9 DEF AboutBack, ui_menu_main
<1> QED
  BY <1>5, <1>6, <1>7, <1>8, <1>9 DEF Shell

LEMMA CredentialNextStep ==
    ASSUME KeyInv, [CredentialNext]_deviceVars PROVE KeyStep
<1>1. CASE UNCHANGED deviceVars
  <2>1. KeysAccepted'
    BY <1>1 DEF deviceVars, KeyInv, KeysAccepted, Open
  <2> QED
    BY <1>1, <2>1, AddsNoKeyKnown, SameAddsNoKey, HoldsKnown DEF deviceVars, KeyStep, KeyInv, KeyTyped
<1>2. CASE Restart
  BY <1>2, ClosedStep, EmptyAddsNoKey DEF Restart
<1> QED
  BY <1>1, <1>2, CredentialPacketStep, CredentialButtonStep, CredentialShellStep DEF CredentialNext

\* While commands may arrive at any time, on either kind of screen: a further key
\* of a credential is hashed only after those before it were accepted
\* (AWAITING_VERIFICATION_KEY_CONFIRM, processNextVerificationKey).
THEOREM FurtherKeysWaitForReview == CredentialSpec => KeysWaitForReview
<1>1. DeviceInit => KeyInv
  <2> SUFFICES ASSUME DeviceInit PROVE KeyInv
    OBVIOUS
  <2>1. hash \in Seq(IdentityItem)
    BY DEF DeviceInit
  <2> QED
    BY <2>1 DEF DeviceInit, KeyInv, KeyTyped, KeysAccepted, Open
<1>2. KeyInv /\ [CredentialNext]_deviceVars => KeyInv'
  BY CredentialNextStep DEF KeyStep
<1>3. KeyInv /\ [CredentialNext]_deviceVars =>
          [Len(hash') > Len(hash) /\ hash'[Len(hash')][1] = "key"
              => \A item \in ItemsOf(hash) : item[1] = "key" => item \in approved]_deviceVars
  BY CredentialNextStep DEF KeyStep, Keys
<1> QED
  BY <1>1, <1>2, <1>3, PTL DEF CredentialSpec, KeysWaitForReview

-----------------------------------------------------------------------------
(* What a transcript is half way, under the gate and on NBGL.  A credential *)
(* begins at i: a is where its thresholds stand, b its dates, e its proofs. *)

KeysComing(s, i, left) ==
    /\ i <= Len(s) /\ s[i] = <<"keysLength", Len(s) - i + left>>
    /\ Are(s, i + 1, Len(s), "key")

KeysRead(s, i, a) ==
    /\ i + 1 < a /\ a - 1 <= Len(s)
    /\ s[i] = <<"keysLength", a - i - 1>> /\ Are(s, i + 1, a - 1, "key")

DetailsAt(s, a) ==
    /\ a + 3 <= Len(s)
    /\ s[a][1] = "signatureThreshold" /\ s[a + 1][1] = "regIdCred"
    /\ s[a + 2][1] = "identityProvider" /\ s[a + 3][1] = "arThreshold"

ArsComing(s, i, ars, left) ==
    LET a == Len(s) - Len(ars) - 3
    IN  /\ a \in Nat /\ KeysRead(s, i, a) /\ DetailsAt(s, a)
        /\ s[a + 3][3] = Len(ars) + left /\ Are(s, a + 4, Len(s), "ar")
        /\ \A m \in 1 .. Len(ars) : ars[m] = s[a + 3 + m][2]

HeadRead(s, i, b) ==
    \E a \in 1 .. b :
        /\ KeysRead(s, i, a) /\ DetailsAt(s, a)
        /\ a + 4 < b /\ b - 1 <= Len(s)
        /\ s[a + 3][3] = b - a - 4 /\ Are(s, a + 4, b - 1, "ar")

Attributes(s, b, e) ==
    /\ b < e /\ e - 1 <= Len(s) /\ s[b][1] = "dates"
    /\ \A k \in b + 1 .. e - 1 : s[k][1] = IF (k - b) % 2 = 1 THEN "tag" ELSE "value"

\* All but left attributes have come, and fields of the next.
AttributesComing(s, i, left, fields) ==
    \E b \in 1 .. Len(s) :
        /\ HeadRead(s, i, b) /\ Attributes(s, b, Len(s) + 1)
        /\ left <= s[b][3] /\ Len(s) = b + 2 * (s[b][3] - left) + fields

ProofsComing(s, i, left, embedded) ==
    \E b \in 1 .. Len(s), e \in 1 .. Len(s) + 1 :
        /\ HeadRead(s, i, b) /\ Attributes(s, b, e) /\ e = b + 2 * s[b][3] + 1
        /\ \/ /\ e <= Len(s) /\ s[e][1] = "proofLength" /\ Are(s, e + 1, Len(s), "proof")
              /\ s[e][2] = CdataMax * (Len(s) - e) + left
           \/ ~embedded /\ Are(s, e, Len(s), "proof")

\* The credential that begins at i is in stage st.
CredentialSoFar(s, i, c, st, embedded) ==
    /\ st = "VERIFICATION_KEYS_LENGTH" => Len(s) = i - 1
    /\ st \in {"VERIFICATION_KEY", AfterKey} => KeysComing(s, i, c.keysLeft)
    /\ st = AfterKey => c.keysLeft > 0
    /\ st = "SIGNATURE_THRESHOLD" => KeysRead(s, i, Len(s) + 1)
    /\ st = "AR_IDENTITY" => ArsComing(s, i, c.ars, c.arsLeft)
    /\ st = "CREDENTIAL_DATES" => HeadRead(s, i, Len(s) + 1)
    /\ st = "ATTRIBUTE_TAG" => AttributesComing(s, i, c.attributesLeft, 0)
    /\ st = "ATTRIBUTE_VALUE" => AttributesComing(s, i, c.attributesLeft, 1) /\ s[Len(s)] = <<"tag", c.tag>>
    /\ st = "shown" => AttributesComing(s, i, c.attributesLeft, 2)
    /\ st = "LENGTH_OF_PROOFS" => AttributesComing(s, i, 0, 0)
    /\ st = "PROOFS" => ProofsComing(s, i, c.proofLeft, embedded)
    /\ st = "NEW_OR_EXISTING" => IsCredential(s, i, Len(s), embedded)
    /\ st \notin {"zero", "INITIAL", "between"}

\* The stage, where the context does not tell: an attribute or an added
\* credential that is on screen has been read already.
Stage ==
    IF latch = UPDATECRED /\ ctx.update # "CREDENTIAL" THEN "between"
    ELSE IF screen.cb = "attribute" THEN "shown"
    ELSE IF screen.cb = "added" THEN "NEW_OR_EXISTING"
    ELSE ctx.state

Starts(s) == {i \in DOMAIN s : s[i][1] = "credentialIndex"}

\* The credentials that an update adds before z are whole.
Added(s, z) ==
    /\ 4 \in Starts(s) \cup {z}
    /\ \A i \in Starts(s) : i < z =>
          \E e \in i + 1 .. z - 1 : e + 1 \in Starts(s) \cup {z} /\ IsCredential(s, i + 1, e, TRUE)

UpdateHead(s, left) ==
    /\ Len(s) >= 3 /\ s[1][1] = "header" /\ s[2] = <<"kind", UPDATECRED>>
    /\ s[3] = <<"credentialCount", Cardinality(Starts(s)) + left>>

CredentialAdded(s, c, st) ==
    \E j \in Starts(s) :
        /\ \A i \in Starts(s) : i <= j
        /\ Added(s, j) /\ CredentialSoFar(s, j + 1, c, st, TRUE)

IdsComing(s, c) ==
    \E z \in DOMAIN s :
        /\ \A i \in Starts(s) : i < z
        /\ Added(s, z) /\ s[z] = <<"idCount", Len(s) - z + c.idsLeft>>
        /\ Are(s, z + 1, Len(s), "credId")

UpdateSoFar(s, c, st) ==
    /\ c.update = "CREDENTIAL_INDEX" => UpdateHead(s, c.credentialsLeft) /\ Added(s, Len(s) + 1)
    /\ c.update = "CREDENTIAL" => UpdateHead(s, c.credentialsLeft - 1) /\ CredentialAdded(s, c, st)
    /\ c.update = "ID_COUNT" => UpdateHead(s, 0) /\ Added(s, Len(s) + 1)
    /\ c.update \in {"ID", "THRESHOLD"} => UpdateHead(s, 0) /\ IdsComing(s, c)
    /\ c.update = "THRESHOLD" => c.idsLeft = 0
    /\ c.update # "INITIAL"

\* The rows that are in the union only, to be shown with the last review of a
\* credential.
RowsDue(c, st) ==
    CASE st \in {"VERIFICATION_KEYS_LENGTH", "VERIFICATION_KEY", AfterKey, "between"} -> {}
      [] st = "SIGNATURE_THRESHOLD" -> KeyRow(c)
      [] st = "AR_IDENTITY" /\ c.arsLeft # 0 -> DetailRows(c) \ {<<"arList", c.ars>>}
      [] OTHER -> DetailRows(c)

Shown == approved \cup screen.items

\* No list of revokers is incomplete but the one that begins at o.
ListsRead(s, o) ==
    \A j \in DOMAIN s : s[j][1] = "arThreshold" /\ j # o => j + s[j][3] <= Len(s)

\* Every row of the transcript was shown or is still in the union.
RowsKept(s, c, st, shown) ==
    /\ CredentialRows(s) \subseteq shown \cup RowsDue(c, st)
    /\ ListsRead(s, IF st = "AR_IDENTITY" THEN Len(s) - Len(c.ars) ELSE 0)
    /\ s # << >> /\ s[Len(s)][1] = "tag" => st = "ATTRIBUTE_VALUE"

KeyTag(k) == IF k % 3 = 1 THEN "keyType" ELSE IF k % 3 = 2 THEN "keyIndex" ELSE "key"

IpDue(c) ==
    (IF c.showIntro THEN IdRows(c) ELSE {}) \cup (IF c.state = "THRESHOLD" THEN KeyRows(c) ELSE {})

IpSoFar(s, c, shown) ==
    /\ c.state \in {"VERIFICATION_KEY", "THRESHOLD"}
    /\ Len(s) >= 3 /\ s[1][1] = "idCredPub" /\ s[2][1] = "credId" /\ s[3][1] = "keyCount"
    /\ Len(s) = 3 + 3 * (s[3][2] - c.keysLeft) /\ c.keysLeft <= s[3][2]
    /\ \A k \in 1 .. Len(s) - 3 : s[k + 3][1] = KeyTag(k)
    /\ c.state = "THRESHOLD" => s[3][2] > 0
    /\ IpRows(s) \subseteq shown \cup IpDue(c)

IsWhole(s) == IsPublicInfo(s) \/ IsDeployment(s) \/ IsUpdate(s)

NetworkShown(s, p, shown) ==
    <<"kind", UPDATECRED>> \in ItemsOf(s) => <<"network", NetworkOf(p)>> \in shown

FlowOpen(ins) == latch = ins /\ ctx # Wiped /\ screen.cb # "sign"

FlowInv ==
    /\ FlowOpen(IPINFO) => IpSoFar(hash, ctx, Shown)
    /\ FlowOpen(CREDENTIAL) =>
           CredentialSoFar(hash, 1, ctx, Stage, FALSE) /\ RowsKept(hash, ctx, Stage, Shown)
    /\ FlowOpen(UPDATECRED) =>
           UpdateSoFar(hash, ctx, Stage) /\ RowsKept(hash, ctx, Stage, Shown)
    /\ latch \in IdentityInss /\ ctx # Wiped => NetworkShown(hash, path, Shown)
    /\ screen.cb = "sign" => IsWhole(hash) /\ IdentityRows(hash) \subseteq Shown

-----------------------------------------------------------------------------
(* Rows. *)

\* t is s and one item more.
Grows(s, t, x) ==
    /\ s \in Seq(IdentityItem) /\ t \in Seq(IdentityItem) /\ x \in IdentityItem
    /\ Len(t) = Len(s) + 1 /\ t[Len(t)] = x /\ Len(s) \in Nat
    /\ \A k \in 1 .. Len(s) : t[k] = s[k]

LEMMA AppendGrows ==
    ASSUME NEW s \in Seq(IdentityItem), NEW x \in IdentityItem
    PROVE  Grows(s, Append(s, x), x)
  BY DEF Grows

LEMMA FeedGrows ==
    ASSUME hash \in Seq(IdentityItem), NEW x \in IdentityItem, Feed(<<x>>)
    PROVE  Grows(hash, hash', x)
  BY FeedOne DEF Grows

LEMMA ArItem ==
    ASSUME NEW x \in IdentityItem, x[1] \in {"arThreshold", "dates"}
    PROVE  x \in {"arThreshold", "dates"} \X Vals \X Nat /\ x[2] \in Vals /\ x[3] \in Nat
<1>1. x \notin {"header"} \X Headers /\ x # <<"kind", UPDATECRED>>
  OBVIOUS
<1>2. x \notin ValueTags \X Vals
  BY DEF ValueTags
<1>3. x \notin CountTags \X Nat
  BY DEF CountTags
<1>4. x \notin {"identityProvider"} \X Providers /\ x \notin {"newOrExisting"} \X {"expiry", "address"}
  OBVIOUS
<1>5. x \in {"arThreshold", "dates"} \X Vals \X Nat
  BY <1>1, <1>2, <1>3, <1>4 DEF IdentityItem
<1> QED
  BY <1>5

RowTags ==
    {"header", "key", "signatureThreshold", "regIdCred", "arThreshold", "address", "credId",
     "threshold"}

ListRow(s, j) == <<"arList", [k \in 1 .. s[j][3] |-> s[j + k][2]]>>

ItemRows(s) == {item \in ItemsOf(s) : item[1] \in RowTags}
ListRows(s) == {ListRow(s, i) : i \in {j \in DOMAIN s : s[j][1] = "arThreshold" /\ j + s[j][3] <= Len(s)}}
AttributeRows(s) ==
    {<<"attribute", s[i][2], s[i + 1][2]>> : i \in {j \in DOMAIN s : s[j][1] = "tag" /\ j < Len(s)}}

LEMMA RowsAre == ASSUME NEW s PROVE CredentialRows(s) = ItemRows(s) \cup ListRows(s) \cup AttributeRows(s)
  BY DEF CredentialRows, ItemRows, ListRows, AttributeRows, ListRow, RowTags

LEMMA ItemRowsGrow ==
    ASSUME NEW s, NEW t, NEW x, Grows(s, t, x)
    PROVE  ItemRows(t) \subseteq ItemRows(s) \cup {y \in {x} : y[1] \in RowTags}
<1>1. ASSUME NEW k \in DOMAIN t PROVE t[k] = x \/ t[k] \in ItemsOf(s)
  BY DEF Grows, ItemsOf
<1> QED
  BY <1>1 DEF ItemRows, ItemsOf

LEMMA AttributeRowsGrow ==
    ASSUME NEW s, NEW t, NEW x, Grows(s, t, x)
    PROVE  /\ s = << >> \/ s[Len(s)][1] # "tag" => AttributeRows(t) \subseteq AttributeRows(s)
           /\ AttributeRows(t) \subseteq AttributeRows(s) \cup {<<"attribute", s[Len(s)][2], x[2]>>}
<1>1. ASSUME NEW j \in DOMAIN t, t[j][1] = "tag", j < Len(t)
      PROVE  /\ j \in 1 .. Len(s) /\ t[j] = s[j]
             /\ j < Len(s) => t[j + 1] = s[j + 1]
             /\ ~(j < Len(s)) => j = Len(s) /\ t[j + 1] = x /\ s # << >>
  <2>1. j \in 1 .. Len(s)
    BY <1>1 DEF Grows
  <2>2. s # << >> /\ Len(t) = Len(s) + 1
    BY <2>1 DEF Grows
  <2> QED
    BY <2>1, <2>2 DEF Grows
<1>2. ASSUME NEW j \in DOMAIN t, t[j][1] = "tag", j < Len(t)
      PROVE  \/ j < Len(s) /\ <<"attribute", t[j][2], t[j + 1][2]>> \in AttributeRows(s)
             \/ /\ s # << >> /\ s[Len(s)][1] = "tag"
                /\ <<"attribute", t[j][2], t[j + 1][2]>> = <<"attribute", s[Len(s)][2], x[2]>>
  BY <1>1, <1>2 DEF AttributeRows, Grows
<1> QED
  BY <1>2 DEF AttributeRows

\* A list that was complete keeps its row; one that is completed gets it.
LEMMA ListRowsGrow ==
    ASSUME NEW s, NEW t, NEW x, Grows(s, t, x)
    PROVE  ListRows(t) \subseteq
             ListRows(s) \cup {ListRow(t, j) : j \in {i \in DOMAIN t : t[i][1] = "arThreshold"
                                                                      /\ i + t[i][3] = Len(t)}}
<1> SUFFICES ASSUME NEW j \in DOMAIN t, t[j][1] = "arThreshold", j + t[j][3] <= Len(t)
             PROVE  ListRow(t, j) \in ListRows(s) \/ j + t[j][3] = Len(t)
  BY DEF ListRows
<1>1. t[j] \in IdentityItem /\ j \in 1 .. Len(t) /\ Len(t) = Len(s) + 1 /\ Len(s) \in Nat
  BY DEF Grows
<1>2. t[j][3] \in Nat
  BY <1>1, ArItem
<1> SUFFICES ASSUME j + t[j][3] # Len(t) PROVE ListRow(t, j) \in ListRows(s)
  OBVIOUS
<1>3. j + t[j][3] <= Len(s) /\ j \in 1 .. Len(s)
  BY <1>1, <1>2
<1>4. t[j] = s[j] /\ j \in DOMAIN s
  BY <1>3 DEF Grows
<1>5. \A k \in 1 .. s[j][3] : t[j + k] = s[j + k]
  <2> DEFINE n == t[j][3]
  <2>1. n \in Nat /\ j + n <= Len(s) /\ j \in 1 .. Len(s) /\ Len(s) \in Nat /\ s[j][3] = n
    BY <1>1, <1>2, <1>3, <1>4
  <2> HIDE DEF n
  <2>2. \A k \in 1 .. n : j + k \in 1 .. Len(s)
    BY ONLY <2>1
  <2>3. \A k \in 1 .. Len(s) : t[k] = s[k]
    BY DEF Grows
  <2> QED
    BY <2>1, <2>2, <2>3
<1>6. ListRow(t, j) = ListRow(s, j)
  BY <1>4, <1>5 DEF ListRow
<1> QED
  BY <1>3, <1>4, <1>6 DEF ListRows

\* A field that neither continues a list of revokers nor an attribute.
LEMMA RowsGrow ==
    ASSUME NEW s, NEW t, NEW x, Grows(s, t, x), ListsRead(s, 0), s = << >> \/ s[Len(s)][1] # "tag",
           x[1] # "arThreshold"
    PROVE  /\ CredentialRows(t) \subseteq CredentialRows(s) \cup {y \in {x} : y[1] \in RowTags}
           /\ ListsRead(t, 0)
           /\ t # << >> /\ t[Len(t)] = x
<1>1. ASSUME NEW j \in DOMAIN t, t[j][1] = "arThreshold"
      PROVE  j + t[j][3] <= Len(s) /\ j + t[j][3] < Len(t) /\ j + t[j][3] \in Nat
  <2>1. j \in 1 .. Len(s) /\ t[j] = s[j] /\ Len(t) = Len(s) + 1 /\ Len(s) \in Nat
    BY <1>1 DEF Grows
  <2>2. t[j][3] \in Nat
    BY <1>1, ArItem DEF Grows
  <2>3. j # 0 /\ j \in DOMAIN s
    BY <2>1 DEF Grows
  <2>4. j + s[j][3] <= Len(s)
    BY <1>1, <2>1, <2>3 DEF ListsRead
  <2> QED
    BY <2>1, <2>2, <2>4
<1>2. ListRows(t) \subseteq ListRows(s)
  BY <1>1, ListRowsGrow DEF Grows
<1>3. ListsRead(t, 0)
  BY <1>1 DEF ListsRead, Grows
<1>4. t # << >> /\ t[Len(t)] = x
  BY DEF Grows
<1> QED
  BY <1>2, <1>3, <1>4, ItemRowsGrow, AttributeRowsGrow, RowsAre

\* The thresholds, the last of which announces a list of revokers.
LEMMA ThresholdRows ==
    ASSUME NEW s, NEW t, NEW v \in Vals, NEW n \in Nat, Grows(s, t, <<"arThreshold", v, n>>),
           ListsRead(s, 0), s = << >> \/ s[Len(s)][1] # "tag"
    PROVE  /\ CredentialRows(t) \subseteq CredentialRows(s) \cup {<<"arThreshold", v, n>>}
                                           \cup {y \in {<<"arList", << >>>>} : n = 0}
           /\ ListsRead(t, Len(t))
           /\ n = 0 => ListsRead(t, 0)
           /\ t[Len(t)][1] # "tag"
<1> DEFINE x == <<"arThreshold", v, n>>
<1>0. Len(t) = Len(s) + 1 /\ Len(s) \in Nat /\ t[Len(t)] = x /\ x[1] = "arThreshold" /\ x[3] = n
  BY DEF Grows
<1>1. ASSUME NEW j \in DOMAIN t, t[j][1] = "arThreshold", j # Len(t)
      PROVE  j + t[j][3] <= Len(s) /\ j + t[j][3] < Len(t) /\ j + t[j][3] \in Nat
  <2>1. j \in 1 .. Len(s) /\ t[j] = s[j]
    BY <1>0, <1>1 DEF Grows
  <2>2. t[j][3] \in Nat
    BY <1>1, ArItem DEF Grows
  <2>3. j # 0 /\ j \in DOMAIN s
    BY <2>1 DEF Grows
  <2>4. j + s[j][3] <= Len(s)
    BY <1>1, <2>1, <2>3 DEF ListsRead
  <2> QED
    BY <1>0, <2>1, <2>2, <2>4
<1>2. ListRows(t) \subseteq ListRows(s) \cup {y \in {<<"arList", << >>>>} : n = 0}
  <2>1. ASSUME NEW j \in DOMAIN t, t[j][1] = "arThreshold", j + t[j][3] = Len(t)
        PROVE  n = 0 /\ ListRow(t, j) = <<"arList", << >>>>
    <3>1. j = Len(t)
      BY <1>1, <2>1
    <3>2. t[j][3] = n /\ n = 0
      BY <1>0, <2>1, <3>1
    <3>3. [k \in 1 .. t[j][3] |-> t[j + k][2]] = << >>
      BY <3>2
    <3> QED
      BY <3>2, <3>3 DEF ListRow
  <2> QED
    BY <2>1, ListRowsGrow
<1>3. ListsRead(t, Len(t))
  BY <1>1 DEF ListsRead, Grows
<1>4. ASSUME n = 0 PROVE ListsRead(t, 0)
  <2>1. ASSUME NEW j \in DOMAIN t, t[j][1] = "arThreshold" PROVE j + t[j][3] <= Len(t)
    BY <1>0, <1>1, <1>4, <2>1
  <2> QED
    BY <2>1 DEF ListsRead
<1>5. t[Len(t)][1] # "tag"
  BY <1>0
<1>6. ItemRows(t) \subseteq ItemRows(s) \cup {x} /\ AttributeRows(t) \subseteq AttributeRows(s)
  BY ItemRowsGrow, AttributeRowsGrow
<1> HIDE DEF x
<1>7. CredentialRows(t) \subseteq CredentialRows(s) \cup {x} \cup {y \in {<<"arList", << >>>>} : n = 0}
  BY <1>2, <1>6, RowsAre
<1> QED
  BY <1>3, <1>4, <1>5, <1>7 DEF x

\* The list of revokers that begins at o goes on.
ListAt(s, ars, left, o) ==
    /\ o \in 1 .. Len(s) /\ o = Len(s) - Len(ars) /\ s[o][1] = "arThreshold" /\ s[o][3] = Len(ars) + left
    /\ \A m \in 1 .. Len(ars) : ars[m] = s[o + m][2]

\* A revoker: the list has its row when it is the last.
LEMMA RevokerRows ==
    ASSUME NEW s, NEW t, NEW v \in Vals, Grows(s, t, <<"ar", v>>), s[Len(s)][1] # "tag",
           NEW ars \in Seq(Vals), NEW left \in Nat, left > 0, NEW o, ListAt(s, ars, left, o), ListsRead(s, o)
    PROVE  /\ CredentialRows(t) \subseteq
                 CredentialRows(s) \cup {y \in {<<"arList", Append(ars, v)>>} : left = 1}
           /\ ListsRead(t, o) /\ (left = 1 => ListsRead(t, 0))
           /\ t[Len(t)][1] # "tag"
<1> SUFFICES ASSUME o \in 1 .. Len(s), o = Len(s) - Len(ars), s[o][1] = "arThreshold",
                    s[o][3] = Len(ars) + left, \A m \in 1 .. Len(ars) : ars[m] = s[o + m][2]
             PROVE  /\ CredentialRows(t) \subseteq
                          CredentialRows(s) \cup {y \in {<<"arList", Append(ars, v)>>} : left = 1}
                    /\ ListsRead(t, o) /\ (left = 1 => ListsRead(t, 0))
                    /\ t[Len(t)][1] # "tag"
  BY DEF ListAt
<1> DEFINE x == <<"ar", v>>
<1>0. /\ Len(t) = Len(s) + 1 /\ Len(s) \in Nat /\ t[Len(t)] = x /\ x[1] = "ar" /\ x[2] = v
      /\ t[o] = s[o] /\ Len(ars) \in Nat /\ o + Len(ars) = Len(s) /\ o \in Nat
      /\ \A k \in 1 .. Len(s) : t[k] = s[k]
  <2>1. /\ Len(t) = Len(s) + 1 /\ Len(s) \in Nat /\ t[Len(t)] = x
        /\ \A k \in 1 .. Len(s) : t[k] = s[k]
    BY DEF Grows
  <2>2. Len(ars) \in Nat /\ x[1] = "ar" /\ x[2] = v
    OBVIOUS
  <2>3. o \in 1 .. Len(s) /\ o = Len(s) - Len(ars)
    OBVIOUS
  <2>4. o \in Nat /\ o + Len(ars) = Len(s)
    BY ONLY <2>1, <2>2, <2>3
  <2>5. t[o] = s[o]
    BY ONLY <2>1, <2>3
  <2> QED
    BY ONLY <2>1, <2>2, <2>4, <2>5
<1>d. DOMAIN t = 1 .. Len(t)
  BY DEF Grows
<1>1. ASSUME NEW j \in DOMAIN t, t[j][1] = "arThreshold", j # o
      PROVE  j + t[j][3] <= Len(s) /\ j + t[j][3] < Len(t) /\ j + t[j][3] \in Nat
  <2>1. j \in 1 .. Len(s) /\ t[j] = s[j]
    <3>1. j # Len(t) /\ j \in 1 .. Len(t)
      BY <1>0, <1>1, <1>d
    <3> QED
      BY ONLY <1>0, <3>1
  <2>2. t[j][3] \in Nat
    BY <1>1, ArItem DEF Grows
  <2>3. j \in DOMAIN s
    BY <2>1 DEF Grows
  <2>4. j + s[j][3] <= Len(s)
    BY <1>1, <2>1, <2>3 DEF ListsRead
  <2> QED
    BY ONLY <1>0, <2>1, <2>2, <2>4
<1>2. o + t[o][3] = Len(s) + left
  BY <1>0
<1>3. ASSUME left = 1 PROVE ListRow(t, o) = <<"arList", Append(ars, v)>>
  <2> DEFINE f == [k \in 1 .. t[o][3] |-> t[o + k][2]]
             g == Append(ars, v)
  <2>1. t[o][3] = Len(ars) + 1
    BY <1>0, <1>3
  <2>2. g \in Seq(Vals) /\ Len(g) = Len(ars) + 1 /\ g[Len(ars) + 1] = v
        /\ \A k \in 1 .. Len(ars) : g[k] = ars[k]
    OBVIOUS
  <2>3. \A k \in 1 .. Len(ars) : o + k \in 1 .. Len(s) /\ t[o + k] = s[o + k]
    BY ONLY <1>0
  <2>4. t[o + Len(ars) + 1][2] = v /\ o + (Len(ars) + 1) = Len(t)
    BY ONLY <1>0
  <2>5. \A k \in 1 .. Len(ars) + 1 : k \in 1 .. Len(ars) \/ k = Len(ars) + 1
    BY <1>0
  <2> HIDE DEF g
  <2>6. \A k \in 1 .. Len(ars) + 1 : t[o + k][2] = g[k]
    <3> SUFFICES ASSUME NEW k \in 1 .. Len(ars) + 1 PROVE t[o + k][2] = g[k]
      OBVIOUS
    <3>1. CASE k \in 1 .. Len(ars)
      BY <2>2, <2>3, <3>1
    <3>2. CASE k = Len(ars) + 1
      BY <1>0, <2>2, <2>4, <3>2
    <3> QED
      BY <2>5, <3>1, <3>2
  <2>7. f = [k \in 1 .. Len(ars) + 1 |-> g[k]]
    BY <2>1, <2>6
  <2> HIDE DEF f, g
  <2>8. g = [k \in 1 .. Len(ars) + 1 |-> g[k]]
    BY <2>2
  <2> QED
    BY <2>7, <2>8 DEF f, g, ListRow
<1>4. ListRows(t) \subseteq ListRows(s) \cup {y \in {<<"arList", Append(ars, v)>>} : left = 1}
  <2>1. ASSUME NEW j \in DOMAIN t, t[j][1] = "arThreshold", j + t[j][3] = Len(t)
        PROVE  left = 1 /\ ListRow(t, j) = <<"arList", Append(ars, v)>>
    <3>1. j = o
      BY <1>1, <2>1
    <3>2. left = 1
      BY <1>0, <1>2, <2>1, <3>1
    <3> QED
      BY <1>3, <3>1, <3>2
  <2> QED
    BY <2>1, ListRowsGrow
<1>5. ListsRead(t, o)
  BY <1>1 DEF ListsRead, Grows
<1>6. ASSUME left = 1 PROVE ListsRead(t, 0)
  <2>1. ASSUME NEW j \in DOMAIN t, t[j][1] = "arThreshold" PROVE j + t[j][3] <= Len(t)
    <3>1. CASE j = o
      <4>1. j + t[j][3] = Len(s) + 1
        BY <1>2, <1>6, <3>1
      <4> QED
        BY ONLY <1>0, <4>1
    <3>2. CASE j # o
      <4>1. j + t[j][3] < Len(t) /\ j + t[j][3] \in Nat
        BY <1>1, <2>1, <3>2
      <4> QED
        BY ONLY <1>0, <4>1
    <3> QED
      BY <3>1, <3>2
  <2> QED
    BY <2>1 DEF ListsRead
<1>7. ItemRows(t) \subseteq ItemRows(s) /\ AttributeRows(t) \subseteq AttributeRows(s)
  <2>1. x[1] \notin RowTags
    BY DEF RowTags
  <2> QED
    BY <2>1, ItemRowsGrow, AttributeRowsGrow
<1>8. t[Len(t)][1] # "tag"
  BY <1>0
<1>9. CredentialRows(t) \subseteq
          CredentialRows(s) \cup {y \in {<<"arList", Append(ars, v)>>} : left = 1}
  BY <1>4, <1>7, RowsAre
<1> QED
  BY <1>5, <1>6, <1>8, <1>9

\* The value of an attribute.
LEMMA ValueRows ==
    ASSUME NEW s, NEW t, NEW v \in Vals, NEW g, Grows(s, t, <<"value", v>>),
           s[Len(s)] = <<"tag", g>>, ListsRead(s, 0)
    PROVE  /\ CredentialRows(t) \subseteq CredentialRows(s) \cup {<<"attribute", g, v>>}
           /\ ListsRead(t, 0) /\ t[Len(t)][1] # "tag"
<1> DEFINE x == <<"value", v>>
<1>0. Len(t) = Len(s) + 1 /\ Len(s) \in Nat /\ t[Len(t)] = x /\ x[1] = "value" /\ x[2] = v
  BY DEF Grows
<1>1. ASSUME NEW j \in DOMAIN t, t[j][1] = "arThreshold"
      PROVE  j + t[j][3] <= Len(s) /\ j + t[j][3] < Len(t) /\ j + t[j][3] \in Nat
  <2>1. j \in 1 .. Len(s) /\ t[j] = s[j]
    BY <1>0, <1>1 DEF Grows
  <2>2. t[j][3] \in Nat
    BY <1>1, ArItem DEF Grows
  <2>3. j # 0 /\ j \in DOMAIN s
    BY <2>1 DEF Grows
  <2>4. j + s[j][3] <= Len(s)
    BY <1>1, <2>1, <2>3 DEF ListsRead
  <2> QED
    BY <1>0, <2>1, <2>2, <2>4
<1>2. ListRows(t) \subseteq ListRows(s)
  <2>1. \A j \in DOMAIN t : t[j][1] = "arThreshold" => j + t[j][3] # Len(t)
    BY <1>0, <1>1
  <2> QED
    BY <2>1, ListRowsGrow
<1>3. ListsRead(t, 0)
  BY <1>0, <1>1 DEF ListsRead
<1>4. ItemRows(t) \subseteq ItemRows(s)
  <2>1. x[1] \notin RowTags
    BY DEF RowTags
  <2> QED
    BY <2>1, ItemRowsGrow
<1>5. AttributeRows(t) \subseteq AttributeRows(s) \cup {<<"attribute", g, v>>}
  BY <1>0, AttributeRowsGrow
<1>6. t[Len(t)][1] # "tag"
  BY <1>0
<1>7. CredentialRows(t) \subseteq CredentialRows(s) \cup {<<"attribute", g, v>>}
  BY <1>2, <1>4, <1>5, RowsAre
<1> QED
  BY <1>3, <1>6, <1>7

-----------------------------------------------------------------------------
(* Transcripts: what was read stays read. *)

\* t is s and whatever follows it.
Extends(s, t) ==
    /\ s \in Seq(IdentityItem) /\ t \in Seq(IdentityItem)
    /\ Len(s) \in Nat /\ Len(t) \in Nat /\ Len(s) <= Len(t)
    /\ \A k \in 1 .. Len(s) : t[k] = s[k]

LEMMA GrowsExtends == ASSUME NEW s, NEW t, NEW x, Grows(s, t, x) PROVE Extends(s, t)
  BY DEF Grows, Extends

\* Items that were all of one kind still are.
LEMMA AreStays ==
    ASSUME NEW s, NEW t, Extends(s, t), NEW i \in Nat \ {0}, NEW j \in Nat, j <= Len(s), NEW tag,
           Are(s, i, j, tag)
    PROVE  Are(t, i, j, tag)
<1>1. \A k \in i .. j : k \in 1 .. Len(s)
  BY DEF Extends
<1> QED
  BY <1>1 DEF Are, Extends

LEMMA ItemStays ==
    ASSUME NEW s, NEW t, Extends(s, t), NEW k \in Nat \ {0}, k <= Len(s)
    PROVE  t[k] = s[k]
  BY DEF Extends

LEMMA KeysReadStays ==
    ASSUME NEW s, NEW t, Extends(s, t), NEW i \in Nat \ {0}, NEW a \in Nat, KeysRead(s, i, a)
    PROVE  KeysRead(t, i, a)
<1>1. Len(t) \in Nat /\ Len(s) \in Nat /\ Len(s) <= Len(t)
  BY DEF Extends
<1>2. i + 1 < a /\ a - 1 <= Len(s) /\ s[i] = <<"keysLength", a - i - 1>> /\ Are(s, i + 1, a - 1, "key")
  BY DEF KeysRead
<1>3. i <= Len(s) /\ i + 1 \in Nat \ {0} /\ a - 1 \in Nat /\ a - 1 <= Len(t)
  BY ONLY <1>1, <1>2, i \in Nat \ {0}, a \in Nat
<1>4. t[i] = s[i] /\ Are(t, i + 1, a - 1, "key")
  BY <1>2, <1>3, ItemStays, AreStays
<1> QED
  BY <1>2, <1>3, <1>4 DEF KeysRead

LEMMA DetailsStay ==
    ASSUME NEW s, NEW t, Extends(s, t), NEW a \in Nat \ {0}, DetailsAt(s, a)
    PROVE  DetailsAt(t, a) /\ t[a + 3] = s[a + 3]
<1>1. Len(t) \in Nat /\ Len(s) \in Nat /\ Len(s) <= Len(t) /\ a + 3 <= Len(s)
  BY DEF Extends, DetailsAt
<1>2. t[a] = s[a] /\ t[a + 1] = s[a + 1] /\ t[a + 2] = s[a + 2] /\ t[a + 3] = s[a + 3]
  BY <1>1, ItemStays
<1> QED
  BY <1>1, <1>2 DEF DetailsAt

\* The thresholds stand at a, and the revokers behind them up to b.
HeadAt(s, i, a, b) ==
    /\ KeysRead(s, i, a) /\ DetailsAt(s, a)
    /\ a + 4 < b /\ b - 1 <= Len(s)
    /\ s[a + 3][3] = b - a - 4 /\ Are(s, a + 4, b - 1, "ar")

LEMMA HeadReadIs == ASSUME NEW s, NEW i, NEW b PROVE HeadRead(s, i, b) <=> \E a \in 1 .. b : HeadAt(s, i, a, b)
  BY DEF HeadRead, HeadAt

LEMMA HeadReadStays ==
    ASSUME NEW s, NEW t, Extends(s, t), NEW i \in Nat \ {0}, NEW b \in Nat, HeadRead(s, i, b)
    PROVE  HeadRead(t, i, b)
<1>1. PICK a \in 1 .. b : HeadAt(s, i, a, b)
  BY HeadReadIs
<1>2. a \in Nat \ {0}
  OBVIOUS
<1>3. KeysRead(s, i, a) /\ DetailsAt(s, a) /\ a + 4 < b /\ b - 1 <= Len(s)
      /\ s[a + 3][3] = b - a - 4 /\ Are(s, a + 4, b - 1, "ar")
  BY <1>1 DEF HeadAt
<1>4. KeysRead(t, i, a) /\ DetailsAt(t, a) /\ t[a + 3] = s[a + 3]
  BY <1>2, <1>3, KeysReadStays, DetailsStay
<1>5. Len(t) \in Nat /\ Len(s) \in Nat /\ Len(s) <= Len(t)
  BY DEF Extends
<1>6. a + 4 \in Nat \ {0} /\ b - 1 \in Nat /\ b - 1 <= Len(t)
  BY ONLY <1>2, <1>3, <1>5, b \in Nat
<1>7. Are(t, a + 4, b - 1, "ar")
  BY <1>3, <1>6, AreStays
<1>8. HeadAt(t, i, a, b)
  BY <1>3, <1>4, <1>6, <1>7 DEF HeadAt
<1> QED
  BY <1>8, HeadReadIs

Tagged(s, b, e) == \A k \in b + 1 .. e - 1 : s[k][1] = IF (k - b) % 2 = 1 THEN "tag" ELSE "value"

LEMMA AttributesStay ==
    ASSUME NEW s, NEW t, Extends(s, t), NEW b \in Nat \ {0}, NEW e \in Nat, Attributes(s, b, e)
    PROVE  Attributes(t, b, e) /\ t[b] = s[b]
<1>1. Len(t) \in Nat /\ Len(s) \in Nat /\ Len(s) <= Len(t)
  BY DEF Extends
<1>2. b < e /\ e - 1 <= Len(s) /\ s[b][1] = "dates" /\ Tagged(s, b, e)
  BY DEF Attributes, Tagged
<1>3. b <= Len(s) /\ e - 1 <= Len(t)
  BY ONLY <1>1, <1>2, b \in Nat \ {0}, e \in Nat
<1>4. ASSUME NEW k \in b + 1 .. e - 1 PROVE t[k] = s[k]
  <2>1. k \in Nat \ {0} /\ k <= Len(s)
    BY ONLY <1>1, <1>2, b \in Nat \ {0}, e \in Nat, k \in b + 1 .. e - 1
  <2> QED
    BY <2>1, ItemStays
<1>5. t[b] = s[b]
  BY <1>3, ItemStays
<1>6. Tagged(t, b, e)
  BY <1>2, <1>4 DEF Tagged
<1> QED
  BY <1>2, <1>3, <1>5, <1>6 DEF Attributes, Tagged

ProofsWhole(s, c, e, embedded) ==
    \/ s[c][1] = "proofLength" /\ c < e /\ Are(s, c + 1, e, "proof")
       /\ s[c][2] = CdataMax * (e - c - 1) + s[e][2]
    \/ ~embedded /\ Are(s, c, e, "proof")

\* The parts of a whole credential.
LEMMA CredentialParts ==
    ASSUME NEW s \in Seq(IdentityItem), NEW i \in Nat \ {0}, NEW e \in Nat, NEW embedded, e <= Len(s)
    PROVE  IsCredential(s, i, e, embedded) <=>
              \E b, c \in i .. e :
                 /\ HeadRead(s, i, b) /\ Attributes(s, b, c) /\ c = b + 2 * s[b][3] + 1
                 /\ ProofsWhole(s, c, e, embedded)
<1> DEFINE T == <<"signatureThreshold", "regIdCred", "identityProvider", "arThreshold">>
           F(a) == [k \in 0 .. 3 |-> s[a + k][1]]
           G == [k \in 0 .. 3 |-> T[k + 1]]
           P(a, b, c) ==
                   /\ i + 1 < a /\ s[i] = <<"keysLength", a - i - 1>> /\ Are(s, i + 1, a - 1, "key")
                   /\ a + 4 < b /\ F(a) = G
                   /\ s[a + 3][3] = b - a - 4 /\ Are(s, a + 4, b - 1, "ar")
                   /\ s[b][1] = "dates" /\ c = b + 2 * s[b][3] + 1 /\ Tagged(s, b, c)
                   /\ ProofsWhole(s, c, e, embedded)
           Q(a, b, c) ==
                   /\ HeadAt(s, i, a, b) /\ Attributes(s, b, c) /\ c = b + 2 * s[b][3] + 1
                   /\ ProofsWhole(s, c, e, embedded)
<1>1. /\ T[0 + 1] = "signatureThreshold" /\ T[1 + 1] = "regIdCred"
      /\ T[2 + 1] = "identityProvider" /\ T[3 + 1] = "arThreshold"
  OBVIOUS
<1> HIDE DEF T
<1>0. Len(s) \in Nat
  OBVIOUS
<1>2. \A k \in 0 .. 3 : k = 0 \/ k = 1 \/ k = 2 \/ k = 3
  OBVIOUS
<1>3. ASSUME NEW a \in Nat
      PROVE  F(a) = G <=> /\ s[a][1] = "signatureThreshold" /\ s[a + 1][1] = "regIdCred"
                          /\ s[a + 2][1] = "identityProvider" /\ s[a + 3][1] = "arThreshold"
  <2>1. a + 0 = a
    OBVIOUS
  <2>2. F(a) = G <=> \A k \in 0 .. 3 : s[a + k][1] = T[k + 1]
    <3>1. F(a) = G => \A k \in 0 .. 3 : F(a)[k] = G[k]
      OBVIOUS
    <3>2. \A k \in 0 .. 3 : F(a)[k] = s[a + k][1] /\ G[k] = T[k + 1]
      OBVIOUS
    <3> QED
      BY <3>1, <3>2
  <2>3. (\A k \in 0 .. 3 : s[a + k][1] = T[k + 1]) <=>
           /\ s[a + 0][1] = T[0 + 1] /\ s[a + 1][1] = T[1 + 1]
           /\ s[a + 2][1] = T[2 + 1] /\ s[a + 3][1] = T[3 + 1]
    BY <1>2
  <2> QED
    BY <1>1, <2>1, <2>2, <2>3
<1>4. ASSUME NEW a \in i .. e, NEW b \in i .. e, NEW c \in i .. e
      PROVE  P(a, b, c) /\ b < c <=> Q(a, b, c)
  <2>1. a \in Nat /\ b \in Nat /\ c \in Nat /\ a - 1 <= Len(s) /\ b - 1 <= Len(s) /\ c - 1 <= Len(s)
    BY <1>0
  <2>2. a + 4 < b => a + 3 <= Len(s)
    BY ONLY <1>0, <2>1
  <2> HIDE DEF F, G
  <2> QED
    BY <1>3, <2>1, <2>2 DEF HeadAt, KeysRead, DetailsAt, Attributes, Tagged
<1>5. ASSUME NEW b \in i .. e, s[b][1] = "dates" PROVE b < b + 2 * s[b][3] + 1
  <2>1. b \in 1 .. Len(s)
    BY <1>0
  <2>2. s[b] \in IdentityItem
    BY <2>1
  <2>3. s[b][3] \in Nat
    BY <1>5, <2>2, ArItem
  <2> QED
    BY <2>1, <2>3
<1>6. ASSUME NEW b \in i .. e, NEW a \in 1 .. b, HeadAt(s, i, a, b) PROVE a \in i .. e
  <2>1. i + 1 < a
    BY <1>6 DEF HeadAt, KeysRead
  <2> QED
    BY ONLY <2>1, i \in Nat \ {0}, e \in Nat, b \in i .. e, a \in 1 .. b
<1>7. ASSUME NEW b \in i .. e, HeadRead(s, i, b) PROVE \E a \in i .. e : HeadAt(s, i, a, b)
  BY <1>6, <1>7, HeadReadIs
<1>8. ASSUME NEW b \in i .. e, NEW a \in i .. e, HeadAt(s, i, a, b) PROVE HeadRead(s, i, b)
  <2>1. a \in 1 .. b
    BY <1>8 DEF HeadAt
  <2> QED
    BY <1>8, <2>1, HeadReadIs
<1>9. IsCredential(s, i, e, embedded) <=> \E a, b, c \in i .. e : P(a, b, c)
  BY ZenonT(60) DEF IsCredential, Tagged, ProofsWhole, T
<1>10. ASSUME NEW a \in i .. e, NEW b \in i .. e, NEW c \in i .. e, P(a, b, c) PROVE b < c
  BY <1>5, <1>10
<1> HIDE DEF P, Q
<1>11. IsCredential(s, i, e, embedded) <=> \E a, b, c \in i .. e : Q(a, b, c)
  BY <1>4, <1>9, <1>10, Zenon
<1> QED
  BY <1>7, <1>8, <1>11, Zenon DEF Q

LEMMA CredentialStays ==
    ASSUME NEW s, NEW t, Extends(s, t), NEW i \in Nat \ {0}, NEW e \in Nat, e <= Len(s),
           NEW embedded, IsCredential(s, i, e, embedded)
    PROVE  IsCredential(t, i, e, embedded)
<1>0. s \in Seq(IdentityItem) /\ t \in Seq(IdentityItem) /\ e <= Len(t)
  BY DEF Extends
<1>1. PICK b \in i .. e, c \in i .. e :
         /\ HeadRead(s, i, b) /\ Attributes(s, b, c) /\ c = b + 2 * s[b][3] + 1
         /\ ProofsWhole(s, c, e, embedded)
  BY <1>0, CredentialParts
<1>2. b \in Nat \ {0} /\ c \in Nat \ {0} /\ c <= e /\ c <= Len(s) /\ e \in Nat \ {0} /\ c + 1 \in Nat \ {0}
  BY DEF Extends
<1>3. HeadRead(t, i, b) /\ Attributes(t, b, c) /\ t[b] = s[b]
  BY <1>1, <1>2, HeadReadStays, AttributesStay
<1>4. t[c] = s[c] /\ t[e] = s[e]
  BY <1>2, ItemStays
<1>5. /\ Are(s, c + 1, e, "proof") => Are(t, c + 1, e, "proof")
      /\ Are(s, c, e, "proof") => Are(t, c, e, "proof")
  BY <1>2, AreStays
<1>6. ProofsWhole(t, c, e, embedded)
  BY <1>1, <1>4, <1>5, Zenon DEF ProofsWhole
<1>7. c = b + 2 * t[b][3] + 1
  BY <1>1, <1>3
<1> QED
  BY <1>0, <1>1, <1>3, <1>6, <1>7, CredentialParts

-----------------------------------------------------------------------------
(* One packet more of the credential that begins at i. *)

LEMMA ItemFields ==
    /\ \A n : <<"keysLength", n>>[1] = "keysLength"
    /\ \A v : <<"key", v>>[1] = "key" /\ <<"ar", v>>[1] = "ar" /\ <<"ar", v>>[2] = v
              /\ <<"tag", v>>[1] = "tag" /\ <<"value", v>>[1] = "value"
    /\ \A v, n : <<"dates", v, n>>[1] = "dates" /\ <<"dates", v, n>>[3] = n
    /\ \A n : /\ <<"proofLength", n>>[1] = "proofLength" /\ <<"proofLength", n>>[2] = n
              /\ <<"proof", n>>[1] = "proof" /\ <<"proof", n>>[2] = n
  OBVIOUS

\* The items of one kind, and one of the same kind behind them.
LEMMA AreGrows ==
    ASSUME NEW s, NEW t, NEW x, Grows(s, t, x), NEW i \in Nat \ {0}, NEW tag,
           Are(s, i, Len(s), tag), x[1] = tag
    PROVE  Are(t, i, Len(t), tag)
<1>1. Len(s) \in Nat /\ Len(t) = Len(s) + 1 /\ t[Len(t)] = x /\ \A k \in 1 .. Len(s) : t[k] = s[k]
  BY DEF Grows
<1>2. \A k \in i .. Len(t) : k = Len(t) \/ (k \in i .. Len(s) /\ k \in 1 .. Len(s))
  BY ONLY <1>1, i \in Nat \ {0}
<1> QED
  BY <1>1, <1>2 DEF Are

LEMMA KeysBegin ==
    ASSUME NEW s, NEW t, NEW n \in Nat, NEW i \in Nat \ {0}, Len(s) = i - 1,
           Grows(s, t, <<"keysLength", n>>)
    PROVE  KeysComing(t, i, n)
<1>1. Len(t) = i /\ t[Len(t)] = <<"keysLength", n>>
  BY DEF Grows
<1>2. Len(t) - i + n = n /\ i + 1 .. Len(t) = {}
  BY <1>1
<1> QED
  BY <1>1, <1>2 DEF KeysComing, Are

LEMMA KeyComes ==
    ASSUME NEW s, NEW t, NEW v, NEW i \in Nat \ {0}, NEW left \in Nat \ {0}, KeysComing(s, i, left),
           Grows(s, t, <<"key", v>>)
    PROVE  KeysComing(t, i, left - 1) /\ (left = 1 => KeysRead(t, i, Len(t) + 1))
<1>1. Len(s) \in Nat /\ Len(t) = Len(s) + 1 /\ i <= Len(s)
      /\ s[i] = <<"keysLength", Len(s) - i + left>> /\ Are(s, i + 1, Len(s), "key")
  BY DEF Grows, KeysComing
<1>2. t[i] = s[i]
  BY <1>1, GrowsExtends, ItemStays
<1>3. i + 1 \in Nat \ {0} /\ <<"key", v>>[1] = "key"
  OBVIOUS
<1>4. Are(t, i + 1, Len(t), "key")
  BY <1>1, <1>3, AreGrows
<1>5. Len(t) - i + (left - 1) = Len(s) - i + left
  BY ONLY <1>1, left \in Nat \ {0}, i \in Nat \ {0}
<1>6. left = 1 => Len(s) - i + left = (Len(t) + 1) - i - 1
  BY ONLY <1>1, left \in Nat \ {0}, i \in Nat \ {0}
<1>7. (Len(t) + 1) - 1 = Len(t) /\ i <= Len(t) /\ i + 1 < Len(t) + 1
  BY ONLY <1>1, i \in Nat \ {0}
<1> QED
  BY <1>1, <1>2, <1>4, <1>5, <1>6, <1>7 DEF KeysComing, KeysRead

LEMMA DetailsCome ==
    ASSUME NEW s, NEW t, Extends(s, t), Len(t) = Len(s) + 4, NEW i \in Nat \ {0},
           KeysRead(s, i, Len(s) + 1), NEW n \in Nat, NEW v,
           t[Len(s) + 1][1] = "signatureThreshold", t[Len(s) + 2][1] = "regIdCred",
           t[Len(s) + 3][1] = "identityProvider", t[Len(s) + 4] = <<"arThreshold", v, n>>,
           NEW ars, ars = << >>
    PROVE  ArsComing(t, i, ars, n)
<1> DEFINE a == Len(s) + 1
<1>1. Len(s) \in Nat /\ Len(t) \in Nat
  BY DEF Extends
<1>2. Len(ars) = 0
  OBVIOUS
<1>3. Len(t) - Len(ars) - 3 = a /\ a \in Nat /\ a + 3 = Len(t) /\ a + 4 = Len(t) + 1
      /\ a + 1 = Len(s) + 2 /\ a + 2 = Len(s) + 3 /\ a + 3 = Len(s) + 4
  BY ONLY <1>1, <1>2, Len(t) = Len(s) + 4
<1>4. KeysRead(t, i, a)
  BY <1>3, KeysReadStays
<1>5. DetailsAt(t, a)
  BY <1>1, <1>3 DEF DetailsAt
<1>6. t[a + 3][3] = n
  BY <1>3
<1>7. Are(t, a + 4, Len(t), "ar")
  BY <1>1, <1>3 DEF Are
<1> HIDE DEF a
<1>8. \A m \in 1 .. Len(ars) : ars[m] = t[a + 3 + m][2]
  BY <1>2
<1>9. n = Len(ars) + n
  BY <1>2
<1> QED
  BY <1>3, <1>4, <1>5, <1>6, <1>7, <1>8, <1>9 DEF ArsComing

\* Where the thresholds of a credential stand whose revokers are coming.
LEMMA ArsParts ==
    ASSUME NEW s \in Seq(IdentityItem), NEW i \in Nat \ {0}, NEW ars \in Seq(Vals), NEW left, ArsComing(s, i, ars, left)
    PROVE  \E a \in Nat \ {0} :
              /\ a = Len(s) - Len(ars) - 3 /\ KeysRead(s, i, a) /\ DetailsAt(s, a)
              /\ s[a + 3][3] = Len(ars) + left /\ Are(s, a + 4, Len(s), "ar")
              /\ \A m \in 1 .. Len(ars) : ars[m] = s[a + 3 + m][2]
<1> DEFINE a == Len(s) - Len(ars) - 3
<1>1. /\ a \in Nat /\ KeysRead(s, i, a) /\ DetailsAt(s, a)
      /\ s[a + 3][3] = Len(ars) + left /\ Are(s, a + 4, Len(s), "ar")
      /\ \A m \in 1 .. Len(ars) : ars[m] = s[a + 3 + m][2]
  BY DEF ArsComing
<1>2. i + 1 < a
  BY <1>1 DEF KeysRead
<1>3. a \in Nat \ {0}
  BY <1>1, <1>2
<1> HIDE DEF a
<1> QED
  BY <1>1, <1>3 DEF a

LEMMA RevokerComes ==
    ASSUME NEW s, NEW t, NEW v \in Vals, NEW i \in Nat \ {0}, NEW ars \in Seq(Vals), NEW left \in Nat,
           ArsComing(s, i, ars, left), Grows(s, t, <<"ar", v>>), NEW more, more = Append(ars, v)
    PROVE  ArsComing(t, i, more, left - 1) /\ (left = 1 => HeadRead(t, i, Len(t) + 1))
<1>0. s \in Seq(IdentityItem) /\ Extends(s, t)
  BY GrowsExtends DEF Grows
<1>1. PICK a \in Nat \ {0} :
              /\ a = Len(s) - Len(ars) - 3 /\ KeysRead(s, i, a) /\ DetailsAt(s, a)
              /\ s[a + 3][3] = Len(ars) + left /\ Are(s, a + 4, Len(s), "ar")
              /\ \A m \in 1 .. Len(ars) : ars[m] = s[a + 3 + m][2]
  BY <1>0, ArsParts
<1>2. /\ Len(s) \in Nat /\ Len(t) = Len(s) + 1 /\ t[Len(t)] = <<"ar", v>> /\ Len(ars) \in Nat
      /\ Len(more) = Len(ars) + 1 /\ more[Len(ars) + 1] = v
      /\ \A m \in 1 .. Len(ars) : more[m] = ars[m]
  BY DEF Grows
<1>k. Len(s) \in Nat /\ Len(t) = Len(s) + 1 /\ Len(ars) \in Nat /\ Len(more) = Len(ars) + 1
      /\ a = Len(s) - Len(ars) - 3 /\ a \in Nat \ {0}
  BY ONLY <1>1, <1>2, a \in Nat \ {0}
<1>3. a = Len(t) - Len(more) - 3 /\ a + 3 + (Len(ars) + 1) = Len(t) /\ a + 4 \in Nat \ {0}
      /\ \A m \in 1 .. Len(ars) : a + 3 + m \in Nat \ {0} /\ a + 3 + m <= Len(s)
  BY ONLY <1>k
<1>4. KeysRead(t, i, a) /\ DetailsAt(t, a) /\ t[a + 3] = s[a + 3]
  BY <1>0, <1>1, KeysReadStays, DetailsStay
<1>5. t[a + 3][3] = Len(more) + (left - 1)
  <2>1. Len(more) + (left - 1) = Len(ars) + left
    BY ONLY <1>2, left \in Nat
  <2> QED
    BY <1>1, <1>4, <2>1
<1>6. Are(t, a + 4, Len(t), "ar")
  <2>1. <<"ar", v>>[1] = "ar" /\ Are(s, a + 4, Len(s), "ar") /\ a + 4 \in Nat \ {0}
    BY <1>1, <1>3
  <2> QED
    BY <2>1, AreGrows
<1>7. ASSUME NEW m \in 1 .. Len(more) PROVE more[m] = t[a + 3 + m][2]
  <2>1. CASE m \in 1 .. Len(ars)
    <3>1. t[a + 3 + m] = s[a + 3 + m]
      <4>1. a + 3 + m \in Nat \ {0} /\ a + 3 + m <= Len(s)
        BY <1>3, <2>1
      <4> QED
        BY <1>0, <4>1, ItemStays
    <3> QED
      BY <1>1, <1>2, <2>1, <3>1
  <2>2. CASE m = Len(ars) + 1
    BY <1>2, <1>3, <2>2, ItemFields
  <2>3. m \in 1 .. Len(ars) \/ m = Len(ars) + 1
    BY ONLY <1>2, m \in 1 .. Len(more)
  <2> QED
    BY <2>1, <2>2, <2>3
<1>8. ArsComing(t, i, more, left - 1)
  <2>1. Len(t) - Len(more) - 3 = a
    BY <1>3
  <2> QED
    BY <1>1, <1>4, <1>5, <1>6, <1>7, <2>1 DEF ArsComing
<1>9. ASSUME left = 1 PROVE HeadRead(t, i, Len(t) + 1)
  <2>1. a + 4 < Len(t) + 1 /\ (Len(t) + 1) - 1 <= Len(t) /\ (Len(t) + 1) - 1 = Len(t)
        /\ Len(ars) + 1 = (Len(t) + 1) - a - 4 /\ a \in 1 .. Len(t) + 1
    BY ONLY <1>k
  <2>2. t[a + 3][3] = (Len(t) + 1) - a - 4
    BY <1>1, <1>4, <1>9, <2>1
  <2>3. HeadAt(t, i, a, Len(t) + 1)
    BY <1>4, <1>6, <2>1, <2>2 DEF HeadAt
  <2> QED
    BY <2>1, <2>3, HeadReadIs
<1> QED
  BY <1>8, <1>9

LEMMA DatesCome ==
    ASSUME NEW s, NEW t, NEW v, NEW n \in Nat, NEW i \in Nat \ {0}, HeadRead(s, i, Len(s) + 1),
           Grows(s, t, <<"dates", v, n>>)
    PROVE  AttributesComing(t, i, n, 0)
<1> DEFINE b == Len(s) + 1
<1>1. Len(s) \in Nat /\ Len(t) = b /\ t[b] = <<"dates", v, n>>
  BY DEF Grows
<1>2. HeadRead(t, i, b)
  BY <1>1, GrowsExtends, HeadReadStays
<1>3. b \in 1 .. Len(t) /\ b < Len(t) + 1 /\ (Len(t) + 1) - 1 <= Len(t) /\ b + 1 .. (Len(t) + 1) - 1 = {}
  BY <1>1
<1>4. t[b][1] = "dates" /\ t[b][3] = n
  BY <1>1
<1> HIDE DEF b
<1>5. Attributes(t, b, Len(t) + 1)
  BY <1>3, <1>4 DEF Attributes
<1>6. n <= t[b][3] /\ Len(t) = b + 2 * (t[b][3] - n) + 0
  <2>1. b \in Nat /\ n - n = 0 /\ 2 * 0 = 0 /\ b + 0 + 0 = b
    BY <1>1 DEF b
  <2> QED
    BY <1>1, <1>4, <2>1
<1> QED
  BY <1>2, <1>3, <1>5, <1>6 DEF AttributesComing

\* The dates stand at b.
AttributesAt(s, i, b, left, fields) ==
    /\ b \in 1 .. Len(s) /\ HeadRead(s, i, b) /\ Attributes(s, b, Len(s) + 1) /\ s[b][3] \in Nat
    /\ left <= s[b][3] /\ Len(s) = b + 2 * (s[b][3] - left) + fields

LEMMA AttributesComingIs ==
    ASSUME NEW s \in Seq(IdentityItem), NEW i, NEW left, NEW fields
    PROVE  AttributesComing(s, i, left, fields) <=> \E b \in 1 .. Len(s) : AttributesAt(s, i, b, left, fields)
<1>1. ASSUME NEW b \in 1 .. Len(s), Attributes(s, b, Len(s) + 1) PROVE s[b][3] \in Nat
  <2>1. s[b] \in IdentityItem /\ s[b][1] = "dates"
    BY <1>1 DEF Attributes
  <2> QED
    BY <2>1, ArItem
<1> QED
  BY <1>1 DEF AttributesComing, AttributesAt

LEMMA AttributesGrow ==
    ASSUME NEW s, NEW t, NEW x, Grows(s, t, x), NEW b \in 1 .. Len(s), Attributes(s, b, Len(s) + 1),
           x[1] = IF (Len(t) - b) % 2 = 1 THEN "tag" ELSE "value"
    PROVE  Attributes(t, b, Len(t) + 1)
<1>1. Len(s) \in Nat /\ Len(t) = Len(s) + 1 /\ t[Len(t)] = x /\ Extends(s, t)
  BY GrowsExtends DEF Grows
<1>2. b \in Nat \ {0} /\ b < Len(t) + 1 /\ (Len(t) + 1) - 1 = Len(t) /\ (Len(s) + 1) - 1 = Len(s)
      /\ Len(s) + 1 \in Nat /\ (Len(t) + 1) - 1 <= Len(t)
  BY ONLY <1>1, b \in 1 .. Len(s)
<1>3. Attributes(t, b, Len(s) + 1)
  BY <1>1, <1>2, AttributesStay
<1>4. t[b][1] = "dates" /\ Tagged(t, b, Len(s) + 1)
  BY <1>3 DEF Attributes, Tagged
<1>5. \A k \in b + 1 .. (Len(t) + 1) - 1 : k = Len(t) \/ k \in b + 1 .. (Len(s) + 1) - 1
  BY ONLY <1>1, <1>2
<1>6. Tagged(t, b, Len(t) + 1)
  <2> SUFFICES ASSUME NEW k \in b + 1 .. (Len(t) + 1) - 1
               PROVE  t[k][1] = IF (k - b) % 2 = 1 THEN "tag" ELSE "value"
    BY DEF Tagged
  <2>1. CASE k = Len(t)
    BY <1>1, <2>1, Zenon
  <2>2. CASE k \in b + 1 .. (Len(s) + 1) - 1
    BY <1>4, <2>2, Zenon DEF Tagged
  <2> QED
    BY <1>5, <2>1, <2>2
<1> QED
  BY <1>2, <1>4, <1>6 DEF Attributes, Tagged

LEMMA OddEven ==
    ASSUME NEW b \in Nat, NEW m \in Nat
    PROVE  ((b + 2 * m + 0 + 1) - b) % 2 = 1 /\ ((b + 2 * m + 1 + 1) - b) % 2 # 1
<1>1. (b + 2 * m + 0 + 1) - b = 2 * m + 1 /\ (b + 2 * m + 1 + 1) - b = 2 * (m + 1)
  OBVIOUS
<1>2. (2 * m + 1) % 2 = 1 /\ (2 * (m + 1)) % 2 = 0
  OBVIOUS
<1> QED
  BY <1>1, <1>2

LEMMA TagOrValueComes ==
    ASSUME NEW s, NEW t, NEW x, Grows(s, t, x), NEW i \in Nat \ {0}, NEW left \in Nat,
           NEW f \in {0, 1}, x[1] = IF f = 0 THEN "tag" ELSE "value", AttributesComing(s, i, left, f)
    PROVE  AttributesComing(t, i, left, f + 1)
<1>1. s \in Seq(IdentityItem) /\ t \in Seq(IdentityItem) /\ Len(s) \in Nat /\ Len(t) = Len(s) + 1 /\ Extends(s, t)
  BY GrowsExtends DEF Grows
<1>2. PICK b \in 1 .. Len(s) : AttributesAt(s, i, b, left, f)
  BY <1>1, AttributesComingIs
<1>3. /\ HeadRead(s, i, b) /\ Attributes(s, b, Len(s) + 1) /\ s[b][3] \in Nat
      /\ left <= s[b][3] /\ Len(s) = b + 2 * (s[b][3] - left) + f
  BY <1>2 DEF AttributesAt
<1> DEFINE n == s[b][3]
           m == n - left
<1>n. n \in Nat /\ left <= n /\ Len(s) = b + 2 * (n - left) + f /\ Len(s) \in Nat /\ Len(t) = Len(s) + 1
  BY <1>1, <1>3
<1> HIDE DEF n
<1>4. b \in Nat \ {0} /\ b \in Nat /\ b \in 1 .. Len(t) /\ m \in Nat /\ b <= Len(s)
  BY ONLY <1>n, b \in 1 .. Len(s), left \in Nat
<1>5. /\ Len(t) = b + 2 * m + f + 1 /\ Len(t) = b + 2 * (n - left) + (f + 1)
  BY ONLY <1>n, <1>4, left \in Nat, f \in {0, 1}
<1> HIDE DEF m
<1>6. (Len(t) - b) % 2 = 1 <=> f = 0
  <2>1. CASE f = 0
    BY <1>4, <1>5, <2>1, OddEven
  <2>2. CASE f = 1
    BY <1>4, <1>5, <2>2, OddEven
  <2> QED
    BY <2>1, <2>2
<1>7. Attributes(t, b, Len(t) + 1)
  BY <1>3, <1>6, AttributesGrow
<1>8. HeadRead(t, i, b) /\ t[b] = s[b]
  BY <1>1, <1>3, <1>4, HeadReadStays, ItemStays
<1>9. AttributesAt(t, i, b, left, f + 1)
  BY <1>3, <1>4, <1>5, <1>7, <1>8 DEF AttributesAt, n
<1> QED
  BY <1>1, <1>4, <1>9, AttributesComingIs

LEMMA AttributeTaken ==
    ASSUME NEW s \in Seq(IdentityItem), NEW i, NEW left \in Nat \ {0}, AttributesComing(s, i, left, 2)
    PROVE  AttributesComing(s, i, left - 1, 0)
<1>1. PICK b \in 1 .. Len(s) : AttributesAt(s, i, b, left, 2)
  BY AttributesComingIs
<1>2. b \in Nat /\ s[b][3] \in Nat /\ left <= s[b][3] /\ Len(s) = b + 2 * (s[b][3] - left) + 2
  BY <1>1 DEF AttributesAt
<1>3. left - 1 <= s[b][3] /\ Len(s) = b + 2 * (s[b][3] - (left - 1)) + 0
  <2> DEFINE n == s[b][3]
             l == Len(s)
  <2>1. b \in Nat /\ n \in Nat /\ left <= n /\ l = b + 2 * (n - left) + 2 /\ left \in Nat \ {0}
    BY <1>2
  <2> HIDE DEF n, l
  <2>2. left - 1 <= n /\ l = b + 2 * (n - (left - 1)) + 0
    BY ONLY <2>1
  <2> QED
    BY <2>2 DEF n, l
<1>4. AttributesAt(s, i, b, left - 1, 0)
  BY <1>1, <1>3 DEF AttributesAt
<1> QED
  BY <1>4, AttributesComingIs

ProofsAt(s, i, b, e, left, embedded) ==
    /\ HeadRead(s, i, b) /\ Attributes(s, b, e) /\ e = b + 2 * s[b][3] + 1
    /\ \/ /\ e <= Len(s) /\ s[e][1] = "proofLength" /\ Are(s, e + 1, Len(s), "proof")
          /\ s[e][2] = CdataMax * (Len(s) - e) + left
       \/ ~embedded /\ Are(s, e, Len(s), "proof")

LEMMA ProofsComingIs ==
    ASSUME NEW s, NEW i, NEW left, NEW embedded
    PROVE  ProofsComing(s, i, left, embedded) <=>
              \E b \in 1 .. Len(s), e \in 1 .. Len(s) + 1 : ProofsAt(s, i, b, e, left, embedded)
  BY DEF ProofsComing, ProofsAt

\* All attributes have come: the proofs begin behind them.
LEMMA AttributesEnd ==
    ASSUME NEW s \in Seq(IdentityItem), NEW i, AttributesComing(s, i, 0, 0)
    PROVE  \E b \in 1 .. Len(s) : /\ HeadRead(s, i, b) /\ Attributes(s, b, Len(s) + 1)
                                  /\ Len(s) + 1 = b + 2 * s[b][3] + 1
<1>1. PICK b \in 1 .. Len(s) : AttributesAt(s, i, b, 0, 0)
  BY AttributesComingIs
<1>2. /\ HeadRead(s, i, b) /\ Attributes(s, b, Len(s) + 1) /\ s[b][3] \in Nat
      /\ Len(s) = b + 2 * (s[b][3] - 0) + 0
  BY <1>1 DEF AttributesAt
<1> DEFINE n == s[b][3]
<1>3. n \in Nat /\ Len(s) = b + 2 * (n - 0) + 0 /\ b \in Nat
  BY <1>2
<1> HIDE DEF n
<1>4. Len(s) + 1 = b + 2 * n + 1
  BY ONLY <1>3
<1> QED
  BY <1>2, <1>4 DEF n

LEMMA ProofsFollow ==
    ASSUME NEW s \in Seq(IdentityItem), NEW i, NEW left, AttributesComing(s, i, 0, 0)
    PROVE  ProofsComing(s, i, left, FALSE)
<1>1. PICK b \in 1 .. Len(s) : /\ HeadRead(s, i, b) /\ Attributes(s, b, Len(s) + 1)
                               /\ Len(s) + 1 = b + 2 * s[b][3] + 1
  BY AttributesEnd
<1>2. Len(s) + 1 \in 1 .. Len(s) + 1 /\ Len(s) + 1 .. Len(s) = {}
  OBVIOUS
<1>3. Are(s, Len(s) + 1, Len(s), "proof")
  BY <1>2 DEF Are
<1>4. ProofsAt(s, i, b, Len(s) + 1, left, FALSE)
  BY <1>1, <1>3, Zenon DEF ProofsAt
<1> QED
  BY <1>2, <1>4, ProofsComingIs

LEMMA ProofLengthComes ==
    ASSUME NEW s, NEW t, NEW n \in Nat, NEW i \in Nat \ {0}, NEW embedded, AttributesComing(s, i, 0, 0),
           Grows(s, t, <<"proofLength", n>>)
    PROVE  ProofsComing(t, i, n, embedded)
<1> DEFINE e == Len(s) + 1
<1>1. s \in Seq(IdentityItem) /\ Len(s) \in Nat /\ Len(t) = e /\ t[e] = <<"proofLength", n>> /\ Extends(s, t)
  BY GrowsExtends DEF Grows
<1>2. PICK b \in 1 .. Len(s) : /\ HeadRead(s, i, b) /\ Attributes(s, b, e)
                               /\ e = b + 2 * s[b][3] + 1
  BY <1>1, AttributesEnd
<1>3. b \in Nat \ {0} /\ b \in 1 .. Len(t) /\ e \in 1 .. Len(t) + 1 /\ e \in Nat /\ e <= Len(t)
      /\ Len(t) - e = 0 /\ e + 1 .. Len(t) = {}
  BY ONLY <1>1, b \in 1 .. Len(s)
<1> HIDE DEF e
<1>4. HeadRead(t, i, b) /\ Attributes(t, b, e) /\ t[b] = s[b]
  BY <1>1, <1>2, <1>3, HeadReadStays, AttributesStay
<1>5. Are(t, e + 1, Len(t), "proof")
  BY <1>3 DEF Are
<1>6. t[e][1] = "proofLength" /\ t[e][2] = CdataMax * (Len(t) - e) + n
  <2>1. CdataMax * 0 = 0 /\ 0 + n = n
    BY Limits
  <2> QED
    BY <1>1, <1>3, <2>1
<1>7. ProofsAt(t, i, b, e, n, embedded)
  BY <1>2, <1>3, <1>4, <1>5, <1>6 DEF ProofsAt
<1> QED
  BY <1>3, <1>7, ProofsComingIs

\* A packet of proofs, and the last one.
LEMMA ProofComes ==
    ASSUME NEW s, NEW t, NEW i \in Nat \ {0}, NEW left \in Nat, NEW n \in Nat, NEW embedded,
           ProofsComing(s, i, left, embedded), Grows(s, t, <<"proof", n>>)
    PROVE  /\ n = CdataMax => ProofsComing(t, i, left - CdataMax, embedded)
           /\ n = left => IsCredential(t, i, Len(t), embedded)
<1>1. /\ t \in Seq(IdentityItem) /\ Len(s) \in Nat /\ Len(t) = Len(s) + 1 /\ t[Len(t)] = <<"proof", n>>
      /\ Extends(s, t)
  BY GrowsExtends DEF Grows
<1>2. PICK b \in 1 .. Len(s), e \in 1 .. Len(s) + 1 : ProofsAt(s, i, b, e, left, embedded)
  BY ProofsComingIs
<1>3. HeadRead(s, i, b) /\ Attributes(s, b, e) /\ e = b + 2 * s[b][3] + 1
  BY <1>2 DEF ProofsAt
<1>4. /\ b \in Nat \ {0} /\ b \in 1 .. Len(t) /\ e \in 1 .. Len(t) + 1 /\ e \in Nat \ {0}
      /\ e + 1 \in Nat \ {0} /\ e <= Len(t) /\ Len(t) \in Nat
  BY ONLY <1>1, b \in 1 .. Len(s), e \in 1 .. Len(s) + 1
<1>5. HeadRead(t, i, b) /\ Attributes(t, b, e) /\ t[b] = s[b]
  <2>1. HeadRead(t, i, b)
    BY <1>1, <1>3, <1>4, HeadReadStays
  <2>2. Attributes(t, b, e) /\ t[b] = s[b]
    <3>1. Extends(s, t) /\ b \in Nat \ {0} /\ e \in Nat /\ Attributes(s, b, e)
      BY <1>1, <1>3, <1>4
    <3> QED
      BY ONLY <3>1, AttributesStay
  <2> QED
    BY <2>1, <2>2
<1>6. <<"proof", n>>[1] = "proof" /\ t[Len(t)][2] = n
  BY <1>1
<1>7. ASSUME e <= Len(s), s[e][1] = "proofLength", Are(s, e + 1, Len(s), "proof"),
             s[e][2] = CdataMax * (Len(s) - e) + left
      PROVE  /\ t[e][1] = "proofLength" /\ Are(t, e + 1, Len(t), "proof") /\ e < Len(t)
             /\ t[e][2] = CdataMax * (Len(t) - e - 1) + left
             /\ t[e][2] = CdataMax * (Len(t) - e) + (left - CdataMax)
  <2>0. t[e] = s[e] /\ e < Len(t)
    <3>1. e < Len(t)
      BY ONLY <1>1, <1>4, e <= Len(s)
    <3>2. t[e] = s[e]
      BY <1>1, <1>4, <1>7, ItemStays
    <3> QED
      BY <3>1, <3>2
  <2>1. Are(t, e + 1, Len(t), "proof")
    BY <1>4, <1>6, <1>7, AreGrows
  <2> DEFINE m == Len(s) - e
  <2>2. m \in Nat /\ Len(t) - e - 1 = m /\ Len(t) - e = m + 1
    BY ONLY <1>1, <1>4, e <= Len(s)
  <2> HIDE DEF m
  <2>3. CdataMax * (m + 1) + (left - CdataMax) = CdataMax * m + left
    BY <2>2, Limits
  <2>4. s[e][2] = CdataMax * m + left
    BY <1>7 DEF m
  <2> QED
    BY <1>7, <2>0, <2>1, <2>2, <2>3, <2>4
<1>8. ASSUME Are(s, e, Len(s), "proof") PROVE Are(t, e, Len(t), "proof")
  BY <1>4, <1>6, <1>8, AreGrows
<1>9. ASSUME n = CdataMax PROVE ProofsComing(t, i, left - CdataMax, embedded)
  <2>1. ProofsAt(t, i, b, e, left - CdataMax, embedded)
    BY <1>2, <1>3, <1>4, <1>5, <1>7, <1>8, Zenon DEF ProofsAt
  <2> QED
    BY <1>4, <2>1, ProofsComingIs
<1>10. ASSUME n = left PROVE IsCredential(t, i, Len(t), embedded)
  <2>1. ProofsWhole(t, e, Len(t), embedded)
    BY <1>2, <1>6, <1>7, <1>8, <1>10, Zenon DEF ProofsAt, ProofsWhole
  <2>2. i < b /\ b < e
    BY <1>3, <1>4, HeadReadIs DEF HeadAt, KeysRead, Attributes
  <2>3. b \in i .. Len(t) /\ e \in i .. Len(t) /\ Len(t) <= Len(t)
    BY ONLY <1>4, <2>2, i \in Nat \ {0}
  <2>4. e = b + 2 * t[b][3] + 1
    BY <1>3, <1>5
  <2> QED
    BY <1>1, <1>4, <1>5, <2>1, <2>3, <2>4, CredentialParts
<1> QED
  BY <1>9, <1>10

LEMMA DeploymentEnds ==
    ASSUME NEW s, NEW t, Extends(s, t), Len(t) = Len(s) + 2, IsCredential(s, 1, Len(s), FALSE),
           NEW tag, NEW v, t[Len(s) + 1] = <<"newOrExisting", tag>>, t[Len(s) + 2] = <<tag, v>>
    PROVE  IsDeployment(t)
<1>1. Len(s) \in Nat /\ Len(t) \in Nat /\ Len(t) - 2 = Len(s) /\ Len(t) - 1 = Len(s) + 1 /\ 1 \in Nat \ {0}
  BY DEF Extends
<1>2. Len(s) # 0
  BY <1>1 DEF IsCredential
<1>3. IsCredential(t, 1, Len(s), FALSE)
  <2>1. Len(s) <= Len(s)
    BY <1>1
  <2> QED
    BY <1>1, <2>1, CredentialStays, Zenon
<1>4. t[Len(t)][1] = tag /\ t[Len(t) - 1] = <<"newOrExisting", tag>>
  BY <1>1
<1>5. Len(t) > 2
  BY ONLY <1>1, <1>2
<1> QED
  BY <1>1, <1>3, <1>4, <1>5, Zenon DEF IsDeployment

-----------------------------------------------------------------------------
(* One packet more of an update. *)

LEMMA StartsGrow ==
    ASSUME NEW s, NEW t, Extends(s, t)
    PROVE  /\ Starts(s) \subseteq Starts(t) /\ Starts(s) \subseteq 1 .. Len(s)
           /\ \A i \in Starts(t) : i \in 1 .. Len(t) /\ (i <= Len(s) => i \in Starts(s))
           /\ (\A k \in Len(s) + 1 .. Len(t) : t[k][1] # "credentialIndex") => Starts(t) = Starts(s)
<1>1. DOMAIN s = 1 .. Len(s) /\ DOMAIN t = 1 .. Len(t) /\ Len(s) \in Nat /\ Len(t) \in Nat /\ Len(s) <= Len(t)
  BY DEF Extends
<1>2. \A k \in 1 .. Len(t) : k \in 1 .. Len(s) \/ (k \in Len(s) + 1 .. Len(t) /\ ~(k <= Len(s)))
  BY ONLY <1>1
<1>3. \A k \in 1 .. Len(s) : k \in 1 .. Len(t) /\ t[k] = s[k] /\ k <= Len(s)
  BY <1>1 DEF Extends
<1> QED
  BY <1>1, <1>2, <1>3 DEF Starts

LEMMA AddedStays ==
    ASSUME NEW s, NEW t, Extends(s, t), NEW z \in Nat, z <= Len(s) + 1, Added(s, z)
    PROVE  Added(t, z)
<1>0. Len(s) \in Nat
  BY DEF Extends
<1>1. 4 \in Starts(t) \cup {z}
  BY StartsGrow DEF Added
<1>2. ASSUME NEW i \in Starts(t), i < z
      PROVE  \E e \in i + 1 .. z - 1 : e + 1 \in Starts(t) \cup {z} /\ IsCredential(t, i + 1, e, TRUE)
  <2>1. i \in Nat \ {0} /\ i <= Len(s)
    <3>1. i \in 1 .. Len(t) /\ Len(t) \in Nat
      BY StartsGrow DEF Extends
    <3> QED
      BY ONLY <1>0, <3>1, i < z, z \in Nat, z <= Len(s) + 1
  <2>2. i \in Starts(s)
    BY <2>1, StartsGrow
  <2>3. PICK e \in i + 1 .. z - 1 : e + 1 \in Starts(s) \cup {z} /\ IsCredential(s, i + 1, e, TRUE)
    BY <1>2, <2>2 DEF Added
  <2>4. i + 1 \in Nat \ {0} /\ e \in Nat /\ e <= Len(s)
    BY ONLY <1>0, <2>1, z \in Nat, z <= Len(s) + 1, e \in i + 1 .. z - 1
  <2>5. IsCredential(t, i + 1, e, TRUE)
    BY <2>3, <2>4, CredentialStays
  <2>6. e + 1 \in Starts(t) \cup {z}
    BY <2>3, StartsGrow
  <2> QED
    BY <2>5, <2>6
<1> QED
  BY <1>1, <1>2 DEF Added

LEMMA HeadStays ==
    ASSUME NEW s, NEW t, Extends(s, t), NEW left, UpdateHead(s, left), Starts(t) = Starts(s)
    PROVE  UpdateHead(t, left)
<1>1. Len(s) >= 3 /\ Len(t) >= 3 /\ Len(s) \in Nat
  BY DEF Extends, UpdateHead
<1>2. t[1] = s[1] /\ t[2] = s[2] /\ t[3] = s[3]
  BY <1>1, ItemStays
<1> QED
  BY <1>1, <1>2 DEF UpdateHead

LEMMA IndexComes ==
    ASSUME NEW s, NEW t, NEW v, Grows(s, t, <<"credentialIndex", v>>), NEW left \in Nat \ {0},
           UpdateHead(s, left), Added(s, Len(s) + 1)
    PROVE  /\ UpdateHead(t, left - 1)
           /\ \E j \in Starts(t) : /\ \A i \in Starts(t) : i <= j
                                   /\ Added(t, j) /\ Len(t) = (j + 1) - 1
<1>1. /\ Extends(s, t) /\ Len(s) \in Nat /\ Len(t) = Len(s) + 1
      /\ t \in Seq(IdentityItem) /\ t[Len(t)] = <<"credentialIndex", v>>
  BY GrowsExtends DEF Grows
<1>2. DOMAIN t = 1 .. Len(t) /\ Len(t) \in 1 .. Len(t) /\ t[Len(t)][1] = "credentialIndex"
  BY <1>1
<1>3. Len(t) \in Starts(t) /\ Starts(s) \subseteq Starts(t) /\ Starts(s) \subseteq 1 .. Len(s)
  BY <1>1, <1>2, StartsGrow DEF Starts
<1>4. ASSUME NEW i \in Starts(t) PROVE i \in 1 .. Len(t) /\ (i # Len(t) => i \in Starts(s))
  <2>1. i \in 1 .. Len(t) /\ (i <= Len(s) => i \in Starts(s))
    BY <1>1, StartsGrow
  <2>2. i # Len(t) => i <= Len(s)
    BY ONLY <1>1, <2>1
  <2> QED
    BY <2>1, <2>2
<1>5. Starts(t) = Starts(s) \cup {Len(t)} /\ Len(t) \notin Starts(s)
  <2>1. Len(t) \notin 1 .. Len(s)
    BY <1>1
  <2> QED
    BY <1>3, <1>4, <2>1
<1>6. IsFiniteSet(Starts(s)) /\ Cardinality(Starts(s)) \in Nat
  <2>1. 1 \in Int /\ Len(s) \in Int
    BY <1>1
  <2>2. IsFiniteSet(1 .. Len(s))
    BY <2>1, FS_Interval
  <2>3. IsFiniteSet(Starts(s))
    BY <1>3, <2>2, FS_Subset
  <2> QED
    BY <2>3, FS_CardinalityType
<1>7. Cardinality(Starts(t)) = Cardinality(Starts(s)) + 1
  BY <1>5, <1>6, FS_AddElement
<1>8. UpdateHead(t, left - 1)
  <2>1. Len(s) >= 3 /\ Len(t) >= 3
    BY <1>1 DEF UpdateHead
  <2>2. t[1] = s[1] /\ t[2] = s[2] /\ t[3] = s[3]
    BY <1>1, <2>1, ItemStays
  <2>3. Cardinality(Starts(t)) + (left - 1) = Cardinality(Starts(s)) + left
    BY ONLY <1>6, <1>7, left \in Nat \ {0}
  <2> QED
    BY <2>1, <2>2, <2>3 DEF UpdateHead
<1>9. Added(t, Len(t))
  BY <1>1, AddedStays
<1>10. Len(t) = (Len(t) + 1) - 1 /\ \A i \in Starts(t) : i <= Len(t)
  BY <1>1, <1>4
<1> QED
  BY <1>3, <1>8, <1>9, <1>10

\* The credential that is added goes on, or is taken.
LEMMA AddedGoesOn ==
    ASSUME NEW s, NEW t, Extends(s, t), \A k \in Len(s) + 1 .. Len(t) : t[k][1] # "credentialIndex",
           NEW c, NEW d, NEW st, NEW st2, CredentialAdded(s, c, st),
           \A i \in Nat \ {0} : CredentialSoFar(s, i, c, st, TRUE) => CredentialSoFar(t, i, d, st2, TRUE)
    PROVE  CredentialAdded(t, d, st2)
<1>1. PICK j \in Starts(s) : /\ \A i \in Starts(s) : i <= j
                             /\ Added(s, j) /\ CredentialSoFar(s, j + 1, c, st, TRUE)
  BY DEF CredentialAdded
<1>2. Starts(t) = Starts(s) /\ j \in 1 .. Len(s) /\ Len(s) \in Nat
  BY StartsGrow DEF Extends
<1>3. j \in Nat /\ j <= Len(s) + 1 /\ j + 1 \in Nat \ {0}
  BY <1>2
<1>4. Added(t, j) /\ CredentialSoFar(t, j + 1, d, st2, TRUE)
  BY <1>1, <1>3, AddedStays
<1> QED
  BY <1>1, <1>2, <1>4 DEF CredentialAdded

LEMMA CredentialTaken ==
    ASSUME NEW s \in Seq(IdentityItem), NEW c, CredentialAdded(s, c, "NEW_OR_EXISTING")
    PROVE  Added(s, Len(s) + 1)
<1>1. PICK j \in Starts(s) : /\ \A i \in Starts(s) : i <= j
                             /\ Added(s, j) /\ IsCredential(s, j + 1, Len(s), TRUE)
  BY DEF CredentialAdded, CredentialSoFar
<1>2. Starts(s) \subseteq 1 .. Len(s) /\ Len(s) \in Nat /\ j \in 1 .. Len(s)
  BY DEF Starts
<1>3. \A e \in j + 1 .. j - 1 : FALSE
  BY <1>2
<1>4. 4 \in Starts(s) \cup {Len(s) + 1}
  BY <1>1 DEF Added
<1>5. ASSUME NEW i \in Starts(s)
      PROVE  \E e \in i + 1 .. (Len(s) + 1) - 1 :
                e + 1 \in Starts(s) \cup {Len(s) + 1} /\ IsCredential(s, i + 1, e, TRUE)
  <2>1. CASE i = j
    <3>1. \E a \in j + 1 .. Len(s) : TRUE
      BY <1>1 DEF IsCredential
    <3>2. Len(s) \in i + 1 .. (Len(s) + 1) - 1
      BY <1>2, <2>1, <3>1
    <3> QED
      BY <1>1, <2>1, <3>2
  <2>2. CASE i # j
    <3>1. i < j
      BY <1>1, <1>2, <2>2
    <3>2. PICK e \in i + 1 .. j - 1 : e + 1 \in Starts(s) \cup {j} /\ IsCredential(s, i + 1, e, TRUE)
      BY <1>1, <3>1 DEF Added
    <3>3. e \in i + 1 .. (Len(s) + 1) - 1 /\ e + 1 \in Starts(s) \cup {Len(s) + 1}
      BY <1>2, <3>2
    <3> QED
      BY <3>2, <3>3
  <2> QED
    BY <2>1, <2>2
<1> QED
  BY <1>4, <1>5 DEF Added

LEMMA IdCountComes ==
    ASSUME NEW s, NEW t, NEW n \in Nat, Grows(s, t, <<"idCount", n>>), UpdateHead(s, 0), Added(s, Len(s) + 1),
           NEW d, d.idsLeft = n
    PROVE  UpdateHead(t, 0) /\ IdsComing(t, d)
<1> DEFINE z == Len(s) + 1
<1>1. /\ Extends(s, t) /\ Len(s) \in Nat /\ Len(t) = z /\ DOMAIN t = 1 .. Len(t)
      /\ t[z] = <<"idCount", n>>
  BY GrowsExtends DEF Grows
<1>2. \A k \in Len(s) + 1 .. Len(t) : k = z
  BY ONLY <1>1
<1>3. t[z][1] # "credentialIndex"
  BY <1>1
<1>4. Starts(t) = Starts(s) /\ Starts(s) \subseteq 1 .. Len(s)
  BY <1>1, <1>2, <1>3, StartsGrow
<1>5. UpdateHead(t, 0)
  BY <1>1, <1>4, HeadStays
<1>6. \A i \in 1 .. Len(s) : i < z
  BY <1>1
<1>7. z \in DOMAIN t /\ z \in Nat /\ z <= Len(s) + 1 /\ Len(t) - z + n = n /\ z + 1 .. Len(t) = {}
  BY <1>1
<1> HIDE DEF z
<1>8. Added(t, z)
  BY <1>1, <1>7, AddedStays DEF z
<1>9. t[z] = <<"idCount", Len(t) - z + d.idsLeft>> /\ Are(t, z + 1, Len(t), "credId")
  BY <1>1, <1>7 DEF Are
<1> QED
  BY <1>4, <1>5, <1>6, <1>7, <1>8, <1>9 DEF IdsComing

LEMMA IdComes ==
    ASSUME NEW s, NEW t, NEW v, Grows(s, t, <<"credId", v>>), NEW c, NEW d, NEW left \in Nat \ {0},
           c.idsLeft = left, d.idsLeft = left - 1, UpdateHead(s, 0), IdsComing(s, c)
    PROVE  UpdateHead(t, 0) /\ IdsComing(t, d)
<1>1. /\ Extends(s, t) /\ Len(s) \in Nat /\ Len(t) = Len(s) + 1 /\ t[Len(t)] = <<"credId", v>>
      /\ DOMAIN s = 1 .. Len(s) /\ DOMAIN t = 1 .. Len(t)
  BY GrowsExtends DEF Grows
<1>2. \A k \in Len(s) + 1 .. Len(t) : k = Len(t)
  BY ONLY <1>1
<1>3. t[Len(t)][1] # "credentialIndex" /\ <<"credId", v>>[1] = "credId"
  BY <1>1
<1>4. Starts(t) = Starts(s)
  BY <1>1, <1>2, <1>3, StartsGrow
<1>5. UpdateHead(t, 0)
  BY <1>1, <1>4, HeadStays
<1>6. PICK z \in DOMAIN s :
        /\ \A i \in Starts(s) : i < z
        /\ Added(s, z) /\ s[z] = <<"idCount", Len(s) - z + left>>
        /\ Are(s, z + 1, Len(s), "credId")
  BY DEF IdsComing
<1>7. z \in Nat \ {0} /\ z <= Len(s) /\ z <= Len(s) + 1 /\ z \in 1 .. Len(t) /\ z + 1 \in Nat \ {0}
      /\ Len(t) - z + (left - 1) = Len(s) - z + left
  BY ONLY <1>1, z \in DOMAIN s, left \in Nat \ {0}
<1>8. Added(t, z) /\ t[z] = s[z]
  BY <1>1, <1>6, <1>7, AddedStays, ItemStays
<1>9. Are(t, z + 1, Len(t), "credId")
  BY <1>3, <1>6, <1>7, AreGrows
<1> QED
  BY <1>1, <1>4, <1>5, <1>6, <1>7, <1>8, <1>9 DEF IdsComing

LEMMA UpdateEnds ==
    ASSUME NEW s, NEW t, NEW v, Grows(s, t, <<"threshold", v>>), NEW c, c.idsLeft = 0,
           UpdateHead(s, 0), IdsComing(s, c)
    PROVE  IsUpdate(t)
<1>1. /\ Extends(s, t) /\ Len(s) \in Nat /\ Len(t) = Len(s) + 1 /\ t[Len(t)] = <<"threshold", v>>
      /\ DOMAIN s = 1 .. Len(s) /\ DOMAIN t = 1 .. Len(t)
  BY GrowsExtends DEF Grows
<1>2. \A k \in Len(s) + 1 .. Len(t) : k = Len(t)
  BY ONLY <1>1
<1>3. t[Len(t)][1] # "credentialIndex" /\ t[Len(t)][1] = "threshold"
  BY <1>1
<1>4. Starts(t) = Starts(s)
  BY <1>1, <1>2, <1>3, StartsGrow
<1>5. UpdateHead(t, 0)
  BY <1>1, <1>4, HeadStays
<1>6. PICK z \in DOMAIN s :
        /\ \A i \in Starts(s) : i < z
        /\ Added(s, z) /\ s[z] = <<"idCount", Len(s) - z + 0>>
        /\ Are(s, z + 1, Len(s), "credId")
  BY DEF IdsComing
<1>7. /\ z \in Nat \ {0} /\ z <= Len(s) /\ z <= Len(s) + 1 /\ z \in 1 .. Len(t) /\ z + 1 \in Nat \ {0}
      /\ Len(s) = Len(t) - 1 /\ Len(t) = z + (Len(s) - z + 0) + 1 /\ Len(s) <= Len(s)
  BY ONLY <1>1, z \in DOMAIN s
<1>8. Added(t, z) /\ t[z] = s[z]
  <2>1. Added(t, z)
    BY <1>1, <1>6, <1>7, AddedStays
  <2>2. t[z] = s[z]
    <3>1. z \in 1 .. Len(s)
      BY <1>1
    <3> QED
      BY <1>1, <3>1 DEF Extends
  <2> QED
    BY <2>1, <2>2
<1>9. Are(t, z + 1, Len(t) - 1, "credId")
  BY <1>1, <1>6, <1>7, AreStays
<1>10. t[z][1] = "idCount" /\ t[z][2] = Len(s) - z + 0
  BY <1>6, <1>8
<1>11. IsFiniteSet(Starts(t)) /\ Cardinality(Starts(t)) + 0 = Cardinality(Starts(t))
  <2>1. 1 \in Int /\ Len(s) \in Int /\ Starts(s) \subseteq 1 .. Len(s)
    BY <1>1, StartsGrow
  <2>2. IsFiniteSet(Starts(t))
    BY <1>4, <2>1, FS_Interval, FS_Subset
  <2>3. Cardinality(Starts(t)) \in Nat
    BY <2>2, FS_CardinalityType
  <2> QED
    BY <2>2, <2>3
<1>12. Len(t) > 4
  <2>1. Len(s) >= 3 /\ 4 \in Starts(s) \cup {z}
    BY <1>6 DEF UpdateHead, Added
  <2>2. 4 <= Len(s)
    BY <1>1, <1>7, <2>1, StartsGrow
  <2> QED
    BY ONLY <1>1, <2>2
<1>13. \A i \in Starts(t) : \E e \in i + 1 .. z - 1 :
          e + 1 \in Starts(t) \cup {z} /\ IsCredential(t, i + 1, e, TRUE)
  BY <1>4, <1>6, <1>8 DEF Added
<1>14. Starts(t) = {i \in DOMAIN t : t[i][1] = "credentialIndex"} /\ 4 \in Starts(t) \cup {z}
  BY <1>8 DEF Starts, Added
<1>15. t[1][1] = "header" /\ t[2] = <<"kind", UPDATECRED>> /\ t[3] = <<"credentialCount", Cardinality(Starts(t))>>
  BY <1>5, <1>11 DEF UpdateHead
<1>16. z \in DOMAIN t /\ Len(t) = z + t[z][2] + 1
  BY <1>1, <1>7, <1>10
<1> QED
  BY <1>3, <1>9, <1>10, <1>12, <1>13, <1>14, <1>15, <1>16, Zenon DEF IsUpdate

LEMMA UpdateBegins ==
    ASSUME NEW t \in Seq(IdentityItem), Len(t) = 3, NEW n \in Nat, t[1][1] = "header",
           t[2] = <<"kind", UPDATECRED>>, t[3] = <<"credentialCount", n>>
    PROVE  UpdateHead(t, n) /\ Added(t, Len(t) + 1)
<1>1. \A k \in DOMAIN t : k = 1 \/ k = 2 \/ k = 3
  OBVIOUS
<1>2. t[2][1] = "kind" /\ t[3][1] = "credentialCount"
  OBVIOUS
<1>3. Starts(t) = {}
  BY <1>1, <1>2 DEF Starts
<1>4. Cardinality(Starts(t)) + n = n
  BY <1>3, FS_EmptySet
<1>5. Len(t) + 1 = 4
  OBVIOUS
<1> QED
  BY <1>3, <1>4, <1>5 DEF UpdateHead, Added

-----------------------------------------------------------------------------
(* The information for the identity provider. *)

IpContexts ==
    {c \in [view : {"ip"}, state : IpStates, keysLeft : 0 .. KeysMax, showIntro : BOOLEAN,
            ids : Vals \cup {"none"}, key : Vals \cup {"none"}, threshold : Vals \cup {"none"}] :
        c.state = "THRESHOLD" => c.keysLeft = 0 /\ c.key \in Vals}

LEMMA IpFields ==
    ASSUME NEW c \in IpContexts
    PROVE  /\ c.view = "ip" /\ c.state \in IpStates /\ c.keysLeft \in 0 .. KeysMax /\ c.keysLeft \in Nat
           /\ c.showIntro \in BOOLEAN
           /\ c.ids \in Vals \cup {"none"} /\ c.key \in Vals \cup {"none"} /\ c.threshold \in Vals \cup {"none"}
           /\ c.state = "THRESHOLD" => c.keysLeft = 0 /\ c.key \in Vals
           /\ c # Wiped
<1>1. c # Wiped
  BY DEF IpContexts, Wiped
<1>2. /\ c.view = "ip" /\ c.state \in IpStates /\ c.keysLeft \in 0 .. KeysMax
      /\ c.showIntro \in BOOLEAN
      /\ c.ids \in Vals \cup {"none"} /\ c.key \in Vals \cup {"none"} /\ c.threshold \in Vals \cup {"none"}
      /\ c.state = "THRESHOLD" => c.keysLeft = 0 /\ c.key \in Vals
  BY DEF IpContexts
<1>3. c.keysLeft \in Nat
  BY <1>2, KeysAssumption
<1> QED
  BY <1>1, <1>2, <1>3

IpZeroAt(st) == [IpZero EXCEPT !.state = st]

LEMMA IpZeroKnown == IpZero \in IpContexts /\ IpZeroAt("INITIAL") \in IpContexts
<1>1. 0 \in 0 .. KeysMax
  BY KeysAssumption
<1> QED
  BY <1>1 DEF IpContexts, IpZero, IpZeroAt, IpStates

\* The rows of a transcript and one item more.
LEMMA IpRowsGrow ==
    ASSUME NEW s, NEW t, NEW x, Grows(s, t, x)
    PROVE  IpRows(t) \subseteq IpRows(s) \cup {y \in {x} : y[1] \notin {"keyCount", "keyIndex"}}
<1>1. ASSUME NEW k \in DOMAIN t PROVE t[k] = x \/ t[k] \in ItemsOf(s)
  BY DEF Grows, ItemsOf
<1> QED
  BY <1>1 DEF IpRows, ItemsOf

\* What IpSoFar says of the transcript alone.
IpShape(s, left) ==
    /\ Len(s) >= 3 /\ s[1][1] = "idCredPub" /\ s[2][1] = "credId" /\ s[3][1] = "keyCount"
    /\ Len(s) = 3 + 3 * (s[3][2] - left) /\ left <= s[3][2]
    /\ \A k \in 1 .. Len(s) - 3 : s[k + 3][1] = KeyTag(k)

LEMMA CountItem ==
    ASSUME NEW x \in IdentityItem, x[1] = "keyCount" PROVE x[2] \in Nat
<1>1. x \notin {"header"} \X Headers /\ x # <<"kind", UPDATECRED>>
  OBVIOUS
<1>2. x \notin ValueTags \X Vals
  BY DEF ValueTags
<1>3. x \notin {"arThreshold", "dates"} \X Vals \X Nat
  OBVIOUS
<1>4. x \notin {"identityProvider"} \X Providers /\ x \notin {"newOrExisting"} \X {"expiry", "address"}
  OBVIOUS
<1>5. x \in CountTags \X Nat
  BY <1>1, <1>2, <1>3, <1>4 DEF IdentityItem
<1> QED
  BY <1>5

LEMMA Thirds ==
    ASSUME NEW m \in Nat
    PROVE  /\ KeyTag(3 * m + 1) = "keyType" /\ KeyTag(3 * m + 2) = "keyIndex" /\ KeyTag(3 * m + 3) = "key"
<1>1. (3 * m + 1) % 3 = 1 /\ (3 * m + 2) % 3 = 2 /\ (3 * m + 3) % 3 = 0
  OBVIOUS
<1> QED
  BY <1>1 DEF KeyTag

LEMMA IpKeyComes ==
    ASSUME NEW s, NEW t, Extends(s, t), Len(t) = Len(s) + 3, NEW left \in Nat \ {0}, IpShape(s, left),
           t[Len(s) + 1][1] = "keyType", t[Len(s) + 2][1] = "keyIndex", t[Len(s) + 3][1] = "key"
    PROVE  IpShape(t, left - 1) /\ t[3][2] = s[3][2] /\ t[3][2] > 0
<1>1. Len(s) \in Nat /\ Len(s) >= 3 /\ s \in Seq(IdentityItem)
  BY DEF Extends, IpShape
<1>2. s[3] \in IdentityItem /\ s[3][1] = "keyCount"
  BY <1>1 DEF IpShape
<1> DEFINE n == s[3][2]
           m == n - left
<1>3. n \in Nat /\ Len(s) = 3 + 3 * (n - left) /\ left <= n
  BY <1>2, CountItem DEF IpShape
<1>4. t[1] = s[1] /\ t[2] = s[2] /\ t[3] = s[3]
  BY <1>1, ItemStays
<1> HIDE DEF n
<1>5. m \in Nat /\ Len(s) = 3 + 3 * m /\ Len(t) = 3 + 3 * (n - (left - 1)) /\ left - 1 <= n /\ n > 0
  BY ONLY <1>1, <1>3, left \in Nat \ {0}, Len(t) = Len(s) + 3
<1> HIDE DEF m
<1>6. ASSUME NEW k \in 1 .. Len(t) - 3 PROVE t[k + 3][1] = KeyTag(k)
  <2>1. k \in 1 .. Len(s) - 3 \/ k = 3 * m + 1 \/ k = 3 * m + 2 \/ k = 3 * m + 3
    BY ONLY <1>5, k \in 1 .. Len(t) - 3, Len(t) = Len(s) + 3
  <2>2. CASE k \in 1 .. Len(s) - 3
    <3>1. k + 3 \in Nat \ {0} /\ k + 3 <= Len(s)
      BY ONLY <1>1, <2>2
    <3>2. t[k + 3] = s[k + 3]
      BY <3>1, ItemStays
    <3> QED
      BY <2>2, <3>2 DEF IpShape
  <2>3. CASE k = 3 * m + 1
    <3>1. k + 3 = Len(s) + 1
      BY ONLY <1>5, <2>3
    <3> QED
      BY <1>5, <2>3, <3>1, Thirds
  <2>4. CASE k = 3 * m + 2
    <3>1. k + 3 = Len(s) + 2
      BY ONLY <1>5, <2>4
    <3> QED
      BY <1>5, <2>4, <3>1, Thirds
  <2>5. CASE k = 3 * m + 3
    <3>1. k + 3 = Len(s) + 3
      BY ONLY <1>5, <2>5
    <3> QED
      BY <1>5, <2>5, <3>1, Thirds
  <2> QED
    BY <2>1, <2>2, <2>3, <2>4, <2>5
<1>7. Len(t) >= 3
  BY <1>1
<1>8. s[1][1] = "idCredPub" /\ s[2][1] = "credId" /\ s[3][1] = "keyCount"
  BY DEF IpShape
<1> QED
  BY <1>4, <1>5, <1>6, <1>7, <1>8 DEF IpShape, n

LEMMA ConcatParts ==
    ASSUME NEW X, NEW s \in Seq(X), NEW t \in Seq(X)
    PROVE  /\ s \o t \in Seq(X) /\ Len(s \o t) = Len(s) + Len(t)
           /\ \A i \in 1 .. Len(s) : (s \o t)[i] = s[i]
           /\ \A i \in 1 .. Len(t) : (s \o t)[Len(s) + i] = t[i]
<1>1. s \o t \in Seq(X) /\ Len(s \o t) = Len(s) + Len(t)
  OBVIOUS
<1>2. ASSUME NEW i \in 1 .. Len(s) PROVE (s \o t)[i] = s[i]
  OBVIOUS
<1>3. ASSUME NEW i \in 1 .. Len(t) PROVE (s \o t)[Len(s) + i] = t[i]
  <2>1. Len(s) + i \in 1 .. Len(s) + Len(t) /\ ~(Len(s) + i <= Len(s)) /\ (Len(s) + i) - Len(s) = i
    OBVIOUS
  <2> QED
    BY <2>1
<1> QED
  BY <1>1, <1>2, <1>3

LEMMA PublicInfoEnds ==
    ASSUME NEW s, NEW t, NEW v, Grows(s, t, <<"threshold", v>>), IpShape(s, 0), s[3][2] > 0
    PROVE  IsPublicInfo(t)
<1>1. /\ Len(s) \in Nat /\ Len(s) >= 3 /\ s \in Seq(IdentityItem) /\ t \in Seq(IdentityItem)
      /\ Extends(s, t) /\ Len(t) = Len(s) + 1 /\ t[Len(t)] = <<"threshold", v>>
  BY GrowsExtends DEF Grows, IpShape
<1>2. s[3] \in IdentityItem /\ s[3][1] = "keyCount"
  BY <1>1 DEF IpShape
<1> DEFINE n == s[3][2]
           H == <<"idCredPub", "credId", "keyCount">>
           K == [i \in 1 .. 3 * n |->
                    CASE i % 3 = 1 -> "keyType" [] i % 3 = 2 -> "keyIndex" [] OTHER -> "key"]
           E == <<"threshold">>
           Tags == {"idCredPub", "credId", "keyCount", "keyType", "keyIndex", "key", "threshold"}
           W == H \o K \o E
           F == [i \in DOMAIN t |-> t[i][1]]
<1>3. n \in Nat /\ n > 0 /\ Len(s) = 3 + 3 * (n - 0)
  BY <1>2, CountItem DEF IpShape
<1>4. t[1] = s[1] /\ t[2] = s[2] /\ t[3] = s[3]
  BY <1>1, ItemStays
<1>5. \A k \in 1 .. Len(s) - 3 : s[k + 3][1] = KeyTag(k)
  BY DEF IpShape
<1>6. K = [i \in 1 .. 3 * n |-> KeyTag(i)]
  BY DEF KeyTag
<1> HIDE DEF n, K
<1>7. 3 * n \in Nat /\ \A i \in 1 .. 3 * n : KeyTag(i) \in Tags
  BY <1>3 DEF KeyTag
<1>8. K \in Seq(Tags) /\ Len(K) = 3 * n /\ \A i \in 1 .. 3 * n : K[i] = KeyTag(i)
  BY <1>6, <1>7
<1>9. /\ H \in Seq(Tags) /\ Len(H) = 3 /\ H[1] = "idCredPub" /\ H[2] = "credId" /\ H[3] = "keyCount"
      /\ E \in Seq(Tags) /\ Len(E) = 1 /\ E[1] = "threshold"
  OBVIOUS
<1> HIDE DEF H, E, Tags
<1>10. /\ W \in Seq(Tags) /\ Len(W) = 3 + 3 * n + 1
       /\ \A i \in 1 .. 3 : W[i] = H[i]
       /\ \A i \in 1 .. 3 * n : W[i + 3] = K[i]
       /\ W[3 + 3 * n + 1] = "threshold"
  <2> DEFINE U == H \o K
  <2>1. /\ U \in Seq(Tags) /\ Len(U) = Len(H) + Len(K)
        /\ \A i \in 1 .. Len(H) : U[i] = H[i]
        /\ \A i \in 1 .. Len(K) : U[Len(H) + i] = K[i]
    <3>1. H \in Seq(Tags) /\ K \in Seq(Tags)
      BY <1>8, <1>9
    <3>2. /\ H \o K \in Seq(Tags) /\ Len(H \o K) = Len(H) + Len(K)
          /\ \A i \in 1 .. Len(H) : (H \o K)[i] = H[i]
          /\ \A i \in 1 .. Len(K) : (H \o K)[Len(H) + i] = K[i]
      BY ONLY <3>1, ConcatParts
    <3> QED
      BY ONLY <3>2
  <2> HIDE DEF U
  <2>2. ASSUME NEW i \in 1 .. 3 * n PROVE U[i + 3] = K[i]
    <3>1. i + 3 = 3 + i
      BY <1>7
    <3> QED
      BY <1>8, <1>9, <2>1, <3>1
  <2>3. W = U \o E
    BY DEF U
  <2>4. /\ U \o E \in Seq(Tags) /\ Len(U \o E) = Len(U) + Len(E)
        /\ \A i \in 1 .. Len(U) : (U \o E)[i] = U[i]
        /\ \A i \in 1 .. Len(E) : (U \o E)[Len(U) + i] = E[i]
    <3>1. U \in Seq(Tags) /\ E \in Seq(Tags)
      BY <1>9, <2>1
    <3> QED
      BY ONLY <3>1, ConcatParts
  <2>u. Len(U) = 3 + 3 * n /\ Len(E) = 1 /\ 1 \in 1 .. 1
    BY <1>8, <1>9, <2>1
  <2>5. (U \o E)[3 + 3 * n + 1] = E[1]
    BY <2>4, <2>u
  <2>6. /\ \A i \in 1 .. 3 : i \in 1 .. 3 + 3 * n
        /\ \A i \in 1 .. 3 * n : i + 3 \in 1 .. 3 + 3 * n
    BY <1>7
  <2> QED
    BY <1>9, <2>1, <2>2, <2>3, <2>4, <2>5, <2>6, <2>u
<1> HIDE DEF W
<1>11. Len(t) = 3 + 3 * n + 1 /\ DOMAIN t = 1 .. Len(t)
  BY <1>1, <1>3
<1>12. ASSUME NEW i \in 1 .. Len(t) PROVE t[i][1] = W[i]
  <2>1. i \in 1 .. 3 \/ (i - 3 \in 1 .. 3 * n /\ (i - 3) + 3 = i) \/ i = 3 + 3 * n + 1
    BY ONLY <1>7, <1>11, i \in 1 .. Len(t)
  <2>2. CASE i \in 1 .. 3
    <3>1. i = 1 \/ i = 2 \/ i = 3
      BY <2>2
    <3> QED
      BY <1>4, <1>9, <1>10, <2>2, <3>1 DEF IpShape
  <2>3. CASE i - 3 \in 1 .. 3 * n /\ (i - 3) + 3 = i
    <3>1. i - 3 \in 1 .. Len(s) - 3 /\ i \in Nat \ {0} /\ i <= Len(s)
      BY <1>3, <1>7, <2>3
    <3>2. t[i] = s[i]
      BY <1>1, <3>1, ItemStays
    <3>3. s[(i - 3) + 3][1] = KeyTag(i - 3) /\ W[(i - 3) + 3] = KeyTag(i - 3)
      BY <1>5, <1>8, <1>10, <2>3, <3>1
    <3> QED
      BY <2>3, <3>2, <3>3
  <2>4. CASE i = 3 + 3 * n + 1
    BY <1>1, <1>10, <1>11, <2>4
  <2> QED
    BY <2>1, <2>2, <2>3, <2>4
<1>13. F = [i \in 1 .. Len(t) |-> W[i]]
  BY <1>11, <1>12
<1>14. W = [i \in 1 .. Len(t) |-> W[i]]
  BY <1>10, <1>11
<1> HIDE DEF F
<1>15. F = W
  BY <1>13, <1>14
<1>16. Len(t) > 3 /\ t[3][1] = "keyCount" /\ t[3][2] = n
  BY <1>2, <1>3, <1>4, <1>11 DEF n
<1> QED
  BY <1>3, <1>15, <1>16, Zenon DEF IsPublicInfo, F, W, H, K, E

-----------------------------------------------------------------------------
(* What the union holds, and which review can be up (NBGL and BAGL alike). *)

Typed ==
    /\ latch \in IdentityInss \cup {NONE, "GET_APP_NAME"}
    /\ ctx \in Credentials \cup IpContexts \cup {Wiped}
    /\ latch \in CredentialInss => ctx \in Credentials \cup {Wiped}
    /\ latch = IPINFO => ctx \in IpContexts \cup {Wiped}
    /\ hash \in Seq(IdentityItem)
    /\ path \in Paths \cup {NoPath}
    /\ keyPending = FALSE

ReviewUp == screen.cb \in {"proceed", "nextKey", "attribute", "added", "sign"}

InCredential(st) ==
    /\ latch \in CredentialInss /\ ctx \in Credentials /\ ctx.state = st
    /\ latch = UPDATECRED => ctx.update = "CREDENTIAL"

\* Under the gate a review is up exactly while an answer is owed, and the flow
\* that drew it is where its callback expects it.
Screens ==
    /\ reply = Owed <=> ReviewUp
    /\ ReviewUp => latch \in IdentityInss /\ ctx # Wiped
    /\ ~ReviewUp => screen \in {Home, Stale}
    /\ screen.cb = "nextKey" => InCredential(AfterKey)
    /\ screen.cb = "attribute" => InCredential("ATTRIBUTE_VALUE")
    /\ screen.cb = "added" =>
           latch = UPDATECRED /\ InCredential("PROOFS") /\ DetailRows(ctx) \subseteq screen.items
    /\ screen.cb = "proceed" => latch = IPINFO \/ (latch = UPDATECRED /\ ctx.update # "CREDENTIAL")
    /\ ~Bagl => "early" \notin DOMAIN screen \/ screen.early = {}

\* A packet that is refused: it ends the flow.
Refuses ==
    /\ reply # Owed /\ Throw /\ hash' \in Seq(IdentityItem) /\ path' \in Paths \cup {path}
    /\ approved' = {} \/ (approved' = approved /\ Extends(hash, hash'))

\* A packet that is taken: it is acknowledged, or a review answers it.
Quiet == reply # Owed /\ reply' = Success(<< >>) /\ screen' = screen /\ keyPending' = keyPending

Draws(s) == reply # Owed /\ reply' = Owed /\ screen' = s /\ keyPending' = keyPending

\* A packet of a credential is taken in stage st.
Follows(ins, st, d) ==
    /\ ins \in CredentialInss /\ latch = ins /\ latch' = ins
    /\ ctx \in Credentials /\ ctx.state = st /\ ctx' = d
    /\ ins = UPDATECRED => ctx.update = "CREDENTIAL" /\ ctx.credentialsLeft > 0
    /\ path' = path /\ approved' = approved

\* A packet of an update is taken between two credentials.
FollowsUpdate(u, d) ==
    /\ latch = UPDATECRED /\ latch' = UPDATECRED
    /\ ctx \in Credentials /\ ctx.update = u /\ ctx' = d
    /\ path' = path /\ approved' = approved

LEMMA InssKnown ==
    /\ CREDENTIAL \in CredentialInss /\ UPDATECRED \in CredentialInss /\ IPINFO \notin CredentialInss
    /\ CredentialInss \subseteq IdentityInss /\ IPINFO \in IdentityInss
    /\ NONE \notin IdentityInss /\ "GET_APP_NAME" \notin IdentityInss
    /\ CREDENTIAL # UPDATECRED /\ IPINFO # UPDATECRED /\ IPINFO # CREDENTIAL
    /\ \A ins \in CredentialInss : ins = CREDENTIAL \/ ins = UPDATECRED
    /\ \A ins \in IdentityInss : ins = IPINFO \/ ins \in CredentialInss
  BY DEF IdentityInss, CredentialInss, CREDENTIAL, UPDATECRED, IPINFO, NONE

LEMMA HoldsEntering == ASSUME Typed, NEW ins \in CredentialInss, Enters(ins) PROVE Holds
  BY DEF Typed, Enters, Holds

LEMMA FreeToEnter == ASSUME Gated, NEW ins, Enters(ins) PROVE reply # Owed /\ latch \in {NONE, ins}
  BY DEF Enters, Delivered

LEMMA StageOpen ==
    ASSUME Gated, Typed, NEW ins \in CredentialInss, NEW st, st \notin {"zero", "INITIAL"}, InState(ins, st),
           latch' = ins
    PROVE  Follows(ins, st, ctx') /\ CredentialView(ins) = ctx /\ reply # Owed
<1>1. Enters(ins)
  BY DEF InState
<1>2. Holds /\ reply # Owed
  BY <1>1, HoldsEntering, FreeToEnter
<1> QED
  BY <1>2, InStateOpen DEF Follows, txConst

LEMMA UpdateOpen ==
    ASSUME Gated, Typed, NEW u, u # "INITIAL", InUpdate(u), latch' = UPDATECRED, UNCHANGED txConst
    PROVE  FollowsUpdate(u, ctx') /\ CredentialView(UPDATECRED) = ctx /\ reply # Owed
<1>1. Enters(UPDATECRED)
  BY DEF InUpdate
<1>2. Holds /\ reply # Owed
  BY <1>1, HoldsEntering, FreeToEnter, InssKnown
<1> QED
  BY <1>2, InUpdateOpen DEF FollowsUpdate, txConst

LEMMA AckIsQuiet ==
    ASSUME reply # Owed, NEW ins, NEW d, Ack(ins, d) PROVE Quiet /\ latch' = ins /\ ctx' = d
  BY DEF Ack, Quiet

LEMMA ReviewDraws ==
    ASSUME reply # Owed, NEW ins, NEW d, NEW s, Review(ins, d, s)
    PROVE  Draws(s) /\ latch' = ins /\ ctx' = d
  BY DEF Review, Draws

LEMMA FeedExtends ==
    ASSUME hash \in Seq(IdentityItem), NEW t \in Seq(IdentityItem), Feed(t) PROVE Extends(hash, hash')
<1>1. hash' = hash \o t
  BY DEF Feed
<1>2. /\ hash \o t \in Seq(IdentityItem) /\ Len(hash \o t) = Len(hash) + Len(t)
      /\ \A i \in 1 .. Len(hash) : (hash \o t)[i] = hash[i]
  BY ConcatParts
<1>3. Len(hash) \in Nat /\ Len(t) \in Nat
  OBVIOUS
<1> QED
  BY <1>1, <1>2, <1>3 DEF Extends

LEMMA SameExtends == ASSUME NEW s \in Seq(IdentityItem) PROVE Extends(s, s)
  BY DEF Extends

LEMMA PrefixRefuses ==
    ASSUME Typed, reply # Owed, UNCHANGED txConst, NEW t \in Seq(IdentityItem), ThrowAfterPrefix(t)
    PROVE  Refuses
<1>1. PICK k \in 0 .. Len(t) : Feed(SubSeq(t, 1, k))
  BY DEF ThrowAfterPrefix
<1>2. SubSeq(t, 1, k) \in Seq(IdentityItem)
  BY PrefixOfSeq
<1>3. Extends(hash, hash')
  BY <1>1, <1>2, FeedExtends DEF Typed
<1> QED
  BY <1>3 DEF Refuses, ThrowAfterPrefix, txConst, Extends

LEMMA ThrowRefuses ==
    ASSUME Typed, reply # Owed, UNCHANGED txConst, Throw, UNCHANGED hash PROVE Refuses
  BY SameExtends DEF Refuses, Typed, txConst

-----------------------------------------------------------------------------
(* What each packet of a credential does when it is not refused. *)

LEMMA OneItem == ASSUME NEW x \in IdentityItem PROVE <<x>> \in Seq(IdentityItem)
  OBVIOUS

LEMMA StageThrows ==
    ASSUME Gated, Typed, NEW ins \in CredentialInss, NEW st, st # "INITIAL", InState(ins, st)
    PROVE  /\ Throw /\ UNCHANGED hash => Refuses
           /\ \A t \in Seq(IdentityItem) : ThrowAfterPrefix(t) => Refuses
           /\ reply # Owed
<1>1. reply # Owed /\ UNCHANGED txConst
  BY FreeToEnter DEF InState
<1> QED
  BY <1>1, ThrowRefuses, PrefixRefuses

LEMMA KeysLengthParts ==
    ASSUME Gated, Typed, NEW ins \in CredentialInss, CredentialKeysLength(ins)
    PROVE  \E n \in 0 .. ListMax :
              /\ Follows(ins, "VERIFICATION_KEYS_LENGTH", KeysAnnounced(ctx, n))
              /\ Grows(hash, hash', <<"keysLength", n>>) /\ Quiet
<1>1. PICK n \in 0 .. ListMax :
          /\ InState(ins, "VERIFICATION_KEYS_LENGTH") /\ Feed(<<<<"keysLength", n>>>>)
          /\ Ack(ins, KeysAnnounced(CredentialView(ins), n))
  BY DEF CredentialKeysLength, KeysAnnounced
<1>2. reply # Owed
  BY <1>1, StageThrows
<1>3. Quiet /\ latch' = ins /\ ctx' = KeysAnnounced(CredentialView(ins), n)
  BY <1>1, <1>2, AckIsQuiet
<1>4. Follows(ins, "VERIFICATION_KEYS_LENGTH", ctx') /\ CredentialView(ins) = ctx
  BY <1>1, <1>3, StageOpen
<1>5. <<"keysLength", n>> \in IdentityItem
  BY ItemsKnown DEF CountTags
<1>6. Grows(hash, hash', <<"keysLength", n>>)
  BY <1>1, <1>5, FeedGrows DEF Typed
<1> QED
  BY <1>3, <1>4, <1>6

LEMMA KeyParts ==
    ASSUME Gated, Typed, NEW ins \in CredentialInss, CredentialKey(ins)
    PROVE  \/ Refuses
           \/ \E v \in Vals :
                 /\ Grows(hash, hash', <<"key", v>>)
                 /\ \/ /\ ctx.keysLeft > 1 /\ Follows(ins, "VERIFICATION_KEY", KeyParked(ctx, v))
                       /\ Draws(uiSignCredentialDeploymentVerificationKeyFlowDisplay(
                                    [ctx EXCEPT !.key = v, !.keysLeft = @ - 1]))
                    \/ /\ ctx.keysLeft = 1 /\ Follows(ins, "VERIFICATION_KEY", KeyLast(ctx, v))
                       /\ Quiet
<1> DEFINE c == CredentialView(ins)
<1>1. PICK v \in Vals :
          /\ InState(ins, "VERIFICATION_KEY")
          /\ \/ Throw /\ UNCHANGED hash
             \/ /\ c.keysLeft > 1 /\ Feed(<<<<"key", v>>>>)
                /\ Review(ins, KeyParked(c, v), uiSignCredentialDeploymentVerificationKeyFlowDisplay(
                                                    [c EXCEPT !.key = v, !.keysLeft = @ - 1]))
             \/ /\ c.keysLeft = 1 /\ Feed(<<<<"key", v>>>>) /\ Ack(ins, KeyLast(c, v))
  BY Zenon DEF CredentialKey, KeyParked, KeyLast
<1>2. reply # Owed
  BY <1>1, StageThrows
<1>3. <<"key", v>> \in IdentityItem
  BY ItemsKnown DEF ValueTags
<1>4. Feed(<<<<"key", v>>>>) => Grows(hash, hash', <<"key", v>>)
  BY <1>3, FeedGrows DEF Typed
<1>5. CASE Throw /\ UNCHANGED hash
  BY <1>1, <1>5, StageThrows
<1>6. CASE /\ c.keysLeft > 1 /\ Feed(<<<<"key", v>>>>)
           /\ Review(ins, KeyParked(c, v), uiSignCredentialDeploymentVerificationKeyFlowDisplay(
                                               [c EXCEPT !.key = v, !.keysLeft = @ - 1]))
  <2>1. latch' = ins /\ ctx' = KeyParked(c, v)
        /\ Draws(uiSignCredentialDeploymentVerificationKeyFlowDisplay(
                     [c EXCEPT !.key = v, !.keysLeft = @ - 1]))
    BY <1>2, <1>6, ReviewDraws
  <2>2. Follows(ins, "VERIFICATION_KEY", ctx') /\ c = ctx
    BY <1>1, <2>1, StageOpen
  <2> QED
    BY <1>4, <1>6, <2>1, <2>2, Zenon
<1>7. CASE c.keysLeft = 1 /\ Feed(<<<<"key", v>>>>) /\ Ack(ins, KeyLast(c, v))
  <2>1. latch' = ins /\ ctx' = KeyLast(c, v) /\ Quiet
    BY <1>2, <1>7, AckIsQuiet
  <2>2. Follows(ins, "VERIFICATION_KEY", ctx') /\ c = ctx
    BY <1>1, <2>1, StageOpen
  <2> QED
    BY <1>4, <1>7, <2>1, <2>2, Zenon
<1> QED
  BY <1>1, <1>5, <1>6, <1>7

\* The fields of a packet, one after the other.
GrowsTwo(s, t, x, y) == \E u : Grows(s, u, x) /\ Grows(u, t, y)
GrowsFour(s, t, a, b, c, d) == \E u, v : GrowsTwo(s, u, a, b) /\ Grows(u, v, c) /\ Grows(v, t, d)

LEMMA FeedTwoGrows ==
    ASSUME hash \in Seq(IdentityItem), NEW x \in IdentityItem, NEW y \in IdentityItem, Feed(<<x, y>>)
    PROVE  GrowsTwo(hash, hash', x, y)
<1>1. hash' = Append(Append(hash, x), y)
  BY FeedTwo
<1>2. Grows(hash, Append(hash, x), x)
  BY AppendGrows
<1>3. Append(hash, x) \in Seq(IdentityItem)
  BY <1>2 DEF Grows
<1>4. Grows(Append(hash, x), Append(Append(hash, x), y), y)
  BY <1>3, AppendGrows
<1> QED
  BY <1>1, <1>2, <1>4 DEF GrowsTwo

LEMMA FeedFourGrows ==
    ASSUME hash \in Seq(IdentityItem), NEW a \in IdentityItem, NEW b \in IdentityItem,
           NEW c \in IdentityItem, NEW d \in IdentityItem, Feed(<<a, b, c, d>>)
    PROVE  GrowsFour(hash, hash', a, b, c, d)
<1> DEFINE u == Append(hash, a)
           v == Append(u, b)
           w == Append(v, c)
           z == Append(w, d)
<1>1. Grows(hash, u, a) /\ u \in Seq(IdentityItem)
  BY AppendGrows DEF Grows
<1> HIDE DEF u
<1>2. Grows(u, v, b) /\ v \in Seq(IdentityItem)
  BY <1>1, AppendGrows DEF Grows
<1> HIDE DEF v
<1>3. Grows(v, w, c) /\ w \in Seq(IdentityItem)
  BY <1>2, AppendGrows DEF Grows
<1> HIDE DEF w
<1>4. Grows(w, z, d) /\ z \in Seq(IdentityItem)
  BY <1>3, AppendGrows DEF Grows
<1> HIDE DEF z
<1>5. hash' = z
  <2> DEFINE q == <<a, b, c, d>>
  <2>1. q \in Seq(IdentityItem) /\ Len(q) = 4 /\ q[1] = a /\ q[2] = b /\ q[3] = c /\ q[4] = d
    OBVIOUS
  <2>2. hash' = hash \o q
    BY DEF Feed
  <2> HIDE DEF q
  <2>3. /\ hash \o q \in Seq(IdentityItem) /\ Len(hash \o q) = Len(hash) + Len(q)
        /\ \A i \in 1 .. Len(hash) : (hash \o q)[i] = hash[i]
        /\ \A i \in 1 .. Len(q) : (hash \o q)[Len(hash) + i] = q[i]
    <3>1. hash \in Seq(IdentityItem) /\ q \in Seq(IdentityItem)
      BY <2>1
    <3> QED
      BY ONLY <3>1, ConcatParts
  <2> DEFINE n == Len(hash)
  <2>4. n \in Nat
    OBVIOUS
  <2>5. /\ hash' \in Seq(IdentityItem) /\ Len(hash') = n + 4
        /\ \A i \in 1 .. n : hash'[i] = hash[i]
        /\ hash'[n + 1] = a /\ hash'[n + 2] = b /\ hash'[n + 3] = c /\ hash'[n + 4] = d
    BY <2>1, <2>2, <2>3
  <2>6. Len(u) = n + 1 /\ u[n + 1] = a /\ \A i \in 1 .. n : u[i] = hash[i]
    BY <1>1 DEF Grows
  <2> HIDE DEF n
  <2>7. Len(v) = n + 2 /\ v[n + 1] = a /\ v[n + 2] = b /\ \A i \in 1 .. n : v[i] = hash[i]
    <3>1. Len(v) = Len(u) + 1 /\ v[Len(v)] = b /\ \A i \in 1 .. Len(u) : v[i] = u[i]
      BY <1>2 DEF Grows
    <3> QED
      BY ONLY <2>4, <2>6, <3>1
  <2>8. /\ Len(w) = n + 3 /\ w[n + 1] = a /\ w[n + 2] = b /\ w[n + 3] = c
        /\ \A i \in 1 .. n : w[i] = hash[i]
    <3>1. Len(w) = Len(v) + 1 /\ w[Len(w)] = c /\ \A i \in 1 .. Len(v) : w[i] = v[i]
      BY <1>3 DEF Grows
    <3> QED
      BY ONLY <2>4, <2>7, <3>1
  <2>9. /\ Len(z) = n + 4 /\ z[n + 1] = a /\ z[n + 2] = b /\ z[n + 3] = c /\ z[n + 4] = d
        /\ \A i \in 1 .. n : z[i] = hash[i]
    <3>1. Len(z) = Len(w) + 1 /\ z[Len(z)] = d /\ \A i \in 1 .. Len(w) : z[i] = w[i]
      BY <1>4 DEF Grows
    <3> QED
      BY ONLY <2>4, <2>8, <3>1
  <2>10. ASSUME NEW i \in 1 .. n + 4 PROVE hash'[i] = z[i]
    <3>1. i \in 1 .. n \/ i = n + 1 \/ i = n + 2 \/ i = n + 3 \/ i = n + 4
      BY ONLY <2>4, i \in 1 .. n + 4
    <3> QED
      BY <2>5, <2>9, <3>1
  <2> QED
    BY <1>4, <2>4, <2>5, <2>9, <2>10
<1> QED
  BY <1>1, <1>2, <1>3, <1>4, <1>5 DEF GrowsFour, GrowsTwo

LEMMA DetailsParts ==
    ASSUME Gated, Typed, NEW ins \in CredentialInss, CredentialDetails(ins)
    PROVE  \/ Refuses
           \/ \E v \in Vals, q \in Providers, n \in 0 .. ListMax :
                 /\ Follows(ins, "SIGNATURE_THRESHOLD", DetailsRead(ctx, v, q, n)) /\ Quiet
                 /\ GrowsFour(hash, hash', <<"signatureThreshold", v>>, <<"regIdCred", v>>,
                              <<"identityProvider", q>>, <<"arThreshold", v, n>>)
<1>1. PICK v \in Vals, q \in Providers, n \in 0 .. ListMax :
          LET t == <<<<"signatureThreshold", v>>, <<"regIdCred", v>>, <<"identityProvider", q>>,
                     <<"arThreshold", v, n>>>>
          IN  /\ InState(ins, "SIGNATURE_THRESHOLD")
              /\ \/ Throw /\ UNCHANGED hash
                 \/ ThrowAfterPrefix(SubSeq(t, 1, 3))
                 \/ Feed(t) /\ Ack(ins, DetailsRead(CredentialView(ins), v, q, n))
  BY Zenon DEF CredentialDetails, DetailsRead
<1> DEFINE t == <<<<"signatureThreshold", v>>, <<"regIdCred", v>>, <<"identityProvider", q>>,
                  <<"arThreshold", v, n>>>>
<1>2. SubSeq(t, 1, 3) \in Seq(IdentityItem)
  BY DetailItems, OtherSeq
<1>3. reply # Owed
  BY <1>1, StageThrows
<1>4. CASE Throw /\ UNCHANGED hash
  BY <1>1, <1>4, StageThrows
<1>5. CASE ThrowAfterPrefix(SubSeq(t, 1, 3))
  <2> HIDE DEF t
  <2> QED
    BY <1>1, <1>2, <1>5, StageThrows
<1>6. CASE Feed(t) /\ Ack(ins, DetailsRead(CredentialView(ins), v, q, n))
  <2>1. latch' = ins /\ ctx' = DetailsRead(CredentialView(ins), v, q, n) /\ Quiet
    BY <1>3, <1>6, AckIsQuiet
  <2>2. Follows(ins, "SIGNATURE_THRESHOLD", ctx') /\ CredentialView(ins) = ctx
    BY <1>1, <2>1, StageOpen
  <2> DEFINE a == <<"signatureThreshold", v>>
             b == <<"regIdCred", v>>
             c == <<"identityProvider", q>>
             d == <<"arThreshold", v, n>>
  <2>3. a \in IdentityItem /\ b \in IdentityItem /\ c \in IdentityItem /\ d \in IdentityItem
    BY ItemsKnown DEF ValueTags
  <2>4. Feed(<<a, b, c, d>>) /\ hash \in Seq(IdentityItem)
    BY <1>6 DEF Typed
  <2> HIDE DEF a, b, c, d
  <2>5. GrowsFour(hash, hash', a, b, c, d)
    BY <2>3, <2>4, FeedFourGrows
  <2> QED
    BY <2>1, <2>2, <2>5, Zenon DEF a, b, c, d
<1> QED
  BY <1>1, <1>4, <1>5, <1>6

LEMMA RevokerParts ==
    ASSUME Gated, Typed, NEW ins \in CredentialInss, CredentialRevoker(ins)
    PROVE  \/ Refuses
           \/ \E v \in Vals : /\ ctx.arsLeft # 0 /\ Follows(ins, "AR_IDENTITY", RevokerRead(ctx, v)) /\ Quiet
                              /\ Grows(hash, hash', <<"ar", v>>)
<1>1. PICK v \in Vals :
          /\ InState(ins, "AR_IDENTITY")
          /\ \/ Throw /\ UNCHANGED hash
             \/ /\ CredentialView(ins).arsLeft # 0 /\ Feed(<<<<"ar", v>>>>)
                /\ Ack(ins, RevokerRead(CredentialView(ins), v))
  BY Zenon DEF CredentialRevoker, RevokerRead
<1>2. reply # Owed
  BY <1>1, StageThrows
<1>3. <<"ar", v>> \in IdentityItem
  BY ItemsKnown DEF ValueTags
<1>4. Feed(<<<<"ar", v>>>>) => Grows(hash, hash', <<"ar", v>>)
  BY <1>3, FeedGrows DEF Typed
<1>5. CASE Throw /\ UNCHANGED hash
  BY <1>1, <1>5, StageThrows
<1>6. CASE /\ CredentialView(ins).arsLeft # 0 /\ Feed(<<<<"ar", v>>>>)
           /\ Ack(ins, RevokerRead(CredentialView(ins), v))
  <2>1. latch' = ins /\ ctx' = RevokerRead(CredentialView(ins), v) /\ Quiet
    BY <1>2, <1>6, AckIsQuiet
  <2>2. Follows(ins, "AR_IDENTITY", ctx') /\ CredentialView(ins) = ctx
    BY <1>1, <2>1, StageOpen
  <2> QED
    BY <1>4, <1>6, <2>1, <2>2, Zenon
<1> QED
  BY <1>1, <1>5, <1>6

LEMMA DatesParts ==
    ASSUME Gated, Typed, NEW ins \in CredentialInss, CredentialDates(ins)
    PROVE  \/ Refuses
           \/ \E v \in Vals, n \in 0 .. ListMax :
                 /\ Follows(ins, "CREDENTIAL_DATES", DatesRead(ctx, n)) /\ Quiet
                 /\ Grows(hash, hash', <<"dates", v, n>>)
<1>1. PICK v \in Vals, n \in 0 .. ListMax :
          /\ InState(ins, "CREDENTIAL_DATES")
          /\ \/ Throw /\ UNCHANGED hash
             \/ Feed(<<<<"dates", v, n>>>>) /\ Ack(ins, DatesRead(CredentialView(ins), n))
  BY Zenon DEF CredentialDates, DatesRead
<1>2. reply # Owed
  BY <1>1, StageThrows
<1>3. <<"dates", v, n>> \in IdentityItem
  BY ItemsKnown
<1>4. Feed(<<<<"dates", v, n>>>>) => Grows(hash, hash', <<"dates", v, n>>)
  BY <1>3, FeedGrows DEF Typed
<1>5. CASE Throw /\ UNCHANGED hash
  BY <1>1, <1>5, StageThrows
<1>6. CASE Feed(<<<<"dates", v, n>>>>) /\ Ack(ins, DatesRead(CredentialView(ins), n))
  <2>1. latch' = ins /\ ctx' = DatesRead(CredentialView(ins), n) /\ Quiet
    BY <1>2, <1>6, AckIsQuiet
  <2>2. Follows(ins, "CREDENTIAL_DATES", ctx') /\ CredentialView(ins) = ctx
    BY <1>1, <2>1, StageOpen
  <2> QED
    BY <1>4, <1>6, <2>1, <2>2, Zenon
<1> QED
  BY <1>1, <1>5, <1>6

LEMMA TagParts ==
    ASSUME Gated, Typed, NEW ins \in CredentialInss, CredentialTag(ins)
    PROVE  \/ Refuses
           \/ \E v \in Vals : /\ Follows(ins, "ATTRIBUTE_TAG", TagRead(ctx, v)) /\ Quiet
                              /\ Grows(hash, hash', <<"tag", v>>)
<1>1. PICK v \in Vals :
          /\ InState(ins, "ATTRIBUTE_TAG")
          /\ \/ ThrowAfterPrefix(<<<<"tag", v>>>>)
             \/ Feed(<<<<"tag", v>>>>) /\ Ack(ins, TagRead(CredentialView(ins), v))
  BY Zenon DEF CredentialTag, TagRead
<1>2. reply # Owed
  BY <1>1, StageThrows
<1>3. <<"tag", v>> \in IdentityItem
  BY ItemsKnown DEF ValueTags
<1>4. Feed(<<<<"tag", v>>>>) => Grows(hash, hash', <<"tag", v>>)
  BY <1>3, FeedGrows DEF Typed
<1>5. CASE ThrowAfterPrefix(<<<<"tag", v>>>>)
  BY <1>1, <1>3, <1>5, StageThrows, OneItem
<1>6. CASE Feed(<<<<"tag", v>>>>) /\ Ack(ins, TagRead(CredentialView(ins), v))
  <2>1. latch' = ins /\ ctx' = TagRead(CredentialView(ins), v) /\ Quiet
    BY <1>2, <1>6, AckIsQuiet
  <2>2. Follows(ins, "ATTRIBUTE_TAG", ctx') /\ CredentialView(ins) = ctx
    BY <1>1, <2>1, StageOpen
  <2> QED
    BY <1>4, <1>6, <2>1, <2>2, Zenon
<1> QED
  BY <1>1, <1>5, <1>6

LEMMA ValueParts ==
    ASSUME Gated, Typed, NEW ins \in CredentialInss, CredentialValue(ins)
    PROVE  \/ Refuses
           \/ \E v \in Vals : /\ Follows(ins, "ATTRIBUTE_VALUE", ctx)
                              /\ Draws(uiSignCredentialDeploymentAttributeDisplay(ctx, v))
                              /\ Grows(hash, hash', <<"value", v>>)
<1>1. PICK v \in Vals :
          /\ InState(ins, "ATTRIBUTE_VALUE")
          /\ \/ ThrowAfterPrefix(<<<<"value", v>>>>)
             \/ /\ Feed(<<<<"value", v>>>>)
                /\ Review(ins, CredentialView(ins),
                          uiSignCredentialDeploymentAttributeDisplay(CredentialView(ins), v))
  BY Zenon DEF CredentialValue
<1>2. reply # Owed
  BY <1>1, StageThrows
<1>3. <<"value", v>> \in IdentityItem
  BY ItemsKnown DEF ValueTags
<1>4. Feed(<<<<"value", v>>>>) => Grows(hash, hash', <<"value", v>>)
  BY <1>3, FeedGrows DEF Typed
<1>5. CASE ThrowAfterPrefix(<<<<"value", v>>>>)
  BY <1>1, <1>3, <1>5, StageThrows, OneItem
<1>6. CASE /\ Feed(<<<<"value", v>>>>)
           /\ Review(ins, CredentialView(ins),
                     uiSignCredentialDeploymentAttributeDisplay(CredentialView(ins), v))
  <2>1. latch' = ins /\ ctx' = CredentialView(ins)
        /\ Draws(uiSignCredentialDeploymentAttributeDisplay(CredentialView(ins), v))
    BY <1>2, <1>6, ReviewDraws
  <2>2. Follows(ins, "ATTRIBUTE_VALUE", ctx') /\ CredentialView(ins) = ctx
    BY <1>1, <2>1, StageOpen
  <2> QED
    BY <1>4, <1>6, <2>1, <2>2, Zenon
<1> QED
  BY <1>1, <1>5, <1>6

LEMMA ProofLengthParts ==
    ASSUME Gated, Typed, NEW ins \in CredentialInss, CredentialProofLength(ins)
    PROVE  \/ Refuses
           \/ \E n \in 0 .. ProofMax :
                 /\ Follows(ins, "LENGTH_OF_PROOFS", ProofAnnounced(ctx, n)) /\ Quiet
                 /\ \/ Grows(hash, hash', <<"proofLength", n>>)
                    \/ ins # UPDATECRED /\ hash' = hash
<1>1. PICK n \in 0 .. ProofMax, embedded \in BOOLEAN :
          /\ InState(ins, "LENGTH_OF_PROOFS")
          /\ ins = UPDATECRED => embedded
          /\ \/ Throw /\ UNCHANGED hash
             \/ /\ Feed(IF embedded THEN <<<<"proofLength", n>>>> ELSE << >>)
                /\ Ack(ins, ProofAnnounced(CredentialView(ins), n))
  BY Zenon DEF CredentialProofLength, ProofAnnounced
<1>2. reply # Owed
  BY <1>1, StageThrows
<1>3. <<"proofLength", n>> \in IdentityItem
  BY ItemsKnown DEF CountTags
<1>4. Feed(<<<<"proofLength", n>>>>) => Grows(hash, hash', <<"proofLength", n>>)
  BY <1>3, FeedGrows DEF Typed
<1>5. Feed(<< >>) => hash' = hash
  BY DEF Feed, Typed
<1>6. CASE Throw /\ UNCHANGED hash
  BY <1>1, <1>6, StageThrows
<1>7. CASE /\ Feed(IF embedded THEN <<<<"proofLength", n>>>> ELSE << >>)
           /\ Ack(ins, ProofAnnounced(CredentialView(ins), n))
  <2>1. latch' = ins /\ ctx' = ProofAnnounced(CredentialView(ins), n) /\ Quiet
    BY <1>2, <1>7, AckIsQuiet
  <2>2. Follows(ins, "LENGTH_OF_PROOFS", ctx') /\ CredentialView(ins) = ctx
    BY <1>1, <2>1, StageOpen
  <2>3. Grows(hash, hash', <<"proofLength", n>>) \/ (ins # UPDATECRED /\ hash' = hash)
    <3>1. CASE embedded
      BY <1>4, <1>7, <3>1
    <3>2. CASE ~embedded
      BY <1>1, <1>5, <1>7, <3>2
    <3> QED
      BY <3>1, <3>2
  <2> QED
    BY <2>1, <2>2, <2>3, Zenon
<1> QED
  BY <1>1, <1>6, <1>7

LEMMA ProofsParts ==
    ASSUME Gated, Typed, NEW ins \in CredentialInss, CredentialProofs(ins)
    PROVE  \/ Refuses
           \/ /\ ctx.proofLeft > CdataMax /\ Grows(hash, hash', <<"proof", CdataMax>>)
              /\ Follows(ins, "PROOFS", ProofRead(ctx)) /\ Quiet
           \/ /\ Grows(hash, hash', <<"proof", ctx.proofLeft>>)
              /\ \/ /\ ins = UPDATECRED /\ Follows(ins, "PROOFS", ctx)
                    /\ Draws(uiSignUpdateCredentialAddedCredentialDisplay(ctx))
                 \/ ins # UPDATECRED /\ Follows(ins, "PROOFS", ProofsRead(ctx)) /\ Quiet
<1> DEFINE c == CredentialView(ins)
<1>1. /\ InState(ins, "PROOFS")
      /\ \/ Throw /\ UNCHANGED hash
         \/ /\ c.proofLeft > CdataMax /\ Feed(<<<<"proof", CdataMax>>>>) /\ Ack(ins, ProofRead(c))
         \/ /\ Feed(<<<<"proof", c.proofLeft>>>>)
            /\ \/ /\ ins = UPDATECRED
                  /\ Review(ins, c, uiSignUpdateCredentialAddedCredentialDisplay(c))
               \/ ins # UPDATECRED /\ Ack(ins, ProofsRead(c))
  BY Zenon DEF CredentialProofs, ProofRead, ProofsRead
<1>2. reply # Owed
  BY <1>1, StageThrows
<1> HIDE DEF c
<1>3. ASSUME latch' = ins PROVE /\ Follows(ins, "PROOFS", ctx') /\ c = ctx
                               /\ <<"proof", CdataMax>> \in IdentityItem
                               /\ <<"proof", ctx.proofLeft>> \in IdentityItem
  <2>1. Follows(ins, "PROOFS", ctx') /\ c = ctx
    BY <1>1, <1>3, StageOpen DEF c
  <2>2. ctx.proofLeft \in Nat /\ CdataMax \in Nat
    BY <2>1, Limits, FieldsKnown DEF Follows, Credentials, Fields
  <2> QED
    BY <2>1, <2>2, ItemsKnown DEF CountTags
<1>4. CASE Throw /\ UNCHANGED hash
  BY <1>1, <1>4, StageThrows
<1>5. CASE c.proofLeft > CdataMax /\ Feed(<<<<"proof", CdataMax>>>>) /\ Ack(ins, ProofRead(c))
  <2>1. latch' = ins /\ ctx' = ProofRead(c) /\ Quiet
    BY <1>2, <1>5, AckIsQuiet
  <2>2. Grows(hash, hash', <<"proof", CdataMax>>)
    BY <1>3, <1>5, <2>1, FeedGrows DEF Typed
  <2> QED
    BY <1>3, <1>5, <2>1, <2>2, Zenon
<1>6. CASE Feed(<<<<"proof", c.proofLeft>>>>) /\ ins = UPDATECRED
           /\ Review(ins, c, uiSignUpdateCredentialAddedCredentialDisplay(c))
  <2>1. latch' = ins /\ ctx' = c /\ Draws(uiSignUpdateCredentialAddedCredentialDisplay(c))
    BY <1>2, <1>6, ReviewDraws
  <2>2. Grows(hash, hash', <<"proof", ctx.proofLeft>>)
    BY <1>3, <1>6, <2>1, FeedGrows DEF Typed
  <2> QED
    BY <1>3, <1>6, <2>1, <2>2, Zenon
<1>7. CASE Feed(<<<<"proof", c.proofLeft>>>>) /\ ins # UPDATECRED /\ Ack(ins, ProofsRead(c))
  <2>1. latch' = ins /\ ctx' = ProofsRead(c) /\ Quiet
    BY <1>2, <1>7, AckIsQuiet
  <2>2. Grows(hash, hash', <<"proof", ctx.proofLeft>>)
    BY <1>3, <1>7, <2>1, FeedGrows DEF Typed
  <2> QED
    BY <1>3, <1>7, <2>1, <2>2, Zenon
<1> QED
  BY <1>1, <1>4, <1>5, <1>6, <1>7

LEMMA NewOrExistingParts ==
    ASSUME Gated, Typed, CredentialNewOrExisting(CREDENTIAL)
    PROVE  \/ Refuses
           \/ \E v \in Vals, tag \in {"expiry", "address"} :
                 /\ Follows(CREDENTIAL, "NEW_OR_EXISTING", ctx)
                 /\ Draws(uiSignCredentialDeploymentExistingDisplay(ctx, <<tag, v>>))
                 /\ GrowsTwo(hash, hash', <<"newOrExisting", tag>>, <<tag, v>>)
<1> DEFINE c == CredentialView(CREDENTIAL)
<1>1. PICK v \in Vals, tag \in {"expiry", "address"} :
          LET t == <<<<"newOrExisting", tag>>, <<tag, v>>>>
          IN  /\ InState(CREDENTIAL, "NEW_OR_EXISTING")
              /\ \/ ThrowAfterPrefix(SubSeq(t, 1, 1))
                 \/ /\ Feed(t)
                    /\ Review(CREDENTIAL, c, uiSignCredentialDeploymentExistingDisplay(c, <<tag, v>>))
  BY Zenon DEF CredentialNewOrExisting
<1> DEFINE x == <<"newOrExisting", tag>>
           y == <<tag, v>>
           t == <<x, y>>
<1>2. x \in IdentityItem /\ y \in IdentityItem
  BY ItemsKnown DEF ValueTags
<1> HIDE DEF x, y, c
<1>3. t \in Seq(IdentityItem) /\ 1 \in 0 .. Len(t)
  BY <1>2
<1> HIDE DEF t
<1>4. SubSeq(t, 1, 1) \in Seq(IdentityItem)
  BY <1>3, PrefixOfSeq
<1>5. /\ InState(CREDENTIAL, "NEW_OR_EXISTING")
      /\ \/ ThrowAfterPrefix(SubSeq(t, 1, 1))
         \/ Feed(t) /\ Review(CREDENTIAL, c, uiSignCredentialDeploymentExistingDisplay(c, y))
  BY <1>1 DEF t, x, y
<1>6. reply # Owed /\ CREDENTIAL \in CredentialInss
  BY <1>5, InssKnown, StageThrows
<1>7. CASE ThrowAfterPrefix(SubSeq(t, 1, 1))
  BY <1>4, <1>5, <1>6, <1>7, StageThrows
<1>8. CASE Feed(t) /\ Review(CREDENTIAL, c, uiSignCredentialDeploymentExistingDisplay(c, y))
  <2>1. latch' = CREDENTIAL /\ ctx' = c /\ Draws(uiSignCredentialDeploymentExistingDisplay(c, y))
    BY <1>6, <1>8, ReviewDraws
  <2>2. Follows(CREDENTIAL, "NEW_OR_EXISTING", ctx') /\ c = ctx
    BY <1>5, <1>6, <2>1, StageOpen DEF c
  <2>3. GrowsTwo(hash, hash', x, y)
    BY <1>2, <1>8, FeedTwoGrows DEF t, Typed
  <2> QED
    BY <2>1, <2>2, <2>3, Zenon DEF x, y
<1> QED
  BY <1>5, <1>7, <1>8

\* The first packet of a flow begins a transcript.
LEMMA BeginThrowsRefuses ==
    ASSUME Typed, reply # Owed, NEW p \in Paths, NEW t \in Seq(IdentityItem), BeginThrows(p, t)
    PROVE  Refuses
<1>1. hash' = hash \/ \E k \in 0 .. Len(t) : hash' = SubSeq(t, 1, k)
  BY DEF BeginThrows
<1>2. hash' \in Seq(IdentityItem)
  BY <1>1, PrefixOfSeq DEF Typed
<1>3. path' \in Paths \cup {path} /\ approved' = {} /\ Throw
  BY DEF BeginThrows
<1> QED
  BY <1>2, <1>3 DEF Refuses

LEMMA InitialParts ==
    ASSUME Gated, Typed, CredentialInitial
    PROVE  \/ Refuses
           \/ \E p \in Paths, c \in Credentials :
                 /\ latch' = CREDENTIAL /\ ctx' = Begun(c) /\ path' = p /\ hash' = << >> /\ approved' = {}
                 /\ Quiet
<1>1. PICK p \in Paths :
          /\ InState(CREDENTIAL, "INITIAL")
          /\ \/ /\ BeginTranscript(p, << >>) /\ Ack(CREDENTIAL, Begun(CredentialView(CREDENTIAL)))
             \/ BeginThrows(p, << >>)
  BY Zenon DEF CredentialInitial, Begun
<1>2. reply # Owed /\ CredentialView(CREDENTIAL) \in Credentials
  BY <1>1, FreeToEnter, HoldsEntering, InssKnown, ViewKnown DEF InState
<1>3. << >> \in Seq(IdentityItem)
  OBVIOUS
<1>4. CASE BeginThrows(p, << >>)
  BY <1>2, <1>3, <1>4, BeginThrowsRefuses
<1>5. CASE BeginTranscript(p, << >>) /\ Ack(CREDENTIAL, Begun(CredentialView(CREDENTIAL)))
  <2>1. Quiet /\ latch' = CREDENTIAL /\ ctx' = Begun(CredentialView(CREDENTIAL))
    BY <1>2, <1>5, AckIsQuiet
  <2>2. path' = p /\ hash' = << >> /\ approved' = {}
    BY <1>5 DEF BeginTranscript
  <2> QED
    BY <1>2, <2>1, <2>2
<1> QED
  BY <1>1, <1>4, <1>5

GrowsThree(s, t, x, y, z) == \E u : GrowsTwo(s, u, x, y) /\ Grows(u, t, z)

\* A transcript of three items more.
LEMMA ThreeMore ==
    ASSUME NEW s \in Seq(IdentityItem), NEW t \in Seq(IdentityItem), NEW x \in IdentityItem,
           NEW y \in IdentityItem, NEW z \in IdentityItem, Len(t) = Len(s) + 3,
           \A i \in 1 .. Len(s) : t[i] = s[i],
           t[Len(s) + 1] = x, t[Len(s) + 2] = y, t[Len(s) + 3] = z
    PROVE  GrowsThree(s, t, x, y, z)
<1> DEFINE u == Append(s, x)
           v == Append(u, y)
           n == Len(s)
<1>1. Grows(s, u, x) /\ u \in Seq(IdentityItem)
  BY AppendGrows DEF Grows
<1> HIDE DEF u
<1>2. Grows(u, v, y) /\ v \in Seq(IdentityItem)
  BY <1>1, AppendGrows DEF Grows
<1> HIDE DEF v
<1>3. n \in Nat /\ Len(u) = n + 1 /\ u[n + 1] = x /\ \A i \in 1 .. n : u[i] = s[i]
  BY <1>1 DEF Grows
<1>t. /\ Len(t) = n + 3 /\ t[n + 1] = x /\ t[n + 2] = y /\ t[n + 3] = z
      /\ \A i \in 1 .. n : t[i] = s[i]
  OBVIOUS
<1> HIDE DEF n
<1>4. Len(v) = n + 2 /\ v[n + 1] = x /\ v[n + 2] = y /\ \A i \in 1 .. n : v[i] = s[i]
  <2>1. Len(v) = Len(u) + 1 /\ v[Len(v)] = y /\ \A i \in 1 .. Len(u) : v[i] = u[i]
    BY <1>2 DEF Grows
  <2> QED
    BY ONLY <1>3, <2>1
<1>5. ASSUME NEW i \in 1 .. Len(v) PROVE t[i] = v[i]
  <2>1. i \in 1 .. n \/ i = n + 1 \/ i = n + 2
    BY ONLY <1>3, <1>4, i \in 1 .. Len(v)
  <2> QED
    BY <1>4, <1>t, <2>1
<1>6. Len(v) \in Nat /\ Len(t) = Len(v) + 1 /\ t[Len(t)] = z
  BY <1>3, <1>4, <1>t
<1>7. Grows(v, t, z)
  BY <1>2, <1>5, <1>6 DEF Grows
<1> QED
  BY <1>1, <1>2, <1>7 DEF GrowsThree, GrowsTwo

LEMMA UpdateInitialParts ==
    ASSUME Gated, Typed, UpdateInitial
    PROVE  \/ Refuses
           \/ \E h \in Headers, p \in Paths, n \in 0 .. ListMax, c \in Credentials :
                 /\ latch' = UPDATECRED /\ ctx' = UpdateBegun(c, n) /\ path' = p /\ approved' = {}
                 /\ Draws(uiSignUpdateCredentialInitialDisplay(AccountSender(h, p)))
                 /\ GrowsThree(<< >>, hash', <<"header", h>>, <<"kind", UPDATECRED>>,
                               <<"credentialCount", n>>)
<1> DEFINE c == CredentialView(UPDATECRED)
<1>1. PICK h \in Headers, p \in Paths, n \in 0 .. ListMax :
          LET t == <<<<"kind", UPDATECRED>>, <<"credentialCount", n>>>>
          IN  /\ InUpdate("INITIAL")
              /\ \/ /\ hashAccountTransactionHeaderAndKind(h, p, t)
                    /\ Review(UPDATECRED, UpdateBegun(c, n),
                              uiSignUpdateCredentialInitialDisplay(AccountSender(h, p)))
                 \/ HeaderThrows(h, p, SubSeq(t, 1, 1))
  BY Zenon DEF UpdateInitial, UpdateBegun
<1> DEFINE w == <<"header", h>>
           x == <<"kind", UPDATECRED>>
           y == <<"credentialCount", n>>
           t == <<x, y>>
<1>2. w \in IdentityItem /\ x \in IdentityItem /\ y \in IdentityItem
  BY ItemsKnown DEF CountTags
<1>i. /\ InUpdate("INITIAL")
      /\ \/ /\ hashAccountTransactionHeaderAndKind(h, p, t)
            /\ Review(UPDATECRED, UpdateBegun(c, n),
                      uiSignUpdateCredentialInitialDisplay(AccountSender(h, p)))
         \/ HeaderThrows(h, p, SubSeq(t, 1, 1))
  BY <1>1
<1>3. reply # Owed /\ c \in Credentials
  BY <1>i, FreeToEnter, HoldsEntering, InssKnown, ViewKnown DEF InUpdate
<1>w. <<"header", h>> \in IdentityItem
  BY <1>2
<1> HIDE DEF x, y, c
<1>4. t \in Seq(IdentityItem) /\ 1 \in 0 .. Len(t) /\ Len(t) = 2 /\ t[1] = x /\ t[2] = y
  BY <1>2
<1> HIDE DEF t
<1>5. CASE HeaderThrows(h, p, SubSeq(t, 1, 1))
  <2>1. SubSeq(t, 1, 1) \in Seq(IdentityItem)
    BY <1>4, PrefixOfSeq
  <2>2. hash' \in Seq(IdentityItem) /\ path' \in {path, p}
    BY <1>5, <1>w, <2>1, HeaderThrowsTypes DEF Typed
  <2> QED
    BY <1>3, <1>5, <2>2 DEF Refuses, HeaderThrows
<1>6. CASE /\ hashAccountTransactionHeaderAndKind(h, p, t)
           /\ Review(UPDATECRED, UpdateBegun(c, n),
                     uiSignUpdateCredentialInitialDisplay(AccountSender(h, p)))
  <2>1. /\ latch' = UPDATECRED /\ ctx' = UpdateBegun(c, n)
        /\ Draws(uiSignUpdateCredentialInitialDisplay(AccountSender(h, p)))
    BY <1>3, <1>6, ReviewDraws
  <2>2. path' = p /\ approved' = {}
    BY <1>6 DEF hashAccountTransactionHeaderAndKind
  <2>3. /\ hash' \in Seq(IdentityItem) /\ Len(hash') = Len(t) + 1 /\ hash'[1] = w
        /\ \A i \in 1 .. Len(t) : hash'[i + 1] = t[i]
    BY <1>4, <1>6, <1>w, HeadTypes
  <2> HIDE DEF w
  <2>4. Len(hash') = 3 /\ hash'[1] = w /\ hash'[2] = x /\ hash'[3] = y
    BY <1>4, <2>3
  <2> DEFINE e == << >>
  <2>5. /\ e \in Seq(IdentityItem) /\ Len(hash') = Len(e) + 3
        /\ \A i \in 1 .. Len(e) : hash'[i] = e[i]
        /\ hash'[Len(e) + 1] = w /\ hash'[Len(e) + 2] = x /\ hash'[Len(e) + 3] = y
    BY <2>4
  <2> HIDE DEF e
  <2>6. GrowsThree(e, hash', w, x, y)
    BY <1>2, <2>3, <2>5, ThreeMore
  <2> QED
    BY <1>3, <2>1, <2>2, <2>6, Zenon DEF w, x, y, e
<1> QED
  BY <1>i, <1>5, <1>6

LEMMA IndexParts ==
    ASSUME Gated, Typed, UpdateIndex
    PROVE  \E v \in Vals :
              /\ ctx.credentialsLeft > 0 /\ FollowsUpdate("CREDENTIAL_INDEX", IndexRead(ctx)) /\ Quiet
              /\ Grows(hash, hash', <<"credentialIndex", v>>)
<1>1. PICK v \in Vals :
          /\ InUpdate("CREDENTIAL_INDEX") /\ CredentialView(UPDATECRED).credentialsLeft > 0
          /\ UNCHANGED txConst /\ Feed(<<<<"credentialIndex", v>>>>)
          /\ Ack(UPDATECRED, IndexRead(CredentialView(UPDATECRED)))
  BY Zenon DEF UpdateIndex, IndexRead
<1>2. reply # Owed
  BY <1>1, FreeToEnter DEF InUpdate
<1>3. latch' = UPDATECRED /\ ctx' = IndexRead(CredentialView(UPDATECRED)) /\ Quiet
  BY <1>1, <1>2, AckIsQuiet
<1>4. FollowsUpdate("CREDENTIAL_INDEX", ctx') /\ CredentialView(UPDATECRED) = ctx
  BY <1>1, <1>3, UpdateOpen
<1>5. <<"credentialIndex", v>> \in IdentityItem
  BY ItemsKnown DEF ValueTags
<1>6. Grows(hash, hash', <<"credentialIndex", v>>)
  BY <1>1, <1>5, FeedGrows DEF Typed
<1> QED
  BY <1>1, <1>3, <1>4, <1>6, Zenon

LEMMA IdCountParts ==
    ASSUME Gated, Typed, UpdateIdCount
    PROVE  \E n \in 0 .. ListMax :
              /\ FollowsUpdate("ID_COUNT", IdsAnnounced(ctx, n)) /\ Quiet
              /\ Grows(hash, hash', <<"idCount", n>>)
<1>1. PICK n \in 0 .. ListMax :
          /\ InUpdate("ID_COUNT") /\ UNCHANGED txConst /\ Feed(<<<<"idCount", n>>>>)
          /\ Ack(UPDATECRED, IdsAnnounced(CredentialView(UPDATECRED), n))
  BY Zenon DEF UpdateIdCount, IdsAnnounced
<1>2. reply # Owed
  BY <1>1, FreeToEnter DEF InUpdate
<1>3. latch' = UPDATECRED /\ ctx' = IdsAnnounced(CredentialView(UPDATECRED), n) /\ Quiet
  BY <1>1, <1>2, AckIsQuiet
<1>4. FollowsUpdate("ID_COUNT", ctx') /\ CredentialView(UPDATECRED) = ctx
  BY <1>1, <1>3, UpdateOpen
<1>5. <<"idCount", n>> \in IdentityItem
  BY ItemsKnown DEF CountTags
<1>6. Grows(hash, hash', <<"idCount", n>>)
  BY <1>1, <1>5, FeedGrows DEF Typed
<1> QED
  BY <1>1, <1>3, <1>4, <1>6, Zenon

LEMMA IdParts ==
    ASSUME Gated, Typed, UpdateId
    PROVE  \/ Refuses
           \/ \E v \in Vals :
                 /\ FollowsUpdate("ID", IdRead(ctx)) /\ Draws(uiSignUpdateCredentialIdDisplay(v))
                 /\ Grows(hash, hash', <<"credId", v>>)
<1>1. PICK v \in Vals :
          /\ InUpdate("ID") /\ UNCHANGED txConst
          /\ \/ Throw /\ UNCHANGED hash
             \/ /\ Feed(<<<<"credId", v>>>>)
                /\ Review(UPDATECRED, IdRead(CredentialView(UPDATECRED)),
                          uiSignUpdateCredentialIdDisplay(v))
  BY Zenon DEF UpdateId, IdRead
<1>2. reply # Owed
  BY <1>1, FreeToEnter DEF InUpdate
<1>3. <<"credId", v>> \in IdentityItem
  BY ItemsKnown DEF ValueTags
<1>4. CASE Throw /\ UNCHANGED hash
  BY <1>1, <1>2, <1>4, ThrowRefuses
<1>5. CASE /\ Feed(<<<<"credId", v>>>>)
           /\ Review(UPDATECRED, IdRead(CredentialView(UPDATECRED)), uiSignUpdateCredentialIdDisplay(v))
  <2>1. /\ latch' = UPDATECRED /\ ctx' = IdRead(CredentialView(UPDATECRED))
        /\ Draws(uiSignUpdateCredentialIdDisplay(v))
    BY <1>2, <1>5, ReviewDraws
  <2>2. FollowsUpdate("ID", ctx') /\ CredentialView(UPDATECRED) = ctx
    BY <1>1, <2>1, UpdateOpen
  <2>3. Grows(hash, hash', <<"credId", v>>)
    BY <1>3, <1>5, FeedGrows DEF Typed
  <2> QED
    BY <2>1, <2>2, <2>3, Zenon
<1> QED
  BY <1>1, <1>4, <1>5

LEMMA ThresholdParts ==
    ASSUME Gated, Typed, UpdateThreshold
    PROVE  \E v \in Vals :
              /\ FollowsUpdate("THRESHOLD", ctx) /\ Draws(uiSignUpdateCredentialThresholdDisplay(v))
              /\ Grows(hash, hash', <<"threshold", v>>)
<1>1. PICK v \in Vals :
          /\ InUpdate("THRESHOLD") /\ UNCHANGED txConst /\ Feed(<<<<"threshold", v>>>>)
          /\ Review(UPDATECRED, CredentialView(UPDATECRED), uiSignUpdateCredentialThresholdDisplay(v))
  BY Zenon DEF UpdateThreshold
<1>2. reply # Owed
  BY <1>1, FreeToEnter DEF InUpdate
<1>3. /\ latch' = UPDATECRED /\ ctx' = CredentialView(UPDATECRED)
      /\ Draws(uiSignUpdateCredentialThresholdDisplay(v))
  BY <1>1, <1>2, ReviewDraws
<1>4. FollowsUpdate("THRESHOLD", ctx') /\ CredentialView(UPDATECRED) = ctx
  BY <1>1, <1>3, UpdateOpen
<1>5. <<"threshold", v>> \in IdentityItem
  BY ItemsKnown DEF ValueTags
<1>6. Grows(hash, hash', <<"threshold", v>>)
  BY <1>1, <1>5, FeedGrows DEF Typed
<1> QED
  BY <1>3, <1>4, <1>6, Zenon

\* The information for the identity provider.
IpBegun(c, v, n) == [c EXCEPT !.ids = v, !.keysLeft = n, !.showIntro = TRUE, !.state = "VERIFICATION_KEY"]
IpKeyRead(c, v) == [c EXCEPT !.key = v, !.keysLeft = @ - 1]
IpKeysDone(c) == [c EXCEPT !.state = "THRESHOLD"]
IpThresholdRead(c, v) == [c EXCEPT !.threshold = v]

FollowsIp(st, d) ==
    /\ latch = IPINFO /\ latch' = IPINFO /\ ctx \in IpContexts /\ ctx.state = st /\ ctx' = d
    /\ path' = path /\ approved' = approved

LEMMA IpViewKnown ==
    ASSUME Gated, Typed, Enters(IPINFO)
    PROVE  /\ IpView \in IpContexts /\ reply # Owed
           /\ IpView.state \notin {"zero", "INITIAL"} => latch = IPINFO /\ ctx \in IpContexts /\ IpView = ctx
<1>1. reply # Owed /\ latch \in {NONE, IPINFO}
  BY FreeToEnter
<1>2. IpZero.state = "zero" /\ IpZeroAt("INITIAL").state = "INITIAL"
  BY DEF IpZero, IpZeroAt
<1>3. CASE latch = NONE
  <2>1. IpView = IpZeroAt("INITIAL")
    BY <1>3 DEF IpView, IsInitialCall, IpZeroAt
  <2> QED
    BY <1>1, <1>2, <2>1, IpZeroKnown
<1>4. CASE latch = IPINFO
  <2>1. IpView = IF ctx = Wiped THEN IpZero ELSE ctx
    BY <1>4 DEF IpView, IsInitialCall, IPINFO, NONE
  <2>2. ctx \in IpContexts \cup {Wiped}
    BY <1>4 DEF Typed
  <2> QED
    BY <1>1, <1>2, <1>4, <2>1, <2>2, IpZeroKnown
<1> QED
  BY <1>1, <1>3, <1>4

LEMMA IpInitialParts ==
    ASSUME Gated, Typed, IpInitial
    PROVE  \/ Refuses
           \/ \E p \in Paths, v \in Vals, n \in 0 .. KeysMax, c \in IpContexts :
                 /\ latch' = IPINFO /\ ctx' = IpBegun(c, v, n) /\ path' = p /\ approved' = {} /\ Quiet
                 /\ hash' = <<<<"idCredPub", v>>, <<"credId", v>>, <<"keyCount", n>>>>
<1>1. PICK p \in Paths, v \in Vals, n \in 0 .. KeysMax :
          LET t == <<<<"idCredPub", v>>, <<"credId", v>>, <<"keyCount", n>>>>
          IN  /\ Enters(IPINFO)
              /\ \/ BeginTranscript(p, t) /\ Ack(IPINFO, IpBegun(IpView, v, n))
                 \/ BeginThrows(p, SubSeq(t, 1, 2))
  BY Zenon DEF IpInitial, IpBegun
<1> DEFINE x == <<"idCredPub", v>>
           y == <<"credId", v>>
           z == <<"keyCount", n>>
           t == <<x, y, z>>
<1>2. x \in IdentityItem /\ y \in IdentityItem
  BY ItemsKnown DEF ValueTags
<1>3. IpView \in IpContexts /\ reply # Owed
  BY <1>1, IpViewKnown
<1>4. CASE BeginThrows(p, SubSeq(t, 1, 2))
  <2> HIDE DEF x, y, z
  <2>1. SubSeq(t, 1, 2) \in Seq(IdentityItem)
    BY <1>2, FirstTwo
  <2> QED
    BY <1>3, <1>4, <2>1, BeginThrowsRefuses
<1>5. CASE BeginTranscript(p, t) /\ Ack(IPINFO, IpBegun(IpView, v, n))
  <2> HIDE DEF x, y, z
  <2>1. latch' = IPINFO /\ ctx' = IpBegun(IpView, v, n) /\ Quiet
    BY <1>3, <1>5, AckIsQuiet
  <2>2. path' = p /\ hash' = t /\ approved' = {}
    BY <1>5 DEF BeginTranscript
  <2> QED
    BY <1>3, <2>1, <2>2, Zenon DEF x, y, z
<1> QED
  BY <1>1, <1>4, <1>5

LEMMA FeedThreeGrows ==
    ASSUME hash \in Seq(IdentityItem), NEW x \in IdentityItem, NEW y \in IdentityItem,
           NEW z \in IdentityItem, Feed(<<x, y, z>>)
    PROVE  GrowsThree(hash, hash', x, y, z)
<1> DEFINE q == <<x, y, z>>
<1>1. q \in Seq(IdentityItem) /\ Len(q) = 3 /\ q[1] = x /\ q[2] = y /\ q[3] = z
  OBVIOUS
<1>2. hash' = hash \o q
  BY DEF Feed
<1> HIDE DEF q
<1>3. /\ hash \o q \in Seq(IdentityItem) /\ Len(hash \o q) = Len(hash) + Len(q)
      /\ \A i \in 1 .. Len(hash) : (hash \o q)[i] = hash[i]
      /\ \A i \in 1 .. Len(q) : (hash \o q)[Len(hash) + i] = q[i]
  BY <1>1, ConcatParts
<1>4. /\ hash' \in Seq(IdentityItem) /\ Len(hash') = Len(hash) + 3
      /\ \A i \in 1 .. Len(hash) : hash'[i] = hash[i]
      /\ hash'[Len(hash) + 1] = x /\ hash'[Len(hash) + 2] = y /\ hash'[Len(hash) + 3] = z
  BY <1>1, <1>2, <1>3
<1> QED
  BY <1>4, ThreeMore

LEMMA IpKeyParts ==
    ASSUME Gated, Typed, IpKey
    PROVE  \/ Refuses
           \/ \E v \in Vals :
                 /\ ctx.keysLeft > 0
                 /\ GrowsThree(hash, hash', <<"keyType", v>>, <<"keyIndex", v>>, <<"key", v>>)
                 /\ \/ /\ IpKeyRead(ctx, v).keysLeft # 0
                       /\ FollowsIp("VERIFICATION_KEY", AfterIntro(IpKeyRead(ctx, v)))
                       /\ Draws(IF ctx.showIntro THEN uiReviewPublicInformationForIpDisplay(IpKeyRead(ctx, v))
                                ELSE uiSignPublicInformationForIpPublicKeyDisplay(IpKeyRead(ctx, v)))
                    \/ /\ IpKeyRead(ctx, v).keysLeft = 0 /\ Quiet
                       /\ FollowsIp("VERIFICATION_KEY", IpKeysDone(AfterIntro(IpKeyRead(ctx, v))))
<1>1. PICK v \in Vals :
          LET c == IpView
              d == IpKeyRead(c, v)
              t == <<<<"keyType", v>>, <<"keyIndex", v>>, <<"key", v>>>>
          IN  /\ Enters(IPINFO) /\ c.state = "VERIFICATION_KEY" /\ UNCHANGED txConst
              /\ \/ Throw /\ UNCHANGED hash
                 \/ ThrowAfterPrefix(SubSeq(t, 1, 2))
                 \/ /\ KeyIsDue(c) /\ d.keysLeft # 0 /\ Feed(t)
                    /\ Review(IPINFO, AfterIntro(d),
                              IF c.showIntro THEN uiReviewPublicInformationForIpDisplay(d)
                              ELSE uiSignPublicInformationForIpPublicKeyDisplay(d))
                 \/ KeyIsDue(c) /\ d.keysLeft = 0 /\ Feed(t) /\ Ack(IPINFO, IpKeysDone(AfterIntro(d)))
  BY Zenon DEF IpKey, IpKeyRead, IpKeysDone
<1> DEFINE d == IpKeyRead(ctx, v)
           s == IF ctx.showIntro THEN uiReviewPublicInformationForIpDisplay(d)
                ELSE uiSignPublicInformationForIpPublicKeyDisplay(d)
           x == <<"keyType", v>>
           y == <<"keyIndex", v>>
           z == <<"key", v>>
           t == <<x, y, z>>
<1>2. x \in IdentityItem /\ y \in IdentityItem /\ z \in IdentityItem
  BY ItemsKnown DEF ValueTags
<1>3. reply # Owed /\ latch = IPINFO /\ ctx \in IpContexts /\ IpView = ctx /\ ctx.state = "VERIFICATION_KEY"
  BY <1>1, IpViewKnown
<1>4. UNCHANGED txConst /\ path' = path /\ approved' = approved
  BY <1>1 DEF txConst
<1>5. \/ Throw /\ UNCHANGED hash
      \/ ThrowAfterPrefix(SubSeq(t, 1, 2))
      \/ KeyIsDue(ctx) /\ d.keysLeft # 0 /\ Feed(t) /\ Review(IPINFO, AfterIntro(d), s)
      \/ KeyIsDue(ctx) /\ d.keysLeft = 0 /\ Feed(t) /\ Ack(IPINFO, IpKeysDone(AfterIntro(d)))
  BY <1>1, <1>3, Zenon
<1> HIDE DEF x, y, z, d, s
<1>6. CASE Throw /\ UNCHANGED hash
  BY <1>3, <1>4, <1>6, ThrowRefuses
<1>7. CASE ThrowAfterPrefix(SubSeq(t, 1, 2))
  <2>1. SubSeq(t, 1, 2) \in Seq(IdentityItem)
    BY <1>2, FirstTwo
  <2> QED
    BY <1>3, <1>4, <1>7, <2>1, PrefixRefuses
<1>8. Feed(t) => GrowsThree(hash, hash', x, y, z)
  BY <1>2, FeedThreeGrows DEF Typed
<1>9. CASE KeyIsDue(ctx) /\ d.keysLeft # 0 /\ Feed(t) /\ Review(IPINFO, AfterIntro(d), s)
  <2>1. latch' = IPINFO /\ ctx' = AfterIntro(d) /\ Draws(s) /\ ctx.keysLeft > 0
    BY <1>3, <1>9, ReviewDraws DEF KeyIsDue
  <2>2. FollowsIp("VERIFICATION_KEY", AfterIntro(d))
    BY <1>3, <1>4, <2>1 DEF FollowsIp
  <2> QED
    BY <1>8, <1>9, <2>1, <2>2, Zenon DEF d, s, x, y, z
<1>10. CASE KeyIsDue(ctx) /\ d.keysLeft = 0 /\ Feed(t) /\ Ack(IPINFO, IpKeysDone(AfterIntro(d)))
  <2>1. latch' = IPINFO /\ ctx' = IpKeysDone(AfterIntro(d)) /\ Quiet /\ ctx.keysLeft > 0
    BY <1>3, <1>10, AckIsQuiet DEF KeyIsDue
  <2>2. FollowsIp("VERIFICATION_KEY", IpKeysDone(AfterIntro(d)))
    BY <1>3, <1>4, <2>1 DEF FollowsIp
  <2> QED
    BY <1>8, <1>10, <2>1, <2>2, Zenon DEF d, x, y, z
<1> QED
  BY <1>5, <1>6, <1>7, <1>9, <1>10

LEMMA IpThresholdParts ==
    ASSUME Gated, Typed, IpThreshold
    PROVE  \E v \in Vals :
              /\ FollowsIp("THRESHOLD", IpThresholdRead(ctx, v)) /\ Grows(hash, hash', <<"threshold", v>>)
              /\ Draws(IF IpThresholdRead(ctx, v).showIntro
                       THEN uiSignPublicInformationForIpCompleteDisplay(IpThresholdRead(ctx, v))
                       ELSE uiSignPublicInformationForIpFinalDisplay(IpThresholdRead(ctx, v)))
<1>1. PICK v \in Vals :
          LET c == IpThresholdRead(IpView, v)
          IN  /\ Enters(IPINFO) /\ c.state = "THRESHOLD" /\ UNCHANGED txConst
              /\ Feed(<<<<"threshold", v>>>>)
              /\ Review(IPINFO, c, IF c.showIntro THEN uiSignPublicInformationForIpCompleteDisplay(c)
                                   ELSE uiSignPublicInformationForIpFinalDisplay(c))
  BY Zenon DEF IpThreshold, IpThresholdRead
<1>2. IpThresholdRead(IpView, v).state = IpView.state
  BY <1>1, IpViewKnown DEF IpContexts, IpThresholdRead
<1>3. reply # Owed /\ latch = IPINFO /\ ctx \in IpContexts /\ IpView = ctx /\ ctx.state = "THRESHOLD"
  BY <1>1, <1>2, IpViewKnown
<1>4. path' = path /\ approved' = approved
  BY <1>1 DEF txConst
<1> DEFINE c == IpThresholdRead(ctx, v)
           s == IF c.showIntro THEN uiSignPublicInformationForIpCompleteDisplay(c)
                ELSE uiSignPublicInformationForIpFinalDisplay(c)
<1>5. Feed(<<<<"threshold", v>>>>) /\ Review(IPINFO, c, s)
  BY <1>1, <1>3, Zenon
<1> HIDE DEF c, s
<1>6. latch' = IPINFO /\ ctx' = c /\ Draws(s)
  BY <1>3, <1>5, ReviewDraws
<1>7. <<"threshold", v>> \in IdentityItem
  BY ItemsKnown DEF ValueTags
<1>8. Grows(hash, hash', <<"threshold", v>>)
  BY <1>5, <1>7, FeedGrows DEF Typed
<1>9. FollowsIp("THRESHOLD", c)
  BY <1>3, <1>4, <1>6 DEF FollowsIp
<1> QED
  BY <1>6, <1>8, <1>9, Zenon DEF c, s

-----------------------------------------------------------------------------
(* Each packet keeps the type of the union and of the screen, and is a step *)
(* of the contract.                                                         *)

PacketShape ==
    /\ reply # Owed /\ reply' \in {Refused, Success(<< >>), Owed}
    /\ approved' = {} \/ (approved' = approved /\ Extends(hash, hash'))

Sound == Typed' /\ Screens' /\ PacketShape

LEMMA AnswersDiffer ==
    Refused # Owed /\ Success(<< >>) # Owed /\ Declined # Owed /\ Idle # Owed
  BY DEF Refused, Success, Owed, Declined, Idle

LEMMA RestingScreens ==
    /\ Home.cb = "home" /\ Stale.cb = "stale" /\ Home.items = {} /\ Stale.items = {}
    /\ "early" \notin DOMAIN Home /\ "early" \notin DOMAIN Stale
  BY DEF Home, Stale

\* With no review up, nothing else is asked of the screen.
LEMMA RestKeepsScreens ==
    ASSUME screen' \in {Home, Stale}, reply' # Owed PROVE Screens'
<1>1. /\ screen'.cb \in {"home", "stale"}
      /\ "early" \notin DOMAIN screen'
  BY RestingScreens
<1>2. ~ReviewUp'
  BY <1>1 DEF ReviewUp
<1> QED
  BY <1>1, <1>2 DEF Screens

LEMMA RestsUnlessOwed ==
    ASSUME Screens, reply # Owed PROVE screen \in {Home, Stale}
  BY DEF Screens

LEMMA RefusesSound == ASSUME Typed, Screens, Refuses PROVE Sound
<1>1. latch' = NONE /\ ctx' = Wiped /\ reply' = Refused /\ screen' = screen /\ keyPending' = keyPending
  BY DEF Refuses, Throw
<1>2. reply # Owed
  BY DEF Refuses
<1>3. Screens'
  BY <1>1, <1>2, RestKeepsScreens, RestsUnlessOwed, AnswersDiffer
<1>4. Typed'
  BY <1>1, InssKnown DEF Typed, Refuses
<1> QED
  BY <1>1, <1>2, <1>3, <1>4 DEF Sound, PacketShape, Refuses

\* A review that is drawn fits the flow that draws it.
Fits(s, ins, d) ==
    /\ s.cb \in {"proceed", "nextKey", "attribute", "added", "sign"}
    /\ s.cb \in {"nextKey", "attribute", "added"} =>
           /\ ins \in CredentialInss /\ d \in Credentials
           /\ ins = UPDATECRED => d.update = "CREDENTIAL"
    /\ s.cb = "nextKey" => d.state = AfterKey
    /\ s.cb = "attribute" => d.state = "ATTRIBUTE_VALUE"
    /\ s.cb = "added" => ins = UPDATECRED /\ d.state = "PROOFS" /\ DetailRows(d) \subseteq s.items
    /\ s.cb = "proceed" => ins = IPINFO \/ (ins = UPDATECRED /\ d.update # "CREDENTIAL")
    /\ ~Bagl => "early" \notin DOMAIN s \/ s.early = {}

LEMMA DrawnScreens ==
    ASSUME NEW s, NEW ins \in IdentityInss, NEW d, d # Wiped, Draws(s), Fits(s, ins, d), latch' = ins, ctx' = d
    PROVE  Screens'
<1>1. screen' = s /\ reply' = Owed
  BY DEF Draws
<1>2. ReviewUp'
  BY <1>1 DEF ReviewUp, Fits
<1>3. screen'.cb = "nextKey" => InCredential(AfterKey)'
  BY <1>1 DEF Fits, InCredential
<1>4. screen'.cb = "attribute" => InCredential("ATTRIBUTE_VALUE")'
  BY <1>1 DEF Fits, InCredential
<1>5. screen'.cb = "added" => latch' = UPDATECRED /\ InCredential("PROOFS")' /\ DetailRows(ctx') \subseteq screen'.items
  BY <1>1 DEF Fits, InCredential
<1>6. screen'.cb = "proceed" => latch' = IPINFO \/ (latch' = UPDATECRED /\ ctx'.update # "CREDENTIAL")
  BY <1>1 DEF Fits
<1>7. ~Bagl => "early" \notin DOMAIN screen' \/ screen'.early = {}
  BY <1>1 DEF Fits
<1> QED
  BY <1>1, <1>2, <1>3, <1>4, <1>5, <1>6, <1>7 DEF Screens

\* What every packet that is taken keeps.
Takes(ins, d) ==
    /\ latch' = ins /\ ctx' = d /\ hash' \in Seq(IdentityItem) /\ path' \in Paths \cup {path}
    /\ keyPending' = keyPending
    /\ \/ ins \in CredentialInss /\ d \in Credentials
       \/ ins = IPINFO /\ d \in IpContexts
    /\ approved' = {} \/ (approved' = approved /\ Extends(hash, hash'))

LEMMA TakesTyped ==
    ASSUME Typed, NEW ins, NEW d, Takes(ins, d) PROVE Typed' /\ ins \in IdentityInss /\ d # Wiped
<1>1. ins \in IdentityInss /\ d # Wiped
  BY InssKnown, ZeroKnown, IpFields DEF Takes
<1>2. Typed'
  BY <1>1, InssKnown DEF Typed, Takes
<1> QED
  BY <1>1, <1>2

LEMMA QuietSound ==
    ASSUME Typed, Screens, NEW ins, NEW d, Takes(ins, d), Quiet PROVE Sound
<1>1. Screens'
  BY RestKeepsScreens, RestsUnlessOwed, AnswersDiffer DEF Quiet
<1> QED
  BY <1>1, TakesTyped DEF Sound, PacketShape, Takes, Quiet

LEMMA DrawsSound ==
    ASSUME Typed, Screens, NEW ins, NEW d, NEW s, Takes(ins, d), Draws(s), Fits(s, ins, d) PROVE Sound
<1>1. Typed' /\ ins \in IdentityInss /\ d # Wiped
  BY TakesTyped
<1>2. Screens'
  BY <1>1, DrawnScreens DEF Takes
<1> QED
  BY <1>1, <1>2 DEF Sound, PacketShape, Takes, Draws

LEMMA StageTakes ==
    ASSUME NEW ins, NEW st, NEW d \in Credentials, Follows(ins, st, d), keyPending' = keyPending,
           Extends(hash, hash')
    PROVE  Takes(ins, d)
  BY DEF Follows, Takes, Extends

LEMMA UpdateTakes ==
    ASSUME NEW u, NEW d \in Credentials, FollowsUpdate(u, d), keyPending' = keyPending, Extends(hash, hash')
    PROVE  Takes(UPDATECRED, d)
  BY InssKnown DEF FollowsUpdate, Takes, Extends

LEMMA IpTakes ==
    ASSUME NEW st, NEW d \in IpContexts, FollowsIp(st, d), keyPending' = keyPending, Extends(hash, hash')
    PROVE  Takes(IPINFO, d)
  BY DEF FollowsIp, Takes, Extends

\* The reviews: callback, rows, and no acknowledging step on NBGL.
LEMMA ReviewsKnown ==
    /\ \A c : LET s == uiSignCredentialDeploymentVerificationKeyFlowDisplay(c)
              IN  s.cb = "nextKey" /\ s.items = KeyRow(c) /\ (~Bagl => s.early = {})
    /\ \A c, v : LET s == uiSignCredentialDeploymentAttributeDisplay(c, v)
                 IN  s.cb = "attribute" /\ s.items = {<<"attribute", c.tag, v>>} /\ "early" \notin DOMAIN s
    /\ \A c : LET s == uiSignUpdateCredentialAddedCredentialDisplay(c)
              IN  s.cb = "added" /\ s.items = DetailRows(c) /\ "early" \notin DOMAIN s
    /\ \A c, x : LET s == uiSignCredentialDeploymentExistingDisplay(c, x)
                 IN  /\ s.cb = "sign" /\ (~Bagl => s.early = {})
                     /\ s.items = DetailRows(c) \cup IF x[1] = "address" THEN {x} ELSE {}
    /\ \A a : LET s == uiSignUpdateCredentialInitialDisplay(a)
              IN  s.cb = "proceed" /\ s.items = HeaderPairs(a) /\ "early" \notin DOMAIN s
    /\ \A v : LET s == uiSignUpdateCredentialIdDisplay(v)
              IN  s.cb = "proceed" /\ s.items = {<<"credId", v>>} /\ "early" \notin DOMAIN s
    /\ \A v : LET s == uiSignUpdateCredentialThresholdDisplay(v)
              IN  s.cb = "sign" /\ s.items = {<<"threshold", v>>} /\ "early" \notin DOMAIN s
<1>1. \A c : LET s == uiSignCredentialDeploymentVerificationKeyFlowDisplay(c)
             IN  s.cb = "nextKey" /\ s.items = KeyRow(c) /\ (~Bagl => s.early = {})
  BY DEF uiSignCredentialDeploymentVerificationKeyFlowDisplay, FromReviewDetails
<1>2. \A c, v : LET s == uiSignCredentialDeploymentAttributeDisplay(c, v)
                IN  s.cb = "attribute" /\ s.items = {<<"attribute", c.tag, v>>} /\ "early" \notin DOMAIN s
  BY DEF uiSignCredentialDeploymentAttributeDisplay
<1>3. \A c : LET s == uiSignUpdateCredentialAddedCredentialDisplay(c)
             IN  s.cb = "added" /\ s.items = DetailRows(c) /\ "early" \notin DOMAIN s
  BY DEF uiSignUpdateCredentialAddedCredentialDisplay
<1>4. \A c, x : LET s == uiSignCredentialDeploymentExistingDisplay(c, x)
                IN  /\ s.cb = "sign" /\ (~Bagl => s.early = {})
                    /\ s.items = DetailRows(c) \cup IF x[1] = "address" THEN {x} ELSE {}
  BY DEF uiSignCredentialDeploymentExistingDisplay, FromReviewDetails, FromArThreshold
<1>5. \A a : LET s == uiSignUpdateCredentialInitialDisplay(a)
             IN  s.cb = "proceed" /\ s.items = HeaderPairs(a) /\ "early" \notin DOMAIN s
  BY DEF uiSignUpdateCredentialInitialDisplay
<1>6. \A v : LET s == uiSignUpdateCredentialIdDisplay(v)
             IN  s.cb = "proceed" /\ s.items = {<<"credId", v>>} /\ "early" \notin DOMAIN s
  BY DEF uiSignUpdateCredentialIdDisplay
<1>7. \A v : LET s == uiSignUpdateCredentialThresholdDisplay(v)
             IN  s.cb = "sign" /\ s.items = {<<"threshold", v>>} /\ "early" \notin DOMAIN s
  BY DEF uiSignUpdateCredentialThresholdDisplay
<1> QED
  BY <1>1, <1>2, <1>3, <1>4, <1>5, <1>6, <1>7

LEMMA IpReviewsKnown ==
    /\ \A c : LET s == uiReviewPublicInformationForIpDisplay(c)
              IN  s.cb = "proceed" /\ s.items = KeyRows(c) \cup IdRows(c) /\ (~Bagl => s.early = {})
    /\ \A c : LET s == uiSignPublicInformationForIpPublicKeyDisplay(c)
              IN  s.cb = "proceed" /\ s.items = KeyRows(c) /\ s.early = {}
    /\ \A c : LET s == uiSignPublicInformationForIpCompleteDisplay(c)
              IN  /\ s.cb = "sign" /\ (~Bagl => s.early = {})
                  /\ s.items = KeyRows(c) \cup IdRows(c) \cup {<<"threshold", c.threshold>>}
    /\ \A c : LET s == uiSignPublicInformationForIpFinalDisplay(c)
              IN  s.cb = "sign" /\ s.items = KeyRows(c) \cup {<<"threshold", c.threshold>>} /\ s.early = {}
<1>1. \A c : LET s == uiReviewPublicInformationForIpDisplay(c)
             IN  s.cb = "proceed" /\ s.items = KeyRows(c) \cup IdRows(c) /\ (~Bagl => s.early = {})
  BY DEF uiReviewPublicInformationForIpDisplay, FromIntro
<1>2. \A c : LET s == uiSignPublicInformationForIpPublicKeyDisplay(c)
             IN  s.cb = "proceed" /\ s.items = KeyRows(c) /\ s.early = {}
  BY DEF uiSignPublicInformationForIpPublicKeyDisplay
<1>3. \A c : LET s == uiSignPublicInformationForIpCompleteDisplay(c)
             IN  /\ s.cb = "sign" /\ (~Bagl => s.early = {})
                 /\ s.items = KeyRows(c) \cup IdRows(c) \cup {<<"threshold", c.threshold>>}
  BY DEF uiSignPublicInformationForIpCompleteDisplay, FromIntro
<1>4. \A c : LET s == uiSignPublicInformationForIpFinalDisplay(c)
             IN  s.cb = "sign" /\ s.items = KeyRows(c) \cup {<<"threshold", c.threshold>>} /\ s.early = {}
  BY DEF uiSignPublicInformationForIpFinalDisplay
<1> QED
  BY <1>1, <1>2, <1>3, <1>4

\* A packet of a credential that is acknowledged, or that draws a review.
LEMMA StageQuiet ==
    ASSUME Typed, Screens, NEW ins, NEW st, NEW d \in Credentials, Follows(ins, st, d), Quiet,
           Extends(hash, hash')
    PROVE  Sound
<1>1. Takes(ins, d)
  BY StageTakes DEF Quiet
<1> QED
  BY <1>1, QuietSound

LEMMA StageDraws ==
    ASSUME Typed, Screens, NEW ins, NEW st, NEW d \in Credentials, Follows(ins, st, d), Extends(hash, hash'),
           NEW s, Draws(s), Fits(s, ins, d)
    PROVE  Sound
<1>1. Takes(ins, d)
  BY StageTakes DEF Draws
<1> QED
  BY <1>1, DrawsSound

LEMMA KeysLengthSound ==
    ASSUME Gated, Typed, Screens, NEW ins \in CredentialInss, CredentialKeysLength(ins) PROVE Sound
<1>1. PICK n \in 0 .. ListMax :
              /\ Follows(ins, "VERIFICATION_KEYS_LENGTH", KeysAnnounced(ctx, n))
              /\ Grows(hash, hash', <<"keysLength", n>>) /\ Quiet
  BY KeysLengthParts
<1>2. ctx \in Credentials
  BY <1>1 DEF Follows
<1>3. KeysAnnounced(ctx, n) \in Credentials
  BY <1>2, KeysAnnouncedKnown
<1> QED
  BY <1>1, <1>3, StageQuiet, GrowsExtends

LEMMA KeySound ==
    ASSUME Gated, Typed, Screens, NEW ins \in CredentialInss, CredentialKey(ins) PROVE Sound
<1>1. CASE Refuses
  BY <1>1, RefusesSound
<1>2. ASSUME NEW v \in Vals, Grows(hash, hash', <<"key", v>>), ctx.keysLeft > 1,
             Follows(ins, "VERIFICATION_KEY", KeyParked(ctx, v)),
             Draws(uiSignCredentialDeploymentVerificationKeyFlowDisplay(
                        [ctx EXCEPT !.key = v, !.keysLeft = @ - 1]))
      PROVE  Sound
  <2> DEFINE d == KeyParked(ctx, v)
             s == uiSignCredentialDeploymentVerificationKeyFlowDisplay([ctx EXCEPT !.key = v, !.keysLeft = @ - 1])
  <2>1. ctx \in Credentials /\ (ins = UPDATECRED => ctx.update = "CREDENTIAL")
    BY <1>2 DEF Follows
  <2>2. d \in Credentials /\ Kept(ctx, d, {"state", "key", "keysLeft"}) /\ d.state = AfterKey
    BY <1>2, <2>1, KeyParkedKnown
  <2>3. s.cb = "nextKey" /\ (~Bagl => s.early = {})
    BY ReviewsKnown
  <2>4. Follows(ins, "VERIFICATION_KEY", d) /\ Draws(s)
    BY <1>2
  <2> HIDE DEF d, s
  <2>5. d.update = ctx.update
    BY <2>2 DEF Kept, CredentialFields
  <2>6. Fits(s, ins, d)
    BY <2>1, <2>2, <2>3, <2>5 DEF Fits
  <2> QED
    BY <1>2, <2>2, <2>4, <2>6, StageDraws, GrowsExtends
<1>3. ASSUME NEW v \in Vals, Grows(hash, hash', <<"key", v>>), ctx.keysLeft = 1,
             Follows(ins, "VERIFICATION_KEY", KeyLast(ctx, v)), Quiet
      PROVE  Sound
  <2>1. ctx \in Credentials
    BY <1>3 DEF Follows
  <2>2. KeyLast(ctx, v) \in Credentials
    BY <1>3, <2>1, KeyLastKnown
  <2> QED
    BY <1>3, <2>2, StageQuiet, GrowsExtends
<1> QED
  BY <1>1, <1>2, <1>3, KeyParts

LEMMA FourExtend ==
    ASSUME NEW s, NEW t, NEW a, NEW b, NEW c, NEW d, GrowsFour(s, t, a, b, c, d)
    PROVE  Extends(s, t) /\ Len(t) = Len(s) + 4
<1>1. PICK u, v, w : Grows(s, w, a) /\ Grows(w, u, b) /\ Grows(u, v, c) /\ Grows(v, t, d)
  BY DEF GrowsFour, GrowsTwo
<1>2. /\ Len(s) \in Nat /\ Len(w) = Len(s) + 1 /\ Len(u) = Len(w) + 1 /\ Len(v) = Len(u) + 1
      /\ Len(t) = Len(v) + 1
  BY <1>1 DEF Grows
<1>3. \A k \in 1 .. Len(s) : t[k] = s[k]
  <2> TAKE k \in 1 .. Len(s)
  <2>1. k \in 1 .. Len(w) /\ k \in 1 .. Len(u) /\ k \in 1 .. Len(v)
    BY <1>2
  <2> QED
    BY <1>1, <2>1 DEF Grows
<1>4. s \in Seq(IdentityItem) /\ t \in Seq(IdentityItem)
  BY <1>1 DEF Grows
<1> QED
  BY <1>2, <1>3, <1>4 DEF Extends

LEMMA TwoExtend ==
    ASSUME NEW s, NEW t, NEW x, NEW y, GrowsTwo(s, t, x, y)
    PROVE  Extends(s, t) /\ Len(t) = Len(s) + 2 /\ t[Len(s) + 1] = x /\ t[Len(s) + 2] = y
<1>1. PICK u : Grows(s, u, x) /\ Grows(u, t, y)
  BY DEF GrowsTwo
<1>2. Len(s) \in Nat /\ Len(u) = Len(s) + 1 /\ Len(t) = Len(u) + 1
  BY <1>1 DEF Grows
<1>3. \A k \in 1 .. Len(s) : t[k] = s[k]
  <2> TAKE k \in 1 .. Len(s)
  <2>1. k \in 1 .. Len(u)
    BY <1>2
  <2> QED
    BY <1>1, <2>1 DEF Grows
<1>4. s \in Seq(IdentityItem) /\ t \in Seq(IdentityItem)
  BY <1>1 DEF Grows
<1>5. t[Len(s) + 1] = x /\ t[Len(s) + 2] = y
  <2>1. Len(s) + 1 \in 1 .. Len(u) /\ Len(s) + 1 = Len(u) /\ Len(s) + 2 = Len(t)
    BY <1>2
  <2> QED
    BY <1>1, <2>1 DEF Grows
<1> QED
  BY <1>2, <1>3, <1>4, <1>5 DEF Extends

LEMMA ThreeExtend ==
    ASSUME NEW s, NEW t, NEW x, NEW y, NEW z, GrowsThree(s, t, x, y, z)
    PROVE  /\ Extends(s, t) /\ Len(t) = Len(s) + 3
           /\ t[Len(s) + 1] = x /\ t[Len(s) + 2] = y /\ t[Len(s) + 3] = z
<1>1. PICK u : GrowsTwo(s, u, x, y) /\ Grows(u, t, z)
  BY DEF GrowsThree
<1>2. /\ Extends(s, u) /\ Len(u) = Len(s) + 2 /\ u[Len(s) + 1] = x /\ u[Len(s) + 2] = y
  BY <1>1, TwoExtend
<1>3. Len(s) \in Nat /\ Len(t) = Len(u) + 1
  BY <1>1, <1>2 DEF Grows, Extends
<1>4. \A k \in 1 .. Len(u) : t[k] = u[k]
  BY <1>1 DEF Grows
<1>5. \A k \in 1 .. Len(s) : t[k] = s[k]
  <2> TAKE k \in 1 .. Len(s)
  <2>1. k \in 1 .. Len(u)
    BY <1>2, <1>3
  <2> QED
    BY <1>2, <1>4, <2>1 DEF Extends
<1>6. t[Len(s) + 1] = x /\ t[Len(s) + 2] = y /\ t[Len(s) + 3] = z
  <2>1. Len(s) + 1 \in 1 .. Len(u) /\ Len(s) + 2 \in 1 .. Len(u) /\ Len(s) + 3 = Len(t)
    BY <1>2, <1>3
  <2> QED
    BY <1>1, <1>2, <1>4, <2>1 DEF Grows
<1>7. s \in Seq(IdentityItem) /\ t \in Seq(IdentityItem)
  BY <1>1, <1>2 DEF Grows, Extends
<1> QED
  BY <1>2, <1>3, <1>5, <1>6, <1>7 DEF Extends

LEMMA DetailsSound ==
    ASSUME Gated, Typed, Screens, NEW ins \in CredentialInss, CredentialDetails(ins) PROVE Sound
<1>1. CASE Refuses
  BY <1>1, RefusesSound
<1>2. ASSUME NEW v \in Vals, NEW q \in Providers, NEW n \in 0 .. ListMax,
             Follows(ins, "SIGNATURE_THRESHOLD", DetailsRead(ctx, v, q, n)), Quiet,
             GrowsFour(hash, hash', <<"signatureThreshold", v>>, <<"regIdCred", v>>,
                       <<"identityProvider", q>>, <<"arThreshold", v, n>>)
      PROVE  Sound
  <2>1. ctx \in Credentials
    BY <1>2 DEF Follows
  <2>2. DetailsRead(ctx, v, q, n) \in Credentials
    BY <2>1, DetailsReadKnown
  <2> QED
    BY <1>2, <2>2, StageQuiet, FourExtend
<1> QED
  BY <1>1, <1>2, DetailsParts

LEMMA RevokerSound ==
    ASSUME Gated, Typed, Screens, NEW ins \in CredentialInss, CredentialRevoker(ins) PROVE Sound
<1>1. CASE Refuses
  BY <1>1, RefusesSound
<1>2. ASSUME NEW v \in Vals, ctx.arsLeft # 0, Follows(ins, "AR_IDENTITY", RevokerRead(ctx, v)), Quiet,
             Grows(hash, hash', <<"ar", v>>)
      PROVE  Sound
  <2>1. ctx \in Credentials /\ ctx.state = "AR_IDENTITY"
    BY <1>2 DEF Follows
  <2>2. RevokerRead(ctx, v) \in Credentials
    BY <1>2, <2>1, RevokerReadKnown
  <2> QED
    BY <1>2, <2>2, StageQuiet, GrowsExtends
<1> QED
  BY <1>1, <1>2, RevokerParts

LEMMA DatesSound ==
    ASSUME Gated, Typed, Screens, NEW ins \in CredentialInss, CredentialDates(ins) PROVE Sound
<1>1. CASE Refuses
  BY <1>1, RefusesSound
<1>2. ASSUME NEW v \in Vals, NEW n \in 0 .. ListMax, Follows(ins, "CREDENTIAL_DATES", DatesRead(ctx, n)), Quiet,
             Grows(hash, hash', <<"dates", v, n>>)
      PROVE  Sound
  <2>1. ctx \in Credentials
    BY <1>2 DEF Follows
  <2>2. DatesRead(ctx, n) \in Credentials
    BY <2>1, DatesReadKnown
  <2> QED
    BY <1>2, <2>2, StageQuiet, GrowsExtends
<1> QED
  BY <1>1, <1>2, DatesParts

LEMMA TagSound ==
    ASSUME Gated, Typed, Screens, NEW ins \in CredentialInss, CredentialTag(ins) PROVE Sound
<1>1. CASE Refuses
  BY <1>1, RefusesSound
<1>2. ASSUME NEW v \in Vals, Follows(ins, "ATTRIBUTE_TAG", TagRead(ctx, v)), Quiet,
             Grows(hash, hash', <<"tag", v>>)
      PROVE  Sound
  <2>1. ctx \in Credentials /\ ctx.state = "ATTRIBUTE_TAG"
    BY <1>2 DEF Follows
  <2>2. TagRead(ctx, v) \in Credentials
    BY <2>1, TagReadKnown
  <2> QED
    BY <1>2, <2>2, StageQuiet, GrowsExtends
<1> QED
  BY <1>1, <1>2, TagParts

LEMMA ValueSound ==
    ASSUME Gated, Typed, Screens, NEW ins \in CredentialInss, CredentialValue(ins) PROVE Sound
<1>1. CASE Refuses
  BY <1>1, RefusesSound
<1>2. ASSUME NEW v \in Vals, Follows(ins, "ATTRIBUTE_VALUE", ctx),
             Draws(uiSignCredentialDeploymentAttributeDisplay(ctx, v)), Grows(hash, hash', <<"value", v>>)
      PROVE  Sound
  <2> DEFINE s == uiSignCredentialDeploymentAttributeDisplay(ctx, v)
  <2>1. ctx \in Credentials /\ ctx.state = "ATTRIBUTE_VALUE" /\ (ins = UPDATECRED => ctx.update = "CREDENTIAL")
    BY <1>2 DEF Follows
  <2>2. s.cb = "attribute" /\ "early" \notin DOMAIN s
    BY ReviewsKnown
  <2>3. Draws(s)
    BY <1>2
  <2> HIDE DEF s
  <2>4. Fits(s, ins, ctx)
    BY <2>1, <2>2 DEF Fits
  <2> QED
    BY <1>2, <2>1, <2>3, <2>4, StageDraws, GrowsExtends
<1> QED
  BY <1>1, <1>2, ValueParts

LEMMA ProofLengthSound ==
    ASSUME Gated, Typed, Screens, NEW ins \in CredentialInss, CredentialProofLength(ins) PROVE Sound
<1>1. CASE Refuses
  BY <1>1, RefusesSound
<1>2. ASSUME NEW n \in 0 .. ProofMax, Follows(ins, "LENGTH_OF_PROOFS", ProofAnnounced(ctx, n)), Quiet,
             Grows(hash, hash', <<"proofLength", n>>) \/ (ins # UPDATECRED /\ hash' = hash)
      PROVE  Sound
  <2>1. ctx \in Credentials
    BY <1>2 DEF Follows
  <2>2. ProofAnnounced(ctx, n) \in Credentials
    BY <2>1, ProofAnnouncedKnown
  <2>3. Extends(hash, hash')
    BY <1>2, GrowsExtends, SameExtends DEF Typed
  <2> QED
    BY <1>2, <2>2, <2>3, StageQuiet
<1> QED
  BY <1>1, <1>2, ProofLengthParts

LEMMA ProofsSound ==
    ASSUME Gated, Typed, Screens, NEW ins \in CredentialInss, CredentialProofs(ins) PROVE Sound
<1>1. CASE Refuses
  BY <1>1, RefusesSound
<1>2. CASE /\ ctx.proofLeft > CdataMax /\ Grows(hash, hash', <<"proof", CdataMax>>)
           /\ Follows(ins, "PROOFS", ProofRead(ctx)) /\ Quiet
  <2>1. ctx \in Credentials
    BY <1>2 DEF Follows
  <2>2. ProofRead(ctx) \in Credentials
    BY <1>2, <2>1, ProofReadKnown
  <2> QED
    BY <1>2, <2>2, StageQuiet, GrowsExtends
<1>3. CASE /\ Grows(hash, hash', <<"proof", ctx.proofLeft>>) /\ ins = UPDATECRED /\ Follows(ins, "PROOFS", ctx)
           /\ Draws(uiSignUpdateCredentialAddedCredentialDisplay(ctx))
  <2> DEFINE s == uiSignUpdateCredentialAddedCredentialDisplay(ctx)
  <2>1. ctx \in Credentials /\ ctx.state = "PROOFS" /\ ctx.update = "CREDENTIAL"
    BY <1>3 DEF Follows
  <2>2. s.cb = "added" /\ s.items = DetailRows(ctx) /\ "early" \notin DOMAIN s
    BY ReviewsKnown
  <2>3. Draws(s)
    BY <1>3
  <2> HIDE DEF s
  <2>4. Fits(s, ins, ctx)
    BY <1>3, <2>1, <2>2, InssKnown DEF Fits
  <2> QED
    BY <1>3, <2>1, <2>3, <2>4, StageDraws, GrowsExtends
<1>4. CASE /\ Grows(hash, hash', <<"proof", ctx.proofLeft>>)
           /\ ins # UPDATECRED /\ Follows(ins, "PROOFS", ProofsRead(ctx)) /\ Quiet
  <2>1. ctx \in Credentials
    BY <1>4 DEF Follows
  <2>2. ProofsRead(ctx) \in Credentials
    BY <2>1, ProofsReadKnown
  <2> QED
    BY <1>4, <2>2, StageQuiet, GrowsExtends
<1> QED
  BY <1>1, <1>2, <1>3, <1>4, ProofsParts

LEMMA NewOrExistingSound ==
    ASSUME Gated, Typed, Screens, CredentialNewOrExisting(CREDENTIAL) PROVE Sound
<1>1. CASE Refuses
  BY <1>1, RefusesSound
<1>2. ASSUME NEW v \in Vals, NEW tag \in {"expiry", "address"}, Follows(CREDENTIAL, "NEW_OR_EXISTING", ctx),
             Draws(uiSignCredentialDeploymentExistingDisplay(ctx, <<tag, v>>)),
             GrowsTwo(hash, hash', <<"newOrExisting", tag>>, <<tag, v>>)
      PROVE  Sound
  <2> DEFINE s == uiSignCredentialDeploymentExistingDisplay(ctx, <<tag, v>>)
  <2>1. ctx \in Credentials
    BY <1>2 DEF Follows
  <2>2. s.cb = "sign" /\ (~Bagl => s.early = {})
    BY ReviewsKnown
  <2>3. Draws(s)
    BY <1>2
  <2> HIDE DEF s
  <2>4. Fits(s, CREDENTIAL, ctx)
    BY <2>2 DEF Fits
  <2> QED
    BY <1>2, <2>1, <2>3, <2>4, StageDraws, TwoExtend
<1> QED
  BY <1>1, <1>2, NewOrExistingParts

LEMMA InitialSound == ASSUME Gated, Typed, Screens, CredentialInitial PROVE Sound
<1>1. CASE Refuses
  BY <1>1, RefusesSound
<1>2. ASSUME NEW p \in Paths, NEW c \in Credentials, latch' = CREDENTIAL, ctx' = Begun(c), path' = p,
             hash' = << >>, approved' = {}, Quiet
      PROVE  Sound
  <2>1. Begun(c) \in Credentials
    BY BegunKnown
  <2>2. Takes(CREDENTIAL, Begun(c))
    BY <1>2, <2>1, InssKnown DEF Takes, Quiet
  <2> QED
    BY <1>2, <2>2, QuietSound
<1> QED
  BY <1>1, <1>2, InitialParts

LEMMA UpdateInitialSound == ASSUME Gated, Typed, Screens, UpdateInitial PROVE Sound
<1>1. CASE Refuses
  BY <1>1, RefusesSound
<1>2. ASSUME NEW h \in Headers, NEW p \in Paths, NEW n \in 0 .. ListMax, NEW c \in Credentials,
             latch' = UPDATECRED, ctx' = UpdateBegun(c, n), path' = p, approved' = {},
             Draws(uiSignUpdateCredentialInitialDisplay(AccountSender(h, p))),
             GrowsThree(<< >>, hash', <<"header", h>>, <<"kind", UPDATECRED>>, <<"credentialCount", n>>)
      PROVE  Sound
  <2> DEFINE d == UpdateBegun(c, n)
             s == uiSignUpdateCredentialInitialDisplay(AccountSender(h, p))
  <2>1. d \in Credentials /\ d.update = IF n = 0 THEN "ID_COUNT" ELSE "CREDENTIAL_INDEX"
    BY UpdateBegunKnown
  <2>2. s.cb = "proceed" /\ "early" \notin DOMAIN s
    BY ReviewsKnown
  <2>3. Draws(s) /\ ctx' = d
    BY <1>2
  <2> HIDE DEF s, d
  <2>4. Fits(s, UPDATECRED, d)
    BY <2>1, <2>2 DEF Fits
  <2>5. hash' \in Seq(IdentityItem)
    BY <1>2, ThreeExtend DEF Extends
  <2>6. Takes(UPDATECRED, d)
    BY <1>2, <2>1, <2>3, <2>5, InssKnown DEF Takes, Draws
  <2> QED
    BY <2>3, <2>4, <2>6, DrawsSound
<1> QED
  BY <1>1, <1>2, UpdateInitialParts

LEMMA IndexSound == ASSUME Gated, Typed, Screens, UpdateIndex PROVE Sound
<1>1. PICK v \in Vals :
              /\ ctx.credentialsLeft > 0 /\ FollowsUpdate("CREDENTIAL_INDEX", IndexRead(ctx)) /\ Quiet
              /\ Grows(hash, hash', <<"credentialIndex", v>>)
  BY IndexParts
<1>2. ctx \in Credentials
  BY <1>1 DEF FollowsUpdate
<1>3. IndexRead(ctx) \in Credentials
  BY <1>1, <1>2, IndexReadKnown
<1>4. Takes(UPDATECRED, IndexRead(ctx))
  BY <1>1, <1>3, UpdateTakes, GrowsExtends DEF Quiet
<1> QED
  BY <1>1, <1>4, QuietSound

LEMMA IdCountSound == ASSUME Gated, Typed, Screens, UpdateIdCount PROVE Sound
<1>1. PICK n \in 0 .. ListMax :
              /\ FollowsUpdate("ID_COUNT", IdsAnnounced(ctx, n)) /\ Quiet
              /\ Grows(hash, hash', <<"idCount", n>>)
  BY IdCountParts
<1>2. ctx \in Credentials
  BY <1>1 DEF FollowsUpdate
<1>3. IdsAnnounced(ctx, n) \in Credentials
  BY <1>1, <1>2, IdsAnnouncedKnown
<1>4. Takes(UPDATECRED, IdsAnnounced(ctx, n))
  BY <1>1, <1>3, UpdateTakes, GrowsExtends DEF Quiet
<1> QED
  BY <1>1, <1>4, QuietSound

LEMMA IdSound == ASSUME Gated, Typed, Screens, UpdateId PROVE Sound
<1>1. CASE Refuses
  BY <1>1, RefusesSound
<1>2. ASSUME NEW v \in Vals, FollowsUpdate("ID", IdRead(ctx)), Draws(uiSignUpdateCredentialIdDisplay(v)),
             Grows(hash, hash', <<"credId", v>>)
      PROVE  Sound
  <2> DEFINE d == IdRead(ctx)
             s == uiSignUpdateCredentialIdDisplay(v)
  <2>1. ctx \in Credentials /\ ctx.update = "ID"
    BY <1>2 DEF FollowsUpdate
  <2>2. d \in Credentials /\ d.update = IF ctx.idsLeft = 1 THEN "THRESHOLD" ELSE "ID"
    BY <2>1, IdReadKnown
  <2>3. s.cb = "proceed" /\ "early" \notin DOMAIN s
    BY ReviewsKnown
  <2>4. Draws(s) /\ FollowsUpdate("ID", d)
    BY <1>2
  <2> HIDE DEF s, d
  <2>5. Fits(s, UPDATECRED, d)
    BY <2>2, <2>3 DEF Fits
  <2>6. Takes(UPDATECRED, d)
    BY <1>2, <2>2, <2>4, UpdateTakes, GrowsExtends DEF Draws
  <2> QED
    BY <2>4, <2>5, <2>6, DrawsSound
<1> QED
  BY <1>1, <1>2, IdParts

LEMMA ThresholdSound == ASSUME Gated, Typed, Screens, UpdateThreshold PROVE Sound
<1>1. PICK v \in Vals :
              /\ FollowsUpdate("THRESHOLD", ctx) /\ Draws(uiSignUpdateCredentialThresholdDisplay(v))
              /\ Grows(hash, hash', <<"threshold", v>>)
  BY ThresholdParts
<1> DEFINE s == uiSignUpdateCredentialThresholdDisplay(v)
<1>2. ctx \in Credentials
  BY <1>1 DEF FollowsUpdate
<1>3. s.cb = "sign" /\ "early" \notin DOMAIN s
  BY ReviewsKnown
<1>4. Draws(s)
  BY <1>1
<1> HIDE DEF s
<1>5. Fits(s, UPDATECRED, ctx)
  BY <1>3 DEF Fits
<1>6. Takes(UPDATECRED, ctx)
  BY <1>1, <1>2, UpdateTakes, GrowsExtends DEF Draws
<1> QED
  BY <1>4, <1>5, <1>6, DrawsSound

\* What the packets for the identity provider do to the context.
LEMMA IpBegunKnown ==
    ASSUME NEW c \in IpContexts, NEW v \in Vals, NEW n \in 0 .. KeysMax, NEW d, d = IpBegun(c, v, n)
    PROVE  /\ d \in IpContexts /\ d.state = "VERIFICATION_KEY" /\ d.ids = v /\ d.keysLeft = n
           /\ d.showIntro = TRUE
<1>1. d.state = "VERIFICATION_KEY" /\ d.ids = v /\ d.keysLeft = n /\ d.showIntro = TRUE
  BY IpFields DEF IpBegun, IpContexts
<1>2. d \in IpContexts
  BY IpFields DEF IpBegun, IpContexts, IpStates
<1> QED
  BY <1>1, <1>2

LEMMA IpKeyReadKnown ==
    ASSUME NEW c \in IpContexts, NEW v \in Vals, c.keysLeft > 0, NEW d, d = IpKeyRead(c, v)
    PROVE  /\ d \in IpContexts /\ d.key = v /\ d.keysLeft = c.keysLeft - 1
           /\ d.ids = c.ids /\ d.showIntro = c.showIntro /\ d.state = c.state
<1> DEFINE n == c.keysLeft - 1
<1>1. n \in 0 .. KeysMax /\ c.state # "THRESHOLD"
  BY IpFields, KeysAssumption
<1>2. d = [c EXCEPT !.key = v, !.keysLeft = n]
  BY DEF IpKeyRead
<1> HIDE DEF n
<1>3. /\ d \in IpContexts /\ d.key = v /\ d.keysLeft = n
      /\ d.ids = c.ids /\ d.showIntro = c.showIntro /\ d.state = c.state
  BY <1>1, <1>2 DEF IpContexts
<1> QED
  BY <1>3 DEF n

LEMMA AfterIntroKnown ==
    ASSUME NEW c \in IpContexts, NEW d, d = AfterIntro(c)
    PROVE  /\ d \in IpContexts /\ d.key = c.key /\ d.keysLeft = c.keysLeft /\ d.ids = c.ids /\ d.state = c.state
           /\ c.keysLeft # 0 => d.showIntro = FALSE
           /\ c.keysLeft = 0 => d.showIntro = c.showIntro
<1>1. CASE c.keysLeft # 0
  <2>1. d = [c EXCEPT !.showIntro = FALSE]
    BY <1>1 DEF AfterIntro
  <2> QED
    BY <1>1, <2>1 DEF IpContexts
<1>2. CASE c.keysLeft = 0
  BY <1>2 DEF AfterIntro
<1> QED
  BY <1>1, <1>2

LEMMA IpKeysDoneKnown ==
    ASSUME NEW c \in IpContexts, c.keysLeft = 0, c.key \in Vals, NEW d, d = IpKeysDone(c)
    PROVE  /\ d \in IpContexts /\ d.key = c.key /\ d.keysLeft = 0 /\ d.ids = c.ids
           /\ d.showIntro = c.showIntro /\ d.state = "THRESHOLD"
  BY DEF IpKeysDone, IpContexts, IpStates

LEMMA IpThresholdReadKnown ==
    ASSUME NEW c \in IpContexts, NEW v \in Vals, NEW d, d = IpThresholdRead(c, v)
    PROVE  /\ d \in IpContexts /\ d.key = c.key /\ d.keysLeft = c.keysLeft /\ d.ids = c.ids
           /\ d.showIntro = c.showIntro /\ d.state = c.state /\ d.threshold = v
  BY DEF IpThresholdRead, IpContexts

LEMMA IpInitialSound == ASSUME Gated, Typed, Screens, IpInitial PROVE Sound
<1>1. CASE Refuses
  BY <1>1, RefusesSound
<1>2. ASSUME NEW p \in Paths, NEW v \in Vals, NEW n \in 0 .. KeysMax, NEW c \in IpContexts,
             latch' = IPINFO, ctx' = IpBegun(c, v, n), path' = p, approved' = {}, Quiet,
             hash' = <<<<"idCredPub", v>>, <<"credId", v>>, <<"keyCount", n>>>>
      PROVE  Sound
  <2>1. IpBegun(c, v, n) \in IpContexts
    BY IpBegunKnown
  <2>2. /\ <<"idCredPub", v>> \in IdentityItem /\ <<"credId", v>> \in IdentityItem
        /\ <<"keyCount", n>> \in IdentityItem
    BY ItemsKnown, KeysAssumption DEF ValueTags, CountTags
  <2>3. hash' \in Seq(IdentityItem)
    <3> DEFINE x == <<"idCredPub", v>>
               y == <<"credId", v>>
               z == <<"keyCount", n>>
    <3>1. x \in IdentityItem /\ y \in IdentityItem /\ z \in IdentityItem /\ hash' = <<x, y, z>>
      BY <1>2, <2>2
    <3> HIDE DEF x, y, z
    <3> QED
      BY <3>1
  <2>4. Takes(IPINFO, IpBegun(c, v, n))
    BY <1>2, <2>1, <2>3 DEF Takes, Quiet
  <2> QED
    BY <1>2, <2>4, QuietSound
<1> QED
  BY <1>1, <1>2, IpInitialParts

LEMMA IpKeySound == ASSUME Gated, Typed, Screens, IpKey PROVE Sound
<1>1. CASE Refuses
  BY <1>1, RefusesSound
<1>2. ASSUME NEW v \in Vals, ctx.keysLeft > 0,
             GrowsThree(hash, hash', <<"keyType", v>>, <<"keyIndex", v>>, <<"key", v>>),
             IpKeyRead(ctx, v).keysLeft # 0,
             FollowsIp("VERIFICATION_KEY", AfterIntro(IpKeyRead(ctx, v))),
             Draws(IF ctx.showIntro THEN uiReviewPublicInformationForIpDisplay(IpKeyRead(ctx, v))
                   ELSE uiSignPublicInformationForIpPublicKeyDisplay(IpKeyRead(ctx, v)))
      PROVE  Sound
  <2> DEFINE k == IpKeyRead(ctx, v)
             d == AfterIntro(k)
             s == IF ctx.showIntro THEN uiReviewPublicInformationForIpDisplay(k)
                  ELSE uiSignPublicInformationForIpPublicKeyDisplay(k)
  <2>1. ctx \in IpContexts
    BY <1>2 DEF FollowsIp
  <2>2. k \in IpContexts
    BY <1>2, <2>1, IpKeyReadKnown
  <2>3. d \in IpContexts
    BY <2>2, AfterIntroKnown
  <2>4. s.cb = "proceed" /\ (~Bagl => s.early = {})
    BY IpReviewsKnown
  <2>5. Draws(s) /\ FollowsIp("VERIFICATION_KEY", d)
    BY <1>2
  <2> HIDE DEF s, d, k
  <2>6. Fits(s, IPINFO, d)
    BY <2>4 DEF Fits
  <2>7. Takes(IPINFO, d)
    BY <1>2, <2>3, <2>5, IpTakes, ThreeExtend DEF Draws
  <2> QED
    BY <2>5, <2>6, <2>7, DrawsSound
<1>3. ASSUME NEW v \in Vals, ctx.keysLeft > 0,
             GrowsThree(hash, hash', <<"keyType", v>>, <<"keyIndex", v>>, <<"key", v>>),
             IpKeyRead(ctx, v).keysLeft = 0, Quiet,
             FollowsIp("VERIFICATION_KEY", IpKeysDone(AfterIntro(IpKeyRead(ctx, v))))
      PROVE  Sound
  <2> DEFINE k == IpKeyRead(ctx, v)
             e == AfterIntro(k)
             d == IpKeysDone(e)
  <2>1. ctx \in IpContexts
    BY <1>3 DEF FollowsIp
  <2>2. k \in IpContexts /\ k.key = v
    BY <1>3, <2>1, IpKeyReadKnown
  <2>3. e \in IpContexts /\ e.keysLeft = 0 /\ e.key \in Vals
    BY <1>3, <2>2, AfterIntroKnown
  <2>4. d \in IpContexts
    BY <2>3, IpKeysDoneKnown
  <2>5. FollowsIp("VERIFICATION_KEY", d)
    BY <1>3
  <2> HIDE DEF d, e, k
  <2>6. Takes(IPINFO, d)
    BY <1>3, <2>4, <2>5, IpTakes, ThreeExtend DEF Quiet
  <2> QED
    BY <1>3, <2>6, QuietSound
<1> QED
  BY <1>1, <1>2, <1>3, IpKeyParts

LEMMA IpThresholdSound == ASSUME Gated, Typed, Screens, IpThreshold PROVE Sound
<1>1. PICK v \in Vals :
              /\ FollowsIp("THRESHOLD", IpThresholdRead(ctx, v)) /\ Grows(hash, hash', <<"threshold", v>>)
              /\ Draws(IF IpThresholdRead(ctx, v).showIntro
                       THEN uiSignPublicInformationForIpCompleteDisplay(IpThresholdRead(ctx, v))
                       ELSE uiSignPublicInformationForIpFinalDisplay(IpThresholdRead(ctx, v)))
  BY IpThresholdParts
<1> DEFINE d == IpThresholdRead(ctx, v)
           s == IF d.showIntro THEN uiSignPublicInformationForIpCompleteDisplay(d)
                ELSE uiSignPublicInformationForIpFinalDisplay(d)
<1>2. ctx \in IpContexts
  BY <1>1 DEF FollowsIp
<1>3. d \in IpContexts
  BY <1>2, IpThresholdReadKnown
<1>4. s.cb = "sign" /\ (~Bagl => s.early = {})
  BY IpReviewsKnown
<1>5. Draws(s) /\ FollowsIp("THRESHOLD", d)
  BY <1>1
<1> HIDE DEF s, d
<1>6. Fits(s, IPINFO, d)
  BY <1>4 DEF Fits
<1>7. Takes(IPINFO, d)
  BY <1>1, <1>3, <1>5, IpTakes, GrowsExtends DEF Draws
<1> QED
  BY <1>5, <1>6, <1>7, DrawsSound

\* Every packet of the three flows.
LEMMA IdentityPacketSound ==
    ASSUME Gated, Typed, Screens, IpPacket \/ CredentialPacket PROVE Sound
<1>1. CASE IpPacket
  <2>1. CASE IpWrongState
    <3>1. reply # Owed /\ Throw /\ UNCHANGED hash /\ UNCHANGED txConst
      BY <2>1, FreeToEnter DEF IpWrongState, noFlow, txConst
    <3> QED
      BY <3>1, ThrowRefuses, RefusesSound
  <2> QED
    BY <1>1, <2>1, IpInitialSound, IpKeySound, IpThresholdSound DEF IpPacket
<1>2. CASE CredentialPacket
  <2>1. CASE CredentialWrongState
    <3>1. reply # Owed /\ Throw /\ UNCHANGED hash /\ UNCHANGED txConst
      BY <2>1, FreeToEnter DEF CredentialWrongState, noFlow, txConst
    <3> QED
      BY <3>1, ThrowRefuses, RefusesSound
  <2>2. ASSUME NEW ins \in CredentialInss,
               \/ CredentialKeysLength(ins) \/ CredentialKey(ins) \/ CredentialDetails(ins)
               \/ CredentialRevoker(ins) \/ CredentialDates(ins)
               \/ CredentialTag(ins) \/ CredentialValue(ins)
               \/ CredentialProofLength(ins) \/ CredentialProofs(ins)
        PROVE  Sound
    BY <2>2, KeysLengthSound, KeySound, DetailsSound, RevokerSound, DatesSound, TagSound, ValueSound,
       ProofLengthSound, ProofsSound
  <2> QED
    BY <1>2, <2>1, <2>2, InitialSound, NewOrExistingSound, UpdateInitialSound, IndexSound, IdCountSound,
       IdSound, ThresholdSound DEF CredentialPacket
<1> QED
  BY <1>1, <1>2

-----------------------------------------------------------------------------
(* Buttons, and the steps that belong to no flow. *)

\* A button answers the review on screen.
Settles ==
    /\ ReviewUp /\ reply = Owed
    /\ UNCHANGED <<hash, path>> /\ approved \subseteq approved'
    /\ screen' \in {Home, Stale} /\ keyPending' = FALSE

GoesOnWith(d) ==
    /\ Settles /\ latch' = latch /\ ctx' = d /\ reply' = Success(<< >>)
    /\ approved' = approved \cup screen.items

LEMMA UpMeansOwed ==
    ASSUME Screens, screen.cb \in {"proceed", "nextKey", "attribute", "added", "sign"}
    PROVE  ReviewUp /\ reply = Owed
  BY DEF Screens, ReviewUp

LEMMA NextKeyParts ==
    ASSUME Typed, Screens, processNextVerificationKey
    PROVE  screen.cb = "nextKey" /\ InCredential(AfterKey) /\ GoesOnWith(KeyAccepted(ctx))
<1>1. screen.cb = "nextKey" /\ InCredential(AfterKey) /\ ReviewUp /\ reply = Owed
  BY UpMeansOwed DEF processNextVerificationKey, Screens
<1>2. ctx \in Credentials /\ OnScreen = ctx
  BY <1>1, ZeroKnown DEF InCredential, OnScreen
<1>3. MovesOn(KeyAccepted(ctx)) /\ CallbackFrame
  BY <1>2 DEF processNextVerificationKey, KeyAccepted
<1> QED
  BY <1>1, <1>3 DEF MovesOn, CallbackFrame, GoesOnWith, Settles, Typed

LEMMA AttributeParts ==
    ASSUME Typed, Screens, confirmAttribute
    PROVE  /\ screen.cb = "attribute" /\ InCredential("ATTRIBUTE_VALUE") /\ ctx.attributesLeft # 0
           /\ GoesOnWith(AttributeAccepted(ctx))
<1>1. screen.cb = "attribute" /\ InCredential("ATTRIBUTE_VALUE") /\ ReviewUp /\ reply = Owed
  BY UpMeansOwed DEF confirmAttribute, Screens
<1>2. ctx \in Credentials /\ OnScreen = ctx /\ ctx.state = "ATTRIBUTE_VALUE"
  BY <1>1, ZeroKnown DEF InCredential, OnScreen
<1>3. ctx.attributesLeft # 0
  BY <1>2 DEF Credentials, Consistent
<1>4. MovesOn(AttributeAccepted(ctx)) /\ CallbackFrame
  BY <1>2, <1>3 DEF confirmAttribute, AttributeAccepted
<1> QED
  BY <1>1, <1>3, <1>4 DEF MovesOn, CallbackFrame, GoesOnWith, Settles, Typed

LEMMA AddedParts ==
    ASSUME Typed, Screens, confirmAddedCredential
    PROVE  /\ screen.cb = "added" /\ latch = UPDATECRED /\ InCredential("PROOFS") /\ ctx.credentialsLeft # 0
           /\ DetailRows(ctx) \subseteq screen.items /\ GoesOnWith(AddedAccepted(ctx))
<1>1. /\ screen.cb = "added" /\ latch = UPDATECRED /\ InCredential("PROOFS") /\ ReviewUp /\ reply = Owed
      /\ DetailRows(ctx) \subseteq screen.items
  BY UpMeansOwed DEF confirmAddedCredential, Screens
<1>2. ctx \in Credentials /\ OnScreen = ctx /\ ctx.update = "CREDENTIAL"
  BY <1>1, ZeroKnown DEF InCredential, OnScreen
<1>3. ctx.credentialsLeft # 0
  BY <1>2 DEF Credentials, Consistent
<1>4. MovesOn(AddedAccepted(ctx)) /\ CallbackFrame
  BY <1>2, <1>3 DEF confirmAddedCredential, AddedAccepted
<1> QED
  BY <1>1, <1>3, <1>4 DEF MovesOn, CallbackFrame, GoesOnWith, Settles, Typed

LEMMA ProceedParts ==
    ASSUME Typed, Screens, sendSuccessNoIdleCallback PROVE screen.cb = "proceed" /\ GoesOnWith(ctx)
  BY UpMeansOwed DEF sendSuccessNoIdleCallback, GoesOnWith, Settles, Typed

LEMMA AcknowledgingParts ==
    ASSUME Typed, Screens, AcknowledgingStep
    PROVE  Bagl /\ Settles /\ latch' = latch /\ ctx' = ctx /\ reply' = Success(<< >>)
<1>1. "early" \in DOMAIN screen /\ \E seen \in screen.early : approved' = approved \cup seen
  BY DEF AcknowledgingStep
<1>2. ReviewUp /\ reply = Owed
  BY <1>1, RestingScreens DEF Screens
<1>3. Bagl
  BY <1>1 DEF Screens
<1> QED
  BY <1>1, <1>2, <1>3 DEF AcknowledgingStep, Settles, Typed

\* The flow ends: signed, failed or declined.
LEMMA EndParts ==
    ASSUME Typed, Screens, buildAndSignTransactionHash \/ SigningFails \/ DeclineCredential
    PROVE  /\ Settles /\ latch' = NONE /\ ctx' \in {ctx, Wiped}
           /\ \/ /\ buildAndSignTransactionHash /\ screen.cb = "sign"
                 /\ reply' = Success(<<"signature", hash, path>>) /\ approved' = approved \cup screen.items
              \/ reply' \in {Refused, Declined}
<1>1. CASE buildAndSignTransactionHash
  <2>1. screen.cb = "sign" /\ ReviewUp /\ reply = Owed
    BY <1>1, UpMeansOwed DEF buildAndSignTransactionHash
  <2> QED
    BY <1>1, <2>1 DEF buildAndSignTransactionHash, send_success, ui_menu_main, Settles
<1>2. CASE SigningFails
  <2>1. ReviewUp /\ reply = Owed
    BY <1>2, UpMeansOwed DEF SigningFails
  <2> QED
    BY <1>2, <2>1 DEF SigningFails, CallbackThrow, ui_menu_main, Settles
<1>3. CASE DeclineCredential
  <2>1. ReviewUp /\ reply = Owed
    BY <1>3, UpMeansOwed DEF DeclineCredential
  <2> QED
    BY <1>3, <2>1 DEF DeclineCredential, UserDeclines, send_user_rejection, ui_menu_main, Settles, noFlow
<1> QED
  BY <1>1, <1>2, <1>3

LEMMA SettlesTyped ==
    ASSUME Typed, Settles, NEW ins, latch' = ins,
           \/ ins = NONE /\ ctx' \in {ctx, Wiped}
           \/ ins = latch /\ ctx' = ctx
           \/ ins = latch /\ latch \in CredentialInss /\ ctx' \in Credentials
    PROVE  Typed'
  BY InssKnown DEF Typed, Settles

LEMMA SettlesScreens == ASSUME Settles, reply' # Owed PROVE Screens'
  BY RestKeepsScreens DEF Settles

LEMMA SignatureIsAnswer ==
    Success(<<"signature", hash, path>>) # Owed
  BY DEF Success, Owed

LEMMA ButtonKeepsTyped ==
    ASSUME Typed, Screens, CredentialButton PROVE Typed' /\ Screens'
<1>1. CASE processNextVerificationKey
  <2>1. InCredential(AfterKey) /\ GoesOnWith(KeyAccepted(ctx))
    BY <1>1, NextKeyParts
  <2>2. KeyAccepted(ctx) \in Credentials
    BY <2>1, KeyAcceptedKnown DEF InCredential
  <2> QED
    BY <2>1, <2>2, SettlesTyped, SettlesScreens, AnswersDiffer DEF GoesOnWith, InCredential
<1>2. CASE confirmAttribute
  <2>1. InCredential("ATTRIBUTE_VALUE") /\ ctx.attributesLeft # 0 /\ GoesOnWith(AttributeAccepted(ctx))
    BY <1>2, AttributeParts
  <2>2. AttributeAccepted(ctx) \in Credentials
    BY <2>1, AttributeAcceptedKnown DEF InCredential
  <2> QED
    BY <2>1, <2>2, SettlesTyped, SettlesScreens, AnswersDiffer DEF GoesOnWith, InCredential
<1>3. CASE confirmAddedCredential
  <2>1. InCredential("PROOFS") /\ ctx.credentialsLeft # 0 /\ GoesOnWith(AddedAccepted(ctx))
    BY <1>3, AddedParts
  <2>2. AddedAccepted(ctx) \in Credentials
    BY <2>1, AddedAcceptedKnown DEF InCredential
  <2> QED
    BY <2>1, <2>2, SettlesTyped, SettlesScreens, AnswersDiffer DEF GoesOnWith, InCredential
<1>4. CASE sendSuccessNoIdleCallback
  BY <1>4, ProceedParts, SettlesTyped, SettlesScreens, AnswersDiffer DEF GoesOnWith
<1>5. CASE AcknowledgingStep
  BY <1>5, AcknowledgingParts, SettlesTyped, SettlesScreens, AnswersDiffer
<1>6. CASE buildAndSignTransactionHash \/ SigningFails \/ DeclineCredential
  <2>1. Settles /\ latch' = NONE /\ ctx' \in {ctx, Wiped} /\ reply' # Owed
    BY <1>6, EndParts, AnswersDiffer, SignatureIsAnswer
  <2> QED
    BY <2>1, SettlesTyped, SettlesScreens
<1> QED
  BY <1>1, <1>2, <1>3, <1>4, <1>5, <1>6 DEF CredentialButton

LEMMA ShellKnown ==
    ASSUME Gated, Typed, Screens, Shell(IdentityInss)
    PROVE  /\ reply # Owed /\ UNCHANGED noFlow /\ reply' \in {reply, Refused, Success(<< >>)}
           /\ screen \in {Home, Stale} /\ screen' \in {screen, Home} /\ keyPending' = FALSE
           /\ \/ latch' = latch /\ ctx' = ctx
              \/ latch' = NONE /\ ctx' \in {ctx, Wiped}
              \/ latch' \in IdentityInss \cup {"GET_APP_NAME"} /\ ctx' = Wiped
<1>1. keyPending = FALSE
  BY DEF Typed
<1>2. CASE BadCommand
  BY <1>1, <1>2, RestsUnlessOwed DEF BadCommand, Delivered
<1>3. ASSUME NEW ins \in IdentityInss \cup {"GET_APP_NAME"}, SwitchGuard(ins)
      PROVE  /\ reply # Owed /\ UNCHANGED noFlow /\ reply' = Refused /\ screen' = screen /\ keyPending' = FALSE
             /\ latch' = NONE /\ ctx' = ctx /\ screen \in {Home, Stale}
  BY <1>1, <1>3, RestsUnlessOwed DEF SwitchGuard, Delivered
<1>4. ASSUME NEW ins \in IdentityInss \cup {"GET_APP_NAME"}, RefusedByDispatcher(ins)
      PROVE  /\ reply # Owed /\ UNCHANGED noFlow /\ reply' = Refused /\ screen' = screen /\ keyPending' = FALSE
             /\ screen \in {Home, Stale}
             /\ \/ latch' = latch /\ ctx' = ctx
                \/ latch' \in IdentityInss \cup {"GET_APP_NAME"} /\ ctx' = Wiped
  <2>1. reply # Owed /\ latch \in {NONE, ins}
    BY <1>4 DEF RefusedByDispatcher, Enters, Delivered
  <2>2. screen \in {Home, Stale}
    BY <2>1, RestsUnlessOwed
  <2> QED
    BY <1>1, <1>4, <2>1, <2>2 DEF RefusedByDispatcher, Union, IsInitialCall
<1>5. CASE AppInfo("GET_APP_NAME")
  <2>1. reply # Owed /\ screen \in {Home, Stale}
    BY <1>5, FreeToEnter, RestsUnlessOwed DEF AppInfo
  <2> QED
    BY <1>1, <1>5, <2>1 DEF AppInfo, Union
<1>6. CASE UnknownInstruction
  <2>1. reply # Owed /\ screen \in {Home, Stale}
    BY <1>6, FreeToEnter, RestsUnlessOwed DEF UnknownInstruction
  <2> QED
    BY <1>1, <1>6, <2>1 DEF UnknownInstruction, send_rejection, Union
<1>7. CASE AboutBack
  <2>1. screen = Home /\ reply # Owed
    BY <1>7, RestingScreens DEF AboutBack, Screens, ReviewUp
  <2> QED
    BY <1>7, <2>1 DEF AboutBack, ui_menu_main
<1> QED
  BY <1>2, <1>3, <1>4, <1>5, <1>6, <1>7 DEF Shell

LEMMA ShellKeepsTyped ==
    ASSUME Gated, Typed, Screens, Shell(IdentityInss) PROVE Typed' /\ Screens'
<1>1. /\ reply # Owed /\ UNCHANGED noFlow /\ reply' \in {reply, Refused, Success(<< >>)}
      /\ screen \in {Home, Stale} /\ screen' \in {screen, Home} /\ keyPending' = FALSE
      /\ \/ latch' = latch /\ ctx' = ctx
         \/ latch' = NONE /\ ctx' \in {ctx, Wiped}
         \/ latch' \in IdentityInss \cup {"GET_APP_NAME"} /\ ctx' = Wiped
  BY ShellKnown
<1>2. Screens'
  BY <1>1, RestKeepsScreens, AnswersDiffer
<1>3. Typed'
  BY <1>1, InssKnown DEF Typed, noFlow
<1> QED
  BY <1>2, <1>3

LEMMA RestartTyped ==
    ASSUME Restart PROVE Typed' /\ Screens'
<1>1. Screens'
  BY RestKeepsScreens, AnswersDiffer DEF Restart
<1>2. Typed'
  BY InssKnown DEF Restart, Typed
<1> QED
  BY <1>1, <1>2

LEMMA IdentityStepTyped ==
    ASSUME Gated, Typed, Screens, [IdentityNext]_deviceVars PROVE Typed' /\ Screens'
<1>1. CASE UNCHANGED deviceVars
  BY <1>1 DEF deviceVars, Typed, Screens, ReviewUp, InCredential
<1>2. CASE IpPacket \/ CredentialPacket
  BY <1>2, IdentityPacketSound DEF Sound
<1> QED
  BY <1>1, <1>2, ButtonKeepsTyped, ShellKeepsTyped, RestartTyped DEF IdentityNext

LEMMA IdentityInitTyped == ASSUME DeviceInit PROVE Typed /\ Screens
<1>1. screen.cb = "home" /\ "early" \notin DOMAIN screen /\ reply # Owed /\ screen \in {Home, Stale}
  BY RestingScreens, AnswersDiffer DEF DeviceInit
<1>2. Screens
  BY <1>1 DEF Screens, ReviewUp
<1>3. Typed
  BY InssKnown DEF DeviceInit, Typed
<1> QED
  BY <1>2, <1>3

\* Every variable keeps its type under the gate, on either kind of screen: none
\* of the counts of list entries to come ever wraps, and each agrees with
\* the stage that the flow is in.
THEOREM IdentityTypeCorrect ==
    ASSUME Gated PROVE IdentitySpec => []IdentityTypeOK
<1>1. DeviceInit => Typed /\ Screens
  BY IdentityInitTyped
<1>2. Typed /\ Screens /\ [IdentityNext]_deviceVars => Typed' /\ Screens'
  BY IdentityStepTyped
<1>3. Typed /\ Screens => IdentityTypeOK
  <2> SUFFICES ASSUME Typed, Screens PROVE IdentityTypeOK
    OBVIOUS
  <2>1. ASSUME NEW c \in IpContexts PROVE IpContext(c)
    BY IpFields DEF IpContext
  <2>2. ASSUME NEW c \in Credentials PROVE CredentialContext(c)
    <3>1. Fields(c) /\ Consistent(c)
      BY FieldsKnown DEF Credentials
    <3>2. {c.keysLeft, c.arsLeft, c.attributesLeft, c.credentialsLeft, c.idsLeft} \subseteq 0 .. ListMax
      BY <3>1 DEF Fields
    <3> QED
      BY <3>1, <3>2 DEF Fields, Consistent, CredentialContext
  <2>3. ctx = Wiped \/ IpContext(ctx) \/ CredentialContext(ctx)
    BY <2>1, <2>2 DEF Typed
  <2>4. screen.cb \in {"home", "stale", "proceed", "nextKey", "attribute", "added", "sign"}
    BY RestingScreens DEF Screens, ReviewUp
  <2> QED
    BY <2>3, <2>4 DEF Typed, IdentityTypeOK
<1> QED
  BY <1>1, <1>2, <1>3, PTL DEF IdentitySpec

-----------------------------------------------------------------------------
(* A packet or a button keeps the transcript and the rows in step with the  *)
(* stage (NBGL).                                                            *)

\* What is known of the transcript, and what is still to be shown, by stage.
LEMMA SoFarIs ==
    ASSUME NEW s, NEW i, NEW c, NEW emb
    PROVE  /\ CredentialSoFar(s, i, c, "VERIFICATION_KEYS_LENGTH", emb) <=> Len(s) = i - 1
           /\ CredentialSoFar(s, i, c, "VERIFICATION_KEY", emb) <=> KeysComing(s, i, c.keysLeft)
           /\ CredentialSoFar(s, i, c, AfterKey, emb) <=> KeysComing(s, i, c.keysLeft) /\ c.keysLeft > 0
           /\ CredentialSoFar(s, i, c, "SIGNATURE_THRESHOLD", emb) <=> KeysRead(s, i, Len(s) + 1)
           /\ CredentialSoFar(s, i, c, "AR_IDENTITY", emb) <=> ArsComing(s, i, c.ars, c.arsLeft)
           /\ CredentialSoFar(s, i, c, "CREDENTIAL_DATES", emb) <=> HeadRead(s, i, Len(s) + 1)
           /\ CredentialSoFar(s, i, c, "ATTRIBUTE_TAG", emb) <=> AttributesComing(s, i, c.attributesLeft, 0)
           /\ CredentialSoFar(s, i, c, "ATTRIBUTE_VALUE", emb) <=>
                 AttributesComing(s, i, c.attributesLeft, 1) /\ s[Len(s)] = <<"tag", c.tag>>
           /\ CredentialSoFar(s, i, c, "shown", emb) <=> AttributesComing(s, i, c.attributesLeft, 2)
           /\ CredentialSoFar(s, i, c, "LENGTH_OF_PROOFS", emb) <=> AttributesComing(s, i, 0, 0)
           /\ CredentialSoFar(s, i, c, "PROOFS", emb) <=> ProofsComing(s, i, c.proofLeft, emb)
           /\ CredentialSoFar(s, i, c, "NEW_OR_EXISTING", emb) <=> IsCredential(s, i, Len(s), emb)
           /\ ~CredentialSoFar(s, i, c, "INITIAL", emb) /\ ~CredentialSoFar(s, i, c, "zero", emb)
  BY Zenon DEF CredentialSoFar, AfterKey

LEMMA DueIs ==
    ASSUME NEW c
    PROVE  /\ RowsDue(c, "VERIFICATION_KEYS_LENGTH") = {} /\ RowsDue(c, "VERIFICATION_KEY") = {}
           /\ RowsDue(c, AfterKey) = {} /\ RowsDue(c, "between") = {}
           /\ RowsDue(c, "SIGNATURE_THRESHOLD") = KeyRow(c)
           /\ c.arsLeft # 0 => RowsDue(c, "AR_IDENTITY") = DetailRows(c) \ {<<"arList", c.ars>>}
           /\ c.arsLeft = 0 => RowsDue(c, "AR_IDENTITY") = DetailRows(c)
           /\ RowsDue(c, "CREDENTIAL_DATES") = DetailRows(c)
           /\ RowsDue(c, "ATTRIBUTE_TAG") = DetailRows(c) /\ RowsDue(c, "ATTRIBUTE_VALUE") = DetailRows(c)
           /\ RowsDue(c, "shown") = DetailRows(c) /\ RowsDue(c, "LENGTH_OF_PROOFS") = DetailRows(c)
           /\ RowsDue(c, "PROOFS") = DetailRows(c) /\ RowsDue(c, "NEW_OR_EXISTING") = DetailRows(c)
  BY DEF RowsDue, AfterKey

GoesOn(s, c, st, t, d, st2, emb) ==
    \A i \in Nat \ {0} : CredentialSoFar(s, i, c, st, emb) => CredentialSoFar(t, i, d, st2, emb)

\* Neither a credential nor a transaction begins among the new items.
NoneBegins(s, t) ==
    \A k \in Len(s) + 1 .. Len(t) : t[k][1] # "credentialIndex" /\ t[k][1] # "kind"

LEMMA NetworkStays ==
    ASSUME NEW s, NEW t, Extends(s, t), NoneBegins(s, t), NEW p, NEW a, NEW b, a \subseteq b, NetworkShown(s, p, a)
    PROVE  NetworkShown(t, p, b)
<1>1. SUFFICES ASSUME <<"kind", UPDATECRED>> \in ItemsOf(t) PROVE <<"network", NetworkOf(p)>> \in b
  BY DEF NetworkShown
<1>2. PICK k \in DOMAIN t : t[k] = <<"kind", UPDATECRED>>
  BY <1>1 DEF ItemsOf
<1>3. k \in 1 .. Len(t) /\ t[k][1] = "kind" /\ Len(s) \in Nat /\ Len(t) \in Nat
  BY <1>2 DEF Extends
<1>4. ~(k \in Len(s) + 1 .. Len(t))
  BY <1>3 DEF NoneBegins
<1>5. k \in 1 .. Len(s)
  BY <1>3, <1>4
<1>6. s[k] = <<"kind", UPDATECRED>> /\ k \in DOMAIN s
  BY <1>2, <1>5 DEF Extends
<1>7. <<"kind", UPDATECRED>> \in ItemsOf(s)
  BY <1>6 DEF ItemsOf
<1> QED
  BY <1>7 DEF NetworkShown

\* At rest the stage is the context's, and nothing is on screen.
LEMMA AtRest ==
    ASSUME screen \in {Home, Stale}
    PROVE  /\ Shown = approved /\ screen.cb \notin {"sign", "attribute", "added", "proceed", "nextKey"}
           /\ ~(latch = UPDATECRED /\ ctx.update # "CREDENTIAL") => Stage = ctx.state
           /\ latch = UPDATECRED /\ ctx.update # "CREDENTIAL" => Stage = "between"
  BY RestingScreens DEF Shown, Stage

LEMMA StepGoesOn ==
    ASSUME Typed, FlowInv, NEW ins \in CredentialInss, latch = ins, latch' = ins, ctx \in Credentials,
           ctx' \in Credentials, screen.cb # "sign", screen'.cb # "sign", path' = path,
           ins = UPDATECRED => ctx.update = "CREDENTIAL" /\ ctx'.update = "CREDENTIAL"
                               /\ ctx'.credentialsLeft = ctx.credentialsLeft,
           NEW st, st = Stage, NEW st2, st2 = Stage', Extends(hash, hash'), NoneBegins(hash, hash'),
           ins = CREDENTIAL => GoesOn(hash, ctx, st, hash', ctx', st2, FALSE),
           ins = UPDATECRED => GoesOn(hash, ctx, st, hash', ctx', st2, TRUE),
           NEW a, NEW b, a = Shown, b = Shown', a \subseteq b,
           RowsKept(hash, ctx, st, a) => RowsKept(hash', ctx', st2, b)
    PROVE  FlowInv'
<1>1. ctx # Wiped /\ ctx' # Wiped /\ ins \in IdentityInss
  BY ZeroKnown, InssKnown
<1>2. RowsKept(hash, ctx, st, a) /\ NetworkShown(hash, path, a)
  BY <1>1, InssKnown DEF FlowInv, FlowOpen
<1>3. RowsKept(hash', ctx', st2, b)
  BY <1>2
<1>4. NetworkShown(hash', path', b)
  BY <1>2, NetworkStays
<1>5. ASSUME ins = CREDENTIAL PROVE CredentialSoFar(hash', 1, ctx', st2, FALSE)
  <2>1. CredentialSoFar(hash, 1, ctx, st, FALSE)
    BY <1>1, <1>5 DEF FlowInv, FlowOpen
  <2>2. 1 \in Nat \ {0}
    OBVIOUS
  <2> QED
    BY <1>5, <2>1, <2>2, Zenon DEF GoesOn
<1>6. ASSUME ins = UPDATECRED PROVE UpdateSoFar(hash', ctx', st2)
  <2>1. UpdateSoFar(hash, ctx, st)
    BY <1>1, <1>6 DEF FlowInv, FlowOpen
  <2>2. UpdateHead(hash, ctx.credentialsLeft - 1) /\ CredentialAdded(hash, ctx, st)
    BY <1>6, <2>1 DEF UpdateSoFar
  <2>3. \A k \in Len(hash) + 1 .. Len(hash') : hash'[k][1] # "credentialIndex"
    BY DEF NoneBegins
  <2>4. Starts(hash') = Starts(hash)
    BY <2>3, StartsGrow
  <2>5. UpdateHead(hash', ctx'.credentialsLeft - 1)
    BY <1>6, <2>2, <2>4, HeadStays
  <2>6. \A i \in Nat \ {0} : CredentialSoFar(hash, i, ctx, st, TRUE) => CredentialSoFar(hash', i, ctx', st2, TRUE)
    BY <1>6, Zenon DEF GoesOn
  <2>7. CredentialAdded(hash', ctx', st2)
    BY <2>2, <2>3, <2>6, AddedGoesOn
  <2> QED
    BY <1>6, <2>5, <2>7 DEF UpdateSoFar
<1>7. ~(latch' = IPINFO)
  BY InssKnown
<1>8. /\ ~FlowOpen(IPINFO)'
      /\ FlowOpen(CREDENTIAL)' => ins = CREDENTIAL
      /\ FlowOpen(UPDATECRED)' => ins = UPDATECRED
  BY <1>7 DEF FlowOpen
<1> QED
  BY <1>3, <1>4, <1>5, <1>6, <1>8 DEF FlowInv

\* The same for a packet, which finds the screen at rest.
LEMMA PacketGoesOn ==
    ASSUME Typed, Screens, FlowInv, NEW ins, NEW st, NEW d \in Credentials, Follows(ins, st, d), reply # Owed,
           screen'.cb # "sign", d.update = ctx.update, d.credentialsLeft = ctx.credentialsLeft,
           Extends(hash, hash'), NoneBegins(hash, hash'),
           ins = CREDENTIAL => GoesOn(hash, ctx, st, hash', d, Stage', FALSE),
           ins = UPDATECRED => GoesOn(hash, ctx, st, hash', d, Stage', TRUE),
           RowsKept(hash, ctx, st, approved) => RowsKept(hash', d, Stage', approved \cup screen'.items)
    PROVE  FlowInv'
<1>1. /\ ins \in CredentialInss /\ latch = ins /\ latch' = ins /\ ctx \in Credentials /\ ctx.state = st
      /\ ctx' = d /\ (ins = UPDATECRED => ctx.update = "CREDENTIAL") /\ path' = path /\ approved' = approved
  BY DEF Follows
<1>2. screen \in {Home, Stale}
  BY RestsUnlessOwed
<1>3. Shown = approved /\ screen.cb # "sign" /\ Stage = st
  BY <1>1, <1>2, AtRest
<1>5. Shown' = approved \cup screen'.items
  BY <1>1 DEF Shown
<1> DEFINE a == approved
           b == approved \cup screen'.items
           st2 == Stage'
<1>6. a = Shown /\ b = Shown' /\ a \subseteq b
  BY <1>3, <1>5
<1>7. /\ RowsKept(hash, ctx, st, a) => RowsKept(hash', ctx', st2, b)
      /\ ins = CREDENTIAL => GoesOn(hash, ctx, st, hash', ctx', st2, FALSE)
      /\ ins = UPDATECRED => GoesOn(hash, ctx, st, hash', ctx', st2, TRUE)
      /\ st2 = Stage'
  BY <1>1
<1> HIDE DEF a, b, st2
<1> QED
  BY <1>1, <1>3, <1>6, <1>7, StepGoesOn

LEMMA StageNext ==
    ASSUME NEW ins, NEW st, NEW d, Follows(ins, st, d), NEW changed, Kept(ctx, d, changed), "update" \notin changed
    PROVE  Stage' = IF screen'.cb = "attribute" THEN "shown"
                    ELSE IF screen'.cb = "added" THEN "NEW_OR_EXISTING" ELSE d.state
<1>1. d.update = ctx.update
  BY DEF Kept, CredentialFields
<1>2. latch' = ins /\ ctx' = d /\ (ins = UPDATECRED => ctx.update = "CREDENTIAL")
  BY DEF Follows
<1> QED
  BY <1>1, <1>2 DEF Stage

LEMMA QuietGoesOn ==
    ASSUME Typed, Screens, FlowInv, NEW ins, NEW st, NEW d \in Credentials, Follows(ins, st, d), Quiet,
           NEW changed, Kept(ctx, d, changed), "update" \notin changed, "credentialsLeft" \notin changed,
           NEW st2, d.state = st2, Extends(hash, hash'), NoneBegins(hash, hash'),
           ins = CREDENTIAL => GoesOn(hash, ctx, st, hash', d, st2, FALSE),
           ins = UPDATECRED => GoesOn(hash, ctx, st, hash', d, st2, TRUE),
           RowsKept(hash, ctx, st, approved) => RowsKept(hash', d, st2, approved)
    PROVE  FlowInv'
<1>1. screen \in {Home, Stale} /\ screen' = screen /\ reply # Owed
  BY RestsUnlessOwed DEF Quiet
<1>2. screen'.cb \in {"home", "stale"} /\ screen'.items = {}
  BY <1>1, RestingScreens
<1>3. Stage' = st2
  BY <1>2, StageNext
<1>4. RowsKept(hash, ctx, st, approved) => RowsKept(hash', d, Stage', approved \cup screen'.items)
  <2>1. approved \cup screen'.items = approved
    BY <1>2
  <2> QED
    BY <1>3, <2>1
<1>5. d.update = ctx.update /\ d.credentialsLeft = ctx.credentialsLeft
  BY DEF Kept, CredentialFields
<1>6. /\ ins = CREDENTIAL => GoesOn(hash, ctx, st, hash', d, Stage', FALSE)
      /\ ins = UPDATECRED => GoesOn(hash, ctx, st, hash', d, Stage', TRUE)
      /\ screen'.cb # "sign"
  BY <1>2, <1>3
<1> QED
  BY <1>1, <1>4, <1>5, <1>6, PacketGoesOn

LEMMA DrawsGoesOn ==
    ASSUME Typed, Screens, FlowInv, NEW ins, NEW st, NEW d \in Credentials, Follows(ins, st, d),
           NEW s, Draws(s), NEW cb, s.cb = cb, cb # "sign",
           NEW changed, Kept(ctx, d, changed), "update" \notin changed, "credentialsLeft" \notin changed,
           NEW st2, st2 = IF cb = "attribute" THEN "shown" ELSE IF cb = "added" THEN "NEW_OR_EXISTING" ELSE d.state,
           Extends(hash, hash'), NoneBegins(hash, hash'),
           ins = CREDENTIAL => GoesOn(hash, ctx, st, hash', d, st2, FALSE),
           ins = UPDATECRED => GoesOn(hash, ctx, st, hash', d, st2, TRUE),
           NEW items, s.items = items,
           RowsKept(hash, ctx, st, approved) => RowsKept(hash', d, st2, approved \cup items)
    PROVE  FlowInv'
<1>1. screen' = s /\ reply # Owed
  BY DEF Draws
<1>2. Stage' = st2
  BY <1>1, StageNext
<1>3. d.update = ctx.update /\ d.credentialsLeft = ctx.credentialsLeft
  BY DEF Kept, CredentialFields
<1>4. /\ ins = CREDENTIAL => GoesOn(hash, ctx, st, hash', d, Stage', FALSE)
      /\ ins = UPDATECRED => GoesOn(hash, ctx, st, hash', d, Stage', TRUE)
      /\ RowsKept(hash, ctx, st, approved) => RowsKept(hash', d, Stage', approved \cup screen'.items)
      /\ screen'.cb # "sign"
  BY <1>1, <1>2
<1> QED
  BY <1>1, <1>3, <1>4, PacketGoesOn

LEMMA OneBegins ==
    ASSUME NEW s, NEW t, NEW x, Grows(s, t, x), x[1] # "credentialIndex", x[1] # "kind" PROVE NoneBegins(s, t)
<1> SUFFICES ASSUME NEW k \in Len(s) + 1 .. Len(t) PROVE t[k] = x
  BY DEF NoneBegins
<1>1. k = Len(t)
  BY DEF Grows
<1> QED
  BY <1>1 DEF Grows

\* The rows, with a field that neither continues a list of revokers nor an
\* attribute.
LEMMA PlainRows ==
    ASSUME NEW s, NEW t, NEW x, Grows(s, t, x), NEW c, NEW d, NEW st, NEW st2, NEW a, NEW b, a \subseteq b,
           RowsKept(s, c, st, a), st \notin {"AR_IDENTITY", "ATTRIBUTE_VALUE"}, st2 # "AR_IDENTITY",
           x[1] # "arThreshold", x[1] = "tag" => st2 = "ATTRIBUTE_VALUE",
           RowsDue(c, st) \subseteq b \cup RowsDue(d, st2), x[1] \in RowTags => x \in b \cup RowsDue(d, st2)
    PROVE  RowsKept(t, d, st2, b)
<1>1. /\ CredentialRows(s) \subseteq a \cup RowsDue(c, st) /\ ListsRead(s, 0)
      /\ s = << >> \/ s[Len(s)][1] # "tag"
  BY DEF RowsKept
<1>2. /\ CredentialRows(t) \subseteq CredentialRows(s) \cup {y \in {x} : y[1] \in RowTags}
      /\ ListsRead(t, 0) /\ t[Len(t)] = x
  BY <1>1, RowsGrow
<1>3. {y \in {x} : y[1] \in RowTags} \subseteq b \cup RowsDue(d, st2)
  OBVIOUS
<1>4. CredentialRows(t) \subseteq b \cup RowsDue(d, st2)
  BY <1>1, <1>2, <1>3
<1> QED
  BY <1>2, <1>4 DEF RowsKept

LEMMA SameDetails ==
    ASSUME NEW c, NEW d, NEW changed, Kept(c, d, changed),
           changed \cap {"key", "details", "provider", "arLength", "ars"} = {}
    PROVE  DetailRows(d) = DetailRows(c) /\ KeyRow(d) = KeyRow(c)
<1>1. d.key = c.key /\ d.details = c.details /\ d.provider = c.provider /\ d.arLength = c.arLength /\ d.ars = c.ars
  BY DEF Kept, CredentialFields
<1> QED
  BY <1>1 DEF DetailRows, KeyRow, ArThresholdRow

LEMMA CountsKnown ==
    ASSUME NEW c \in Credentials
    PROVE  /\ c.keysLeft \in Nat /\ c.arsLeft \in Nat /\ c.attributesLeft \in Nat /\ c.proofLeft \in Nat
           /\ c.credentialsLeft \in Nat /\ c.idsLeft \in Nat /\ c.ars \in Seq(Vals) /\ c.arLength \in Nat
  BY FieldsKnown, Limits DEF Credentials, Fields

LEMMA KeysLengthFlow ==
    ASSUME Gated, Typed, Screens, FlowInv, NEW ins \in CredentialInss, CredentialKeysLength(ins) PROVE FlowInv'
<1>1. PICK n \in 0 .. ListMax :
              /\ Follows(ins, "VERIFICATION_KEYS_LENGTH", KeysAnnounced(ctx, n))
              /\ Grows(hash, hash', <<"keysLength", n>>) /\ Quiet
  BY KeysLengthParts
<1> DEFINE d == KeysAnnounced(ctx, n)
           x == <<"keysLength", n>>
<1>2. ctx \in Credentials /\ n \in Nat
  BY <1>1, Limits DEF Follows
<1>3. d \in Credentials /\ Kept(ctx, d, {"state", "keysLeft"}) /\ d.state = "VERIFICATION_KEY" /\ d.keysLeft = n
  BY <1>2, KeysAnnouncedKnown
<1>4. x[1] = "keysLength" /\ Follows(ins, "VERIFICATION_KEYS_LENGTH", d) /\ Grows(hash, hash', x)
  BY <1>1
<1>5. ASSUME NEW emb PROVE GoesOn(hash, ctx, "VERIFICATION_KEYS_LENGTH", hash', d, "VERIFICATION_KEY", emb)
  <2> SUFFICES ASSUME NEW i \in Nat \ {0}, Len(hash) = i - 1 PROVE KeysComing(hash', i, n)
    BY <1>3, SoFarIs DEF GoesOn
  <2> QED
    BY <1>1, <1>2, KeysBegin
<1> HIDE DEF d, x
<1>6. RowsKept(hash, ctx, "VERIFICATION_KEYS_LENGTH", approved) => RowsKept(hash', d, "VERIFICATION_KEY", approved)
  <2> SUFFICES ASSUME RowsKept(hash, ctx, "VERIFICATION_KEYS_LENGTH", approved)
               PROVE  RowsKept(hash', d, "VERIFICATION_KEY", approved)
    OBVIOUS
  <2>1. x[1] \notin RowTags /\ RowsDue(ctx, "VERIFICATION_KEYS_LENGTH") = {}
    BY <1>4, DueIs DEF RowTags
  <2> QED
    BY <1>4, <2>1, PlainRows
<1>7. Extends(hash, hash') /\ NoneBegins(hash, hash')
  BY <1>4, GrowsExtends, OneBegins
<1> DEFINE changed == {"state", "keysLeft"}
<1>8. Kept(ctx, d, changed) /\ "update" \notin changed /\ "credentialsLeft" \notin changed
  BY <1>3
<1> HIDE DEF changed
<1> QED
  BY <1>1, <1>3, <1>4, <1>5, <1>6, <1>7, <1>8, QuietGoesOn

LEMMA KeyFlow ==
    ASSUME Gated, Typed, Screens, FlowInv, NEW ins \in CredentialInss, CredentialKey(ins), ~Refuses PROVE FlowInv'
<1>1. PICK v \in Vals :
                 /\ Grows(hash, hash', <<"key", v>>)
                 /\ \/ /\ ctx.keysLeft > 1 /\ Follows(ins, "VERIFICATION_KEY", KeyParked(ctx, v))
                       /\ Draws(uiSignCredentialDeploymentVerificationKeyFlowDisplay(
                                    [ctx EXCEPT !.key = v, !.keysLeft = @ - 1]))
                    \/ /\ ctx.keysLeft = 1 /\ Follows(ins, "VERIFICATION_KEY", KeyLast(ctx, v))
                       /\ Quiet
  BY KeyParts
<1> DEFINE x == <<"key", v>>
           changed == {"state", "key", "keysLeft"}
<1>2. x[1] = "key" /\ Grows(hash, hash', x) /\ x \in {<<"key", v>>}
  BY <1>1
<1>3. ctx \in Credentials /\ ctx.keysLeft \in Nat
  BY <1>1, CountsKnown DEF Follows
<1>4. "update" \notin changed /\ "credentialsLeft" \notin changed
  OBVIOUS
<1>5. ASSUME NEW i \in Nat \ {0}, KeysComing(hash, i, ctx.keysLeft), ctx.keysLeft > 0
      PROVE  /\ KeysComing(hash', i, ctx.keysLeft - 1)
             /\ ctx.keysLeft = 1 => KeysRead(hash', i, Len(hash') + 1)
  <2> DEFINE left == ctx.keysLeft
  <2>1. left \in Nat \ {0} /\ KeysComing(hash, i, left)
    BY <1>3, <1>5
  <2> HIDE DEF left
  <2>2. KeysComing(hash', i, left - 1) /\ (left = 1 => KeysRead(hash', i, Len(hash') + 1))
    BY <1>1, <2>1, KeyComes
  <2> QED
    BY <2>2 DEF left
<1> HIDE DEF x, changed
<1>6. Extends(hash, hash') /\ NoneBegins(hash, hash') /\ x[1] \in RowTags
  BY <1>2, GrowsExtends, OneBegins DEF RowTags
<1>7. CASE /\ ctx.keysLeft > 1 /\ Follows(ins, "VERIFICATION_KEY", KeyParked(ctx, v))
           /\ Draws(uiSignCredentialDeploymentVerificationKeyFlowDisplay(
                        [ctx EXCEPT !.key = v, !.keysLeft = @ - 1]))
  <2> DEFINE d == KeyParked(ctx, v)
             k == [ctx EXCEPT !.key = v, !.keysLeft = @ - 1]
             s == uiSignCredentialDeploymentVerificationKeyFlowDisplay(k)
  <2>1. /\ d \in Credentials /\ Kept(ctx, d, changed) /\ d.state = AfterKey
        /\ d.keysLeft = ctx.keysLeft - 1
    BY <1>3, <1>7, KeyParkedKnown DEF changed
  <2>2. s.cb = "nextKey" /\ s.items = KeyRow(k)
    BY ReviewsKnown
  <2>3. k.key = v
    BY <1>3 DEF Credentials, CredentialContexts
  <2>4. Follows(ins, "VERIFICATION_KEY", d) /\ Draws(s)
    BY <1>7
  <2>5. KeyRow(k) = {<<"key", v>>}
    BY <2>3 DEF KeyRow
  <2> HIDE DEF d, k, s
  <2>6. ASSUME NEW emb PROVE GoesOn(hash, ctx, "VERIFICATION_KEY", hash', d, AfterKey, emb)
    <3> SUFFICES ASSUME NEW i \in Nat \ {0}, KeysComing(hash, i, ctx.keysLeft)
                 PROVE  KeysComing(hash', i, d.keysLeft) /\ d.keysLeft > 0
      BY SoFarIs DEF GoesOn
    <3> QED
      BY <1>3, <1>5, <1>7, <2>1
  <2>7. RowsKept(hash, ctx, "VERIFICATION_KEY", approved) => RowsKept(hash', d, AfterKey, approved \cup KeyRow(k))
    <3> SUFFICES ASSUME RowsKept(hash, ctx, "VERIFICATION_KEY", approved)
                 PROVE  RowsKept(hash', d, AfterKey, approved \cup KeyRow(k))
      OBVIOUS
    <3> DEFINE b == approved \cup KeyRow(k)
    <3>1. x \in b /\ RowsDue(ctx, "VERIFICATION_KEY") = {} /\ approved \subseteq b /\ AfterKey # "AR_IDENTITY"
      BY <1>2, <2>5, DueIs DEF AfterKey
    <3> HIDE DEF b
    <3>2. RowsKept(hash', d, AfterKey, b)
      BY <1>2, <3>1, PlainRows
    <3> QED
      BY <3>2 DEF b
  <2> QED
    BY <1>4, <1>6, <2>1, <2>2, <2>4, <2>6, <2>7, DrawsGoesOn
<1>8. CASE ctx.keysLeft = 1 /\ Follows(ins, "VERIFICATION_KEY", KeyLast(ctx, v)) /\ Quiet
  <2> DEFINE d == KeyLast(ctx, v)
  <2>1. /\ d \in Credentials /\ Kept(ctx, d, changed) /\ d.state = "SIGNATURE_THRESHOLD" /\ d.key = v
    BY <1>3, <1>8, KeyLastKnown DEF changed
  <2>2. Follows(ins, "VERIFICATION_KEY", d)
    BY <1>8
  <2> HIDE DEF d
  <2>3. ASSUME NEW emb PROVE GoesOn(hash, ctx, "VERIFICATION_KEY", hash', d, "SIGNATURE_THRESHOLD", emb)
    <3> SUFFICES ASSUME NEW i \in Nat \ {0}, KeysComing(hash, i, ctx.keysLeft)
                 PROVE  KeysRead(hash', i, Len(hash') + 1)
      BY SoFarIs DEF GoesOn
    <3> QED
      BY <1>5, <1>8
  <2>4. RowsKept(hash, ctx, "VERIFICATION_KEY", approved) => RowsKept(hash', d, "SIGNATURE_THRESHOLD", approved)
    <3> SUFFICES ASSUME RowsKept(hash, ctx, "VERIFICATION_KEY", approved)
                 PROVE  RowsKept(hash', d, "SIGNATURE_THRESHOLD", approved)
      OBVIOUS
    <3>1. x \in RowsDue(d, "SIGNATURE_THRESHOLD") /\ RowsDue(ctx, "VERIFICATION_KEY") = {}
      BY <1>2, <2>1, DueIs DEF KeyRow
    <3> QED
      BY <1>2, <3>1, PlainRows
  <2> QED
    BY <1>4, <1>6, <1>8, <2>1, <2>2, <2>3, <2>4, QuietGoesOn
<1> QED
  BY <1>1, <1>7, <1>8

LEMMA DatesFlow ==
    ASSUME Gated, Typed, Screens, FlowInv, NEW ins \in CredentialInss, CredentialDates(ins), ~Refuses PROVE FlowInv'
<1>1. PICK v \in Vals, n \in 0 .. ListMax :
                 /\ Follows(ins, "CREDENTIAL_DATES", DatesRead(ctx, n)) /\ Quiet
                 /\ Grows(hash, hash', <<"dates", v, n>>)
  BY DatesParts
<1> DEFINE d == DatesRead(ctx, n)
           x == <<"dates", v, n>>
           changed == {"state", "attributesLeft"}
           st2 == IF n = 0 THEN "LENGTH_OF_PROOFS" ELSE "ATTRIBUTE_TAG"
<1>2. ctx \in Credentials /\ n \in Nat
  BY <1>1, Limits DEF Follows
<1>3. d \in Credentials /\ Kept(ctx, d, changed) /\ d.state = st2 /\ d.attributesLeft = n
  BY <1>2, DatesReadKnown
<1>4. x[1] = "dates" /\ Follows(ins, "CREDENTIAL_DATES", d) /\ Grows(hash, hash', x)
  BY <1>1
<1>5. ASSUME NEW emb PROVE GoesOn(hash, ctx, "CREDENTIAL_DATES", hash', d, st2, emb)
  <2> SUFFICES ASSUME NEW i \in Nat \ {0}, HeadRead(hash, i, Len(hash) + 1) PROVE AttributesComing(hash', i, n, 0)
    BY <1>3, SoFarIs DEF GoesOn
  <2> QED
    BY <1>1, <1>2, DatesCome
<1>6. "update" \notin changed /\ "credentialsLeft" \notin changed /\ DetailRows(d) = DetailRows(ctx)
  BY <1>3, SameDetails
<1>7. st2 \in {"LENGTH_OF_PROOFS", "ATTRIBUTE_TAG"}
  OBVIOUS
<1> HIDE DEF d, x, changed, st2
<1>8. RowsKept(hash, ctx, "CREDENTIAL_DATES", approved) => RowsKept(hash', d, st2, approved)
  <2> SUFFICES ASSUME RowsKept(hash, ctx, "CREDENTIAL_DATES", approved) PROVE RowsKept(hash', d, st2, approved)
    OBVIOUS
  <2>1. x[1] \notin RowTags /\ RowsDue(ctx, "CREDENTIAL_DATES") = RowsDue(d, st2)
    BY <1>4, <1>6, <1>7, DueIs DEF RowTags
  <2> QED
    BY <1>4, <1>7, <2>1, PlainRows
<1>9. Extends(hash, hash') /\ NoneBegins(hash, hash')
  BY <1>4, GrowsExtends, OneBegins
<1> QED
  BY <1>1, <1>3, <1>4, <1>5, <1>6, <1>8, <1>9, QuietGoesOn

LEMMA TagFlow ==
    ASSUME Gated, Typed, Screens, FlowInv, NEW ins \in CredentialInss, CredentialTag(ins), ~Refuses PROVE FlowInv'
<1>1. PICK v \in Vals : /\ Follows(ins, "ATTRIBUTE_TAG", TagRead(ctx, v)) /\ Quiet
                        /\ Grows(hash, hash', <<"tag", v>>)
  BY TagParts
<1> DEFINE d == TagRead(ctx, v)
           x == <<"tag", v>>
           changed == {"state", "tag"}
<1>2. ctx \in Credentials /\ ctx.state = "ATTRIBUTE_TAG" /\ ctx.attributesLeft \in Nat
  BY <1>1, CountsKnown DEF Follows
<1>3. d \in Credentials /\ Kept(ctx, d, changed) /\ d.state = "ATTRIBUTE_VALUE" /\ d.tag = v
  BY <1>2, TagReadKnown
<1>4. /\ x[1] = "tag" /\ x = <<"tag", v>> /\ Follows(ins, "ATTRIBUTE_TAG", d) /\ Grows(hash, hash', x)
  BY <1>1
<1>5. /\ "update" \notin changed /\ "credentialsLeft" \notin changed /\ DetailRows(d) = DetailRows(ctx)
      /\ d.attributesLeft = ctx.attributesLeft
  <2>1. DetailRows(d) = DetailRows(ctx)
    BY <1>3, SameDetails
  <2>2. d.attributesLeft = ctx.attributesLeft
    BY <1>3 DEF Kept, CredentialFields
  <2> QED
    BY <2>1, <2>2
<1> HIDE DEF d, x, changed
<1>6. ASSUME NEW emb PROVE GoesOn(hash, ctx, "ATTRIBUTE_TAG", hash', d, "ATTRIBUTE_VALUE", emb)
  <2> SUFFICES ASSUME NEW i \in Nat \ {0}, AttributesComing(hash, i, ctx.attributesLeft, 0)
               PROVE  AttributesComing(hash', i, d.attributesLeft, 1) /\ hash'[Len(hash')] = <<"tag", d.tag>>
    BY SoFarIs DEF GoesOn
  <2> DEFINE left == ctx.attributesLeft
             f == 0
  <2>1. left \in Nat /\ AttributesComing(hash, i, left, f) /\ f \in {0, 1} /\ x[1] = (IF f = 0 THEN "tag" ELSE "value")
    BY <1>2, <1>4
  <2> HIDE DEF left, f
  <2>2. AttributesComing(hash', i, left, f + 1)
    BY <1>4, <2>1, TagOrValueComes
  <2>3. hash'[Len(hash')] = x
    BY <1>4 DEF Grows
  <2>4. f + 1 = 1 /\ left = d.attributesLeft
    BY <1>5 DEF left, f
  <2> QED
    BY <1>3, <1>4, <2>2, <2>3, <2>4
<1>7. RowsKept(hash, ctx, "ATTRIBUTE_TAG", approved) => RowsKept(hash', d, "ATTRIBUTE_VALUE", approved)
  <2> SUFFICES ASSUME RowsKept(hash, ctx, "ATTRIBUTE_TAG", approved) PROVE RowsKept(hash', d, "ATTRIBUTE_VALUE", approved)
    OBVIOUS
  <2>1. x[1] \notin RowTags /\ RowsDue(ctx, "ATTRIBUTE_TAG") = RowsDue(d, "ATTRIBUTE_VALUE")
    BY <1>4, <1>5, DueIs DEF RowTags
  <2> QED
    BY <1>4, <2>1, PlainRows
<1>8. Extends(hash, hash') /\ NoneBegins(hash, hash')
  BY <1>4, GrowsExtends, OneBegins
<1> QED
  BY <1>1, <1>3, <1>4, <1>5, <1>6, <1>7, <1>8, QuietGoesOn

LEMMA ValueFlow ==
    ASSUME Gated, Typed, Screens, FlowInv, NEW ins \in CredentialInss, CredentialValue(ins), ~Refuses PROVE FlowInv'
<1>1. PICK v \in Vals : /\ Follows(ins, "ATTRIBUTE_VALUE", ctx)
                        /\ Draws(uiSignCredentialDeploymentAttributeDisplay(ctx, v))
                        /\ Grows(hash, hash', <<"value", v>>)
  BY ValueParts
<1> DEFINE s == uiSignCredentialDeploymentAttributeDisplay(ctx, v)
           x == <<"value", v>>
           row == {<<"attribute", ctx.tag, v>>}
           changed == {}
<1>2. ctx \in Credentials /\ ctx.attributesLeft \in Nat
  BY <1>1, CountsKnown DEF Follows
<1>3. s.cb = "attribute" /\ s.items = row
  BY ReviewsKnown
<1>4. Kept(ctx, ctx, changed) /\ "update" \notin changed /\ "credentialsLeft" \notin changed
  BY DEF Kept
<1>5. x[1] = "value" /\ Grows(hash, hash', x) /\ Draws(s)
  BY <1>1
<1>6. ASSUME RowsKept(hash, ctx, "ATTRIBUTE_VALUE", approved), hash[Len(hash)] = <<"tag", ctx.tag>>
      PROVE  RowsKept(hash', ctx, "shown", approved \cup row)
  <2>1. CredentialRows(hash) \subseteq approved \cup DetailRows(ctx) /\ ListsRead(hash, 0)
    BY <1>6, DueIs DEF RowsKept
  <2>2. /\ CredentialRows(hash') \subseteq CredentialRows(hash) \cup row
        /\ ListsRead(hash', 0) /\ hash'[Len(hash')][1] # "tag"
    BY <1>1, <1>6, <2>1, ValueRows
  <2>3. RowsDue(ctx, "shown") = DetailRows(ctx)
    BY DueIs
  <2>4. CredentialRows(hash') \subseteq (approved \cup row) \cup RowsDue(ctx, "shown")
    BY <2>1, <2>2, <2>3
  <2> QED
    BY <2>2, <2>4 DEF RowsKept
<1> HIDE DEF s, x, row, changed
<1>7. ASSUME NEW emb PROVE GoesOn(hash, ctx, "ATTRIBUTE_VALUE", hash', ctx, "shown", emb)
  <2> SUFFICES ASSUME NEW i \in Nat \ {0}, AttributesComing(hash, i, ctx.attributesLeft, 1)
               PROVE  AttributesComing(hash', i, ctx.attributesLeft, 2)
    BY SoFarIs DEF GoesOn
  <2> DEFINE left == ctx.attributesLeft
             f == 1
  <2>1. left \in Nat /\ AttributesComing(hash, i, left, f) /\ f \in {0, 1} /\ x[1] = (IF f = 0 THEN "tag" ELSE "value")
    BY <1>2, <1>5
  <2> HIDE DEF left, f
  <2>2. AttributesComing(hash', i, left, f + 1)
    BY <1>5, <2>1, TagOrValueComes
  <2>3. f + 1 = 2
    BY DEF f
  <2> QED
    BY <2>2, <2>3 DEF left
<1>8. hash[Len(hash)] = <<"tag", ctx.tag>>
  <2>1. screen \in {Home, Stale} /\ latch = ins /\ ctx.state = "ATTRIBUTE_VALUE" /\ ctx # Wiped
        /\ (ins = UPDATECRED => ctx.update = "CREDENTIAL")
    BY <1>1, <1>5, RestsUnlessOwed, ZeroKnown DEF Follows, Draws
  <2>2. Stage = "ATTRIBUTE_VALUE" /\ screen.cb # "sign"
    BY <2>1, AtRest
  <2>3. CASE ins = CREDENTIAL
    <3>1. CredentialSoFar(hash, 1, ctx, "ATTRIBUTE_VALUE", FALSE)
      BY <2>1, <2>2, <2>3 DEF FlowInv, FlowOpen
    <3> QED
      BY <3>1, SoFarIs
  <2>4. CASE ins = UPDATECRED
    <3>1. UpdateSoFar(hash, ctx, "ATTRIBUTE_VALUE")
      BY <2>1, <2>2, <2>4 DEF FlowInv, FlowOpen
    <3>2. CredentialAdded(hash, ctx, "ATTRIBUTE_VALUE")
      BY <2>1, <2>4, <3>1 DEF UpdateSoFar
    <3>3. \E j : CredentialSoFar(hash, j + 1, ctx, "ATTRIBUTE_VALUE", TRUE)
      BY <3>2 DEF CredentialAdded
    <3> QED
      BY <3>3, SoFarIs
  <2> QED
    BY <2>3, <2>4, InssKnown
<1>9. Extends(hash, hash') /\ NoneBegins(hash, hash')
  BY <1>5, GrowsExtends, OneBegins
<1>10. "shown" = IF "attribute" = "attribute" THEN "shown" ELSE IF "attribute" = "added" THEN "NEW_OR_EXISTING" ELSE ctx.state
  OBVIOUS
<1> QED
  BY <1>1, <1>2, <1>3, <1>4, <1>5, <1>6, <1>7, <1>8, <1>9, <1>10, DrawsGoesOn

LEMMA ProofLengthFlow ==
    ASSUME Gated, Typed, Screens, FlowInv, NEW ins \in CredentialInss, CredentialProofLength(ins), ~Refuses
    PROVE  FlowInv'
<1>1. PICK n \in 0 .. ProofMax :
                 /\ Follows(ins, "LENGTH_OF_PROOFS", ProofAnnounced(ctx, n)) /\ Quiet
                 /\ \/ Grows(hash, hash', <<"proofLength", n>>)
                    \/ ins # UPDATECRED /\ hash' = hash
  BY ProofLengthParts
<1> DEFINE d == ProofAnnounced(ctx, n)
           x == <<"proofLength", n>>
           changed == {"state", "proofLeft"}
<1>2. ctx \in Credentials /\ n \in Nat /\ hash \in Seq(IdentityItem)
  BY <1>1, Limits DEF Follows, Typed
<1>3. d \in Credentials /\ Kept(ctx, d, changed) /\ d.state = "PROOFS" /\ d.proofLeft = n
  BY <1>2, ProofAnnouncedKnown
<1>4. /\ x[1] = "proofLength" /\ Follows(ins, "LENGTH_OF_PROOFS", d)
      /\ Grows(hash, hash', x) \/ (ins # UPDATECRED /\ hash' = hash)
  BY <1>1
<1>5. /\ "update" \notin changed /\ "credentialsLeft" \notin changed /\ DetailRows(d) = DetailRows(ctx)
  BY <1>3, SameDetails
<1>6. ASSUME NEW emb \in BOOLEAN, emb => ins = UPDATECRED
      PROVE  GoesOn(hash, ctx, "LENGTH_OF_PROOFS", hash', d, "PROOFS", emb)
  <2> SUFFICES ASSUME NEW i \in Nat \ {0}, AttributesComing(hash, i, 0, 0) PROVE ProofsComing(hash', i, n, emb)
    BY <1>3, SoFarIs DEF GoesOn
  <2>1. CASE Grows(hash, hash', x)
    BY <1>2, <2>1, ProofLengthComes
  <2>2. CASE ins # UPDATECRED /\ hash' = hash
    <3>1. ProofsComing(hash, i, n, FALSE)
      BY <1>2, ProofsFollow
    <3>2. emb = FALSE
      BY <1>6, <2>2
    <3> QED
      BY <2>2, <3>1, <3>2
  <2> QED
    BY <1>4, <2>1, <2>2
<1> HIDE DEF d, x, changed
<1>7. RowsKept(hash, ctx, "LENGTH_OF_PROOFS", approved) => RowsKept(hash', d, "PROOFS", approved)
  <2> SUFFICES ASSUME RowsKept(hash, ctx, "LENGTH_OF_PROOFS", approved) PROVE RowsKept(hash', d, "PROOFS", approved)
    OBVIOUS
  <2>1. x[1] \notin RowTags /\ RowsDue(ctx, "LENGTH_OF_PROOFS") = RowsDue(d, "PROOFS")
    BY <1>4, <1>5, DueIs DEF RowTags
  <2>2. CASE Grows(hash, hash', x)
    BY <1>4, <2>1, <2>2, PlainRows
  <2>3. CASE hash' = hash
    BY <2>1, <2>3 DEF RowsKept
  <2> QED
    BY <1>4, <2>2, <2>3
<1>8. Extends(hash, hash') /\ NoneBegins(hash, hash')
  <2>1. CASE Grows(hash, hash', x)
    BY <1>4, <2>1, GrowsExtends, OneBegins
  <2>2. CASE hash' = hash
    BY <1>2, <2>2, SameExtends DEF NoneBegins
  <2> QED
    BY <1>4, <2>1, <2>2
<1>9. /\ ins = CREDENTIAL => GoesOn(hash, ctx, "LENGTH_OF_PROOFS", hash', d, "PROOFS", FALSE)
      /\ ins = UPDATECRED => GoesOn(hash, ctx, "LENGTH_OF_PROOFS", hash', d, "PROOFS", TRUE)
  BY <1>6, Zenon
<1> QED
  BY <1>1, <1>3, <1>4, <1>5, <1>7, <1>8, <1>9, QuietGoesOn

LEMMA ProofsFlow ==
    ASSUME Gated, Typed, Screens, FlowInv, NEW ins \in CredentialInss, CredentialProofs(ins), ~Refuses PROVE FlowInv'
<1>1. \/ /\ ctx.proofLeft > CdataMax /\ Grows(hash, hash', <<"proof", CdataMax>>)
         /\ Follows(ins, "PROOFS", ProofRead(ctx)) /\ Quiet
      \/ /\ Grows(hash, hash', <<"proof", ctx.proofLeft>>)
         /\ \/ /\ ins = UPDATECRED /\ Follows(ins, "PROOFS", ctx)
               /\ Draws(uiSignUpdateCredentialAddedCredentialDisplay(ctx))
            \/ ins # UPDATECRED /\ Follows(ins, "PROOFS", ProofsRead(ctx)) /\ Quiet
  BY ProofsParts
<1>2. ctx \in Credentials /\ ctx.proofLeft \in Nat /\ CdataMax \in Nat
  BY <1>1, CountsKnown, Limits DEF Follows
\* The stage behind the packet.
<1>3. ASSUME NEW n \in Nat, Grows(hash, hash', <<"proof", n>>), NEW d, NEW st2,
             \/ n = CdataMax /\ st2 = "PROOFS" /\ d.proofLeft = ctx.proofLeft - CdataMax
             \/ n = ctx.proofLeft /\ st2 = "NEW_OR_EXISTING",
             DetailRows(d) = DetailRows(ctx)
      PROVE  /\ \A emb : GoesOn(hash, ctx, "PROOFS", hash', d, st2, emb)
             /\ Extends(hash, hash') /\ NoneBegins(hash, hash')
             /\ \A b : approved \subseteq b /\ RowsKept(hash, ctx, "PROOFS", approved) => RowsKept(hash', d, st2, b)
  <2> DEFINE x == <<"proof", n>>
             left == ctx.proofLeft
  <2>1. x[1] = "proof" /\ Grows(hash, hash', x)
    BY <1>3
  <2>2. ASSUME NEW emb PROVE GoesOn(hash, ctx, "PROOFS", hash', d, st2, emb)
    <3>1. ASSUME NEW i \in Nat \ {0}, ProofsComing(hash, i, left, emb)
          PROVE  /\ n = CdataMax => ProofsComing(hash', i, left - CdataMax, emb)
                 /\ n = left => IsCredential(hash', i, Len(hash'), emb)
      <4>1. left \in Nat
        BY <1>2
      <4> HIDE DEF left
      <4> QED
        BY <1>3, <3>1, <4>1, ProofComes
    <3>2. ASSUME NEW i \in Nat \ {0}, CredentialSoFar(hash, i, ctx, "PROOFS", emb)
          PROVE  CredentialSoFar(hash', i, d, st2, emb)
      <4>1. ProofsComing(hash, i, left, emb)
        BY <3>2, SoFarIs
      <4>2. CASE n = CdataMax /\ st2 = "PROOFS" /\ d.proofLeft = ctx.proofLeft - CdataMax
        BY <3>1, <4>1, <4>2, SoFarIs
      <4>3. CASE n = ctx.proofLeft /\ st2 = "NEW_OR_EXISTING"
        BY <3>1, <4>1, <4>3, SoFarIs
      <4> QED
        BY <1>3, <4>2, <4>3
    <3> QED
      BY <3>2 DEF GoesOn
  <2> HIDE DEF x, left
  <2>3. Extends(hash, hash') /\ NoneBegins(hash, hash')
    BY <2>1, GrowsExtends, OneBegins
  <2>4. ASSUME NEW b, approved \subseteq b, RowsKept(hash, ctx, "PROOFS", approved) PROVE RowsKept(hash', d, st2, b)
    <3>1. x[1] \notin RowTags /\ RowsDue(ctx, "PROOFS") = RowsDue(d, st2)
      BY <1>3, <2>1, DueIs DEF RowTags
    <3>2. st2 # "AR_IDENTITY"
      BY <1>3
    <3> QED
      BY <2>1, <2>4, <3>1, <3>2, PlainRows
  <2> QED
    BY <2>2, <2>3, <2>4
<1>4. CASE /\ ctx.proofLeft > CdataMax /\ Grows(hash, hash', <<"proof", CdataMax>>)
           /\ Follows(ins, "PROOFS", ProofRead(ctx)) /\ Quiet
  <2> DEFINE d == ProofRead(ctx)
             changed == {"proofLeft"}
  <2>1. /\ d \in Credentials /\ Kept(ctx, d, changed) /\ d.proofLeft = ctx.proofLeft - CdataMax
    BY <1>2, <1>4, ProofReadKnown
  <2>2. DetailRows(d) = DetailRows(ctx)
    BY <2>1, SameDetails
  <2>3. d.state = ctx.state /\ ctx.state = "PROOFS"
    BY <1>4, <2>1 DEF Kept, CredentialFields, Follows
  <2>4. "update" \notin changed /\ "credentialsLeft" \notin changed /\ Follows(ins, "PROOFS", d)
    BY <1>4
  <2> HIDE DEF d, changed
  <2>5. /\ \A emb : GoesOn(hash, ctx, "PROOFS", hash', d, "PROOFS", emb)
        /\ Extends(hash, hash') /\ NoneBegins(hash, hash')
        /\ RowsKept(hash, ctx, "PROOFS", approved) => RowsKept(hash', d, "PROOFS", approved)
    BY <1>2, <1>3, <1>4, <2>1, <2>2
  <2> QED
    BY <1>4, <2>1, <2>3, <2>4, <2>5, QuietGoesOn
<1>5. CASE /\ Grows(hash, hash', <<"proof", ctx.proofLeft>>) /\ ins = UPDATECRED /\ Follows(ins, "PROOFS", ctx)
           /\ Draws(uiSignUpdateCredentialAddedCredentialDisplay(ctx))
  <2> DEFINE s == uiSignUpdateCredentialAddedCredentialDisplay(ctx)
             changed == {}
             items == DetailRows(ctx)
             cb == "added"
             st2 == "NEW_OR_EXISTING"
  <2>1. s.cb = cb /\ s.items = items /\ Draws(s)
    BY <1>5, ReviewsKnown
  <2>2. Kept(ctx, ctx, changed) /\ "update" \notin changed /\ "credentialsLeft" \notin changed
    BY DEF Kept
  <2>3. /\ \A emb : GoesOn(hash, ctx, "PROOFS", hash', ctx, st2, emb)
        /\ Extends(hash, hash') /\ NoneBegins(hash, hash')
        /\ RowsKept(hash, ctx, "PROOFS", approved) => RowsKept(hash', ctx, st2, approved \cup items)
    <3>1. approved \subseteq approved \cup items
      OBVIOUS
    <3> QED
      BY <1>2, <1>3, <1>5, <3>1
  <2>4. cb # "sign" /\ st2 = IF cb = "attribute" THEN "shown" ELSE IF cb = "added" THEN "NEW_OR_EXISTING" ELSE ctx.state
    OBVIOUS
  <2> HIDE DEF s, changed, items
  <2>5. /\ GoesOn(hash, ctx, "PROOFS", hash', ctx, st2, FALSE)
        /\ GoesOn(hash, ctx, "PROOFS", hash', ctx, st2, TRUE)
    BY <2>3
  <2>6. /\ Extends(hash, hash') /\ NoneBegins(hash, hash')
        /\ RowsKept(hash, ctx, "PROOFS", approved) => RowsKept(hash', ctx, st2, approved \cup items)
    BY <2>3
  <2> QED
    BY <1>2, <1>5, <2>1, <2>2, <2>4, <2>5, <2>6, DrawsGoesOn
<1>6. CASE /\ Grows(hash, hash', <<"proof", ctx.proofLeft>>)
           /\ ins # UPDATECRED /\ Follows(ins, "PROOFS", ProofsRead(ctx)) /\ Quiet
  <2> DEFINE d == ProofsRead(ctx)
             changed == {"state"}
  <2>1. /\ d \in Credentials /\ Kept(ctx, d, changed) /\ d.state = "NEW_OR_EXISTING"
    BY <1>2, ProofsReadKnown
  <2>2. DetailRows(d) = DetailRows(ctx)
    BY <2>1, SameDetails
  <2>4. "update" \notin changed /\ "credentialsLeft" \notin changed /\ Follows(ins, "PROOFS", d)
    BY <1>6
  <2> HIDE DEF d, changed
  <2>5. /\ \A emb : GoesOn(hash, ctx, "PROOFS", hash', d, "NEW_OR_EXISTING", emb)
        /\ Extends(hash, hash') /\ NoneBegins(hash, hash')
        /\ RowsKept(hash, ctx, "PROOFS", approved) => RowsKept(hash', d, "NEW_OR_EXISTING", approved)
    BY <1>2, <1>3, <1>6, <2>2
  <2> QED
    BY <1>6, <2>1, <2>4, <2>5, QuietGoesOn
<1> QED
  BY <1>1, <1>4, <1>5, <1>6

LEMMA FourValues ==
    ASSUME NEW s, NEW t, NEW a, NEW b, NEW c, NEW d, NEW w, NEW u, NEW v,
           Grows(s, w, a), Grows(w, u, b), Grows(u, v, c), Grows(v, t, d)
    PROVE  t[Len(s) + 1] = a /\ t[Len(s) + 2] = b /\ t[Len(s) + 3] = c /\ t[Len(s) + 4] = d
<1>1. /\ Len(s) \in Nat /\ Len(w) = Len(s) + 1 /\ Len(u) = Len(s) + 2 /\ Len(v) = Len(s) + 3
      /\ Len(t) = Len(s) + 4
  BY DEF Grows
<1>2. /\ w[Len(s) + 1] = a /\ u[Len(s) + 2] = b /\ v[Len(s) + 3] = c /\ t[Len(s) + 4] = d
  BY <1>1 DEF Grows
<1>3. /\ Len(s) + 1 \in 1 .. Len(w) /\ Len(s) + 1 \in 1 .. Len(u) /\ Len(s) + 1 \in 1 .. Len(v)
      /\ Len(s) + 2 \in 1 .. Len(u) /\ Len(s) + 2 \in 1 .. Len(v) /\ Len(s) + 3 \in 1 .. Len(v)
  BY <1>1
<1>4. u[Len(s) + 1] = w[Len(s) + 1] /\ v[Len(s) + 1] = u[Len(s) + 1] /\ t[Len(s) + 1] = v[Len(s) + 1]
  BY <1>3 DEF Grows
<1>5. v[Len(s) + 2] = u[Len(s) + 2] /\ t[Len(s) + 2] = v[Len(s) + 2] /\ t[Len(s) + 3] = v[Len(s) + 3]
  BY <1>3 DEF Grows
<1> QED
  BY <1>2, <1>4, <1>5

LEMMA DetailsFlow ==
    ASSUME Gated, Typed, Screens, FlowInv, NEW ins \in CredentialInss, CredentialDetails(ins), ~Refuses PROVE FlowInv'
<1>1. PICK v \in Vals, q \in Providers, n \in 0 .. ListMax :
                 /\ Follows(ins, "SIGNATURE_THRESHOLD", DetailsRead(ctx, v, q, n)) /\ Quiet
                 /\ GrowsFour(hash, hash', <<"signatureThreshold", v>>, <<"regIdCred", v>>,
                              <<"identityProvider", q>>, <<"arThreshold", v, n>>)
  BY DetailsParts
<1> DEFINE x1 == <<"signatureThreshold", v>>
           x2 == <<"regIdCred", v>>
           x3 == <<"identityProvider", q>>
           x4 == <<"arThreshold", v, n>>
           d == DetailsRead(ctx, v, q, n)
           changed == {"state", "details", "provider", "arLength", "arsLeft", "ars"}
<1>2. PICK u1, u2, u3 : Grows(hash, u1, x1) /\ Grows(u1, u2, x2) /\ Grows(u2, u3, x3) /\ Grows(u3, hash', x4)
  BY <1>1 DEF GrowsFour, GrowsTwo
<1>3. ctx \in Credentials /\ n \in Nat
  BY <1>1, Limits DEF Follows
<1>4. /\ d \in Credentials /\ Kept(ctx, d, changed) /\ d.state = "AR_IDENTITY" /\ d.details = v
      /\ d.arLength = n /\ d.arsLeft = n /\ d.ars = << >>
  BY <1>3, DetailsReadKnown
<1>5. /\ x1[1] = "signatureThreshold" /\ x2[1] = "regIdCred" /\ x3[1] = "identityProvider"
      /\ x4 = <<"arThreshold", v, n>> /\ Follows(ins, "SIGNATURE_THRESHOLD", d)
      /\ "update" \notin changed /\ "credentialsLeft" \notin changed
  BY <1>1
<1>6. /\ KeyRow(d) = KeyRow(ctx)
      /\ DetailRows(d) = KeyRow(ctx) \cup {x1, x4, x2, <<"identityProvider", d.provider>>, <<"arList", d.ars>>}
  <2>1. d.key = ctx.key
    BY <1>4 DEF Kept, CredentialFields
  <2> QED
    BY <1>4, <2>1 DEF DetailRows, KeyRow, ArThresholdRow
<1>7. x1 # <<"arList", d.ars>> /\ x2 # <<"arList", d.ars>> /\ x4 # <<"arList", d.ars>>
      /\ <<"arList", d.ars>> \notin KeyRow(ctx)
  BY DEF KeyRow
<1>8. Extends(hash, hash') /\ Len(hash') = Len(hash) + 4
  BY <1>1, FourExtend
<1> HIDE DEF x1, x2, x3, x4, d, changed
<1>9. hash'[Len(hash) + 1] = x1 /\ hash'[Len(hash) + 2] = x2 /\ hash'[Len(hash) + 3] = x3 /\ hash'[Len(hash) + 4] = x4
  BY <1>2, FourValues
<1>10. x4[1] = "arThreshold"
  BY <1>5
<1>11. NoneBegins(hash, hash')
  <2> SUFFICES ASSUME NEW k \in Len(hash) + 1 .. Len(hash')
               PROVE  hash'[k][1] \in {"signatureThreshold", "regIdCred", "identityProvider", "arThreshold"}
    BY DEF NoneBegins
  <2>1. k \in {Len(hash) + 1, Len(hash) + 2, Len(hash) + 3, Len(hash) + 4}
    BY <1>8 DEF Extends
  <2> QED
    BY <1>5, <1>9, <1>10, <2>1
<1>12. ASSUME NEW emb PROVE GoesOn(hash, ctx, "SIGNATURE_THRESHOLD", hash', d, "AR_IDENTITY", emb)
  <2> SUFFICES ASSUME NEW i \in Nat \ {0}, KeysRead(hash, i, Len(hash) + 1)
               PROVE  ArsComing(hash', i, d.ars, d.arsLeft)
    BY SoFarIs DEF GoesOn
  <2>1. /\ hash'[Len(hash) + 1][1] = "signatureThreshold" /\ hash'[Len(hash) + 2][1] = "regIdCred"
        /\ hash'[Len(hash) + 3][1] = "identityProvider" /\ hash'[Len(hash) + 4] = <<"arThreshold", v, n>>
    BY <1>5, <1>9
  <2> DEFINE ars == d.ars
  <2>2. ars = << >>
    BY <1>4
  <2> HIDE DEF ars
  <2>3. ArsComing(hash', i, ars, n)
    BY <1>3, <1>8, <2>1, <2>2, DetailsCome
  <2> QED
    BY <1>4, <2>3 DEF ars
<1>13. RowsKept(hash, ctx, "SIGNATURE_THRESHOLD", approved) => RowsKept(hash', d, "AR_IDENTITY", approved)
  <2> SUFFICES ASSUME RowsKept(hash, ctx, "SIGNATURE_THRESHOLD", approved)
               PROVE  RowsKept(hash', d, "AR_IDENTITY", approved)
    OBVIOUS
  <2>1. /\ CredentialRows(hash) \subseteq approved \cup KeyRow(ctx) /\ ListsRead(hash, 0)
        /\ hash = << >> \/ hash[Len(hash)][1] # "tag"
    BY DueIs DEF RowsKept
  <2>2. CredentialRows(u1) \subseteq CredentialRows(hash) \cup {x1} /\ ListsRead(u1, 0) /\ u1[Len(u1)] = x1
    BY <1>2, <1>5, <2>1, RowsGrow
  <2>3. CredentialRows(u2) \subseteq CredentialRows(u1) \cup {x2} /\ ListsRead(u2, 0) /\ u2[Len(u2)] = x2
    BY <1>2, <1>5, <2>2, RowsGrow
  <2>4. /\ CredentialRows(u3) \subseteq CredentialRows(u2) \cup {y \in {x3} : y[1] \in RowTags}
        /\ ListsRead(u3, 0) /\ u3[Len(u3)] = x3
    BY <1>2, <1>5, <2>3, RowsGrow
  <2>5. {y \in {x3} : y[1] \in RowTags} = {}
    BY <1>5 DEF RowTags
  <2>6. Grows(u3, hash', <<"arThreshold", v, n>>) /\ u3[Len(u3)][1] # "tag"
    BY <1>2, <1>5, <2>4
  <2>7. /\ CredentialRows(hash') \subseteq CredentialRows(u3) \cup {x4} \cup {y \in {<<"arList", << >>>>} : n = 0}
        /\ ListsRead(hash', Len(hash')) /\ hash'[Len(hash')][1] # "tag"
    BY <1>3, <1>5, <2>4, <2>6, ThresholdRows
  <2>8. ListsRead(hash', Len(hash') - Len(d.ars))
    <3>1. Len(d.ars) = 0 /\ Len(hash') \in Nat
      BY <1>4, <1>8 DEF Extends
    <3>2. Len(hash') - Len(d.ars) = Len(hash')
      BY <3>1
    <3> QED
      BY <2>7, <3>2
  <2>9. CredentialRows(hash') \subseteq approved \cup RowsDue(d, "AR_IDENTITY")
    <3>1. CASE n = 0
      <4>1. RowsDue(d, "AR_IDENTITY") = DetailRows(d)
        BY <1>4, <3>1, DueIs
      <4> QED
        BY <1>4, <1>6, <2>1, <2>2, <2>3, <2>4, <2>5, <2>7, <4>1
    <3>2. CASE n # 0
      <4>1. RowsDue(d, "AR_IDENTITY") = DetailRows(d) \ {<<"arList", d.ars>>}
        BY <1>4, <3>2, DueIs
      <4>2. {y \in {<<"arList", << >>>>} : n = 0} = {}
        BY <3>2
      <4>3. CredentialRows(hash') \subseteq approved \cup KeyRow(ctx) \cup {x1, x2, x4}
        BY <2>1, <2>2, <2>3, <2>4, <2>5, <2>7, <4>2
      <4>4. KeyRow(ctx) \cup {x1, x2, x4} \subseteq DetailRows(d) \ {<<"arList", d.ars>>}
        BY <1>6, <1>7
      <4> QED
        BY <4>1, <4>3, <4>4
    <3> QED
      BY <3>1, <3>2
  <2> QED
    BY <2>7, <2>8, <2>9 DEF RowsKept
<1> QED
  BY <1>1, <1>4, <1>5, <1>8, <1>11, <1>12, <1>13, QuietGoesOn

\* The thresholds stand at a, and the list of revokers behind them goes on.
RevokersAt(s, i, ars, left, a) ==
    /\ a = Len(s) - Len(ars) - 3 /\ DetailsAt(s, a)
    /\ s[a + 3][3] = Len(ars) + left
    /\ \A m \in 1 .. Len(ars) : ars[m] = s[a + 3 + m][2]

LEMMA RevokersFound ==
    ASSUME NEW s \in Seq(IdentityItem), NEW i \in Nat \ {0}, NEW ars \in Seq(Vals), NEW left, ArsComing(s, i, ars, left)
    PROVE  \E a \in Nat \ {0} : RevokersAt(s, i, ars, left, a)
<1>1. PICK a \in Nat \ {0} :
              /\ a = Len(s) - Len(ars) - 3 /\ KeysRead(s, i, a) /\ DetailsAt(s, a)
              /\ s[a + 3][3] = Len(ars) + left /\ Are(s, a + 4, Len(s), "ar")
              /\ \A m \in 1 .. Len(ars) : ars[m] = s[a + 3 + m][2]
  BY ArsParts
<1> QED
  BY <1>1 DEF RevokersAt

LEMMA RevokerFlow ==
    ASSUME Gated, Typed, Screens, FlowInv, NEW ins \in CredentialInss, CredentialRevoker(ins), ~Refuses PROVE FlowInv'
<1>1. PICK v \in Vals : /\ ctx.arsLeft # 0 /\ Follows(ins, "AR_IDENTITY", RevokerRead(ctx, v)) /\ Quiet
                        /\ Grows(hash, hash', <<"ar", v>>)
  BY RevokerParts
<1> DEFINE d == RevokerRead(ctx, v)
           x == <<"ar", v>>
           changed == {"state", "ars", "arsLeft"}
           st2 == IF ctx.arsLeft = 1 THEN "CREDENTIAL_DATES" ELSE "AR_IDENTITY"
           ars == ctx.ars
           left == ctx.arsLeft
           more == d.ars
<1>2. ctx \in Credentials /\ ctx.state = "AR_IDENTITY" /\ left \in Nat /\ left > 0 /\ ars \in Seq(Vals)
  BY <1>1, CountsKnown DEF Follows
<1>3. /\ d \in Credentials /\ Kept(ctx, d, changed) /\ d.state = st2
      /\ more = Append(ars, v) /\ d.arsLeft = left - 1
  BY <1>1, <1>2, RevokerReadKnown
<1>4. x[1] = "ar" /\ Follows(ins, "AR_IDENTITY", d) /\ Grows(hash, hash', x)
      /\ "update" \notin changed /\ "credentialsLeft" \notin changed
  BY <1>1
<1>5. st2 = IF left = 1 THEN "CREDENTIAL_DATES" ELSE "AR_IDENTITY"
  OBVIOUS
<1>6. \A r : DetailRows(ctx) \ {<<"arList", r>>} \subseteq DetailRows(d) \cup {<<"arList", ars>>}
  <2>1. d.key = ctx.key /\ d.details = ctx.details /\ d.provider = ctx.provider /\ d.arLength = ctx.arLength
    BY <1>3 DEF Kept, CredentialFields
  <2>2. DetailRows(ctx) \subseteq DetailRows(d) \cup {<<"arList", ars>>}
    BY <2>1 DEF DetailRows, KeyRow, ArThresholdRow
  <2> QED
    BY <2>2
<1>7. <<"arList", more>> \in DetailRows(d)
  BY DEF DetailRows
<1>8. \A y \in DetailRows(ctx) : y[1] = "arList" => y = <<"arList", ars>>
  BY DEF DetailRows, KeyRow, ArThresholdRow
<1>9. /\ RowsDue(ctx, "AR_IDENTITY") = DetailRows(ctx) \ {<<"arList", ars>>}
      /\ left # 1 => RowsDue(d, "AR_IDENTITY") = DetailRows(d) \ {<<"arList", more>>}
      /\ RowsDue(d, "CREDENTIAL_DATES") = DetailRows(d)
  <2>1. ctx.arsLeft # 0 /\ (left # 1 => d.arsLeft # 0)
    BY <1>1, <1>2, <1>3
  <2> QED
    BY <2>1, DueIs
<1>10. \E i \in Nat \ {0} : ArsComing(hash, i, ars, left)
  <2>1. screen \in {Home, Stale} /\ latch = ins /\ ctx # Wiped /\ (ins = UPDATECRED => ctx.update = "CREDENTIAL")
    BY <1>1, RestsUnlessOwed, ZeroKnown DEF Follows, Quiet
  <2>2. Stage = "AR_IDENTITY" /\ screen.cb # "sign"
    BY <1>2, <2>1, AtRest
  <2>3. CASE ins = CREDENTIAL
    <3>1. CredentialSoFar(hash, 1, ctx, "AR_IDENTITY", FALSE)
      BY <2>1, <2>2, <2>3 DEF FlowInv, FlowOpen
    <3>2. ArsComing(hash, 1, ctx.ars, ctx.arsLeft)
      BY <3>1 DEF CredentialSoFar
    <3> QED
      BY <3>2
  <2>4. CASE ins = UPDATECRED
    <3>1. UpdateSoFar(hash, ctx, "AR_IDENTITY")
      BY <2>1, <2>2, <2>4 DEF FlowInv, FlowOpen
    <3>2. CredentialAdded(hash, ctx, "AR_IDENTITY")
      BY <2>1, <2>4, <3>1 DEF UpdateSoFar
    <3>3. PICK j \in Starts(hash) : CredentialSoFar(hash, j + 1, ctx, "AR_IDENTITY", TRUE)
      BY <3>2 DEF CredentialAdded
    <3>4. j + 1 \in Nat \ {0}
      BY DEF Starts, Typed
    <3> QED
      BY <3>3, <3>4, SoFarIs
  <2> QED
    BY <2>3, <2>4, InssKnown
<1> HIDE DEF d, x, changed, st2, ars, left, more
<1>11. ASSUME NEW emb PROVE GoesOn(hash, ctx, "AR_IDENTITY", hash', d, st2, emb)
  <2>1. ASSUME NEW i \in Nat \ {0}, CredentialSoFar(hash, i, ctx, "AR_IDENTITY", emb)
        PROVE  CredentialSoFar(hash', i, d, st2, emb)
    <3>1. ArsComing(hash, i, ars, left)
      BY <2>1, SoFarIs DEF ars, left
    <3>2. ArsComing(hash', i, more, left - 1) /\ (left = 1 => HeadRead(hash', i, Len(hash') + 1))
      BY <1>1, <1>2, <1>3, <3>1, RevokerComes
    <3>3. CASE left = 1
      BY <1>5, <3>2, <3>3, SoFarIs
    <3>4. CASE left # 1
      <4>1. ArsComing(hash', i, d.ars, d.arsLeft)
        BY <1>3, <3>2 DEF more
      <4>2. st2 = "AR_IDENTITY"
        BY <1>5, <3>4
      <4> QED
        BY <4>1, <4>2, SoFarIs
    <3> QED
      BY <3>3, <3>4
  <2> QED
    BY <2>1 DEF GoesOn
<1>12. RowsKept(hash, ctx, "AR_IDENTITY", approved) => RowsKept(hash', d, st2, approved)
  <2> SUFFICES ASSUME RowsKept(hash, ctx, "AR_IDENTITY", approved) PROVE RowsKept(hash', d, st2, approved)
    OBVIOUS
  <2>1. PICK i \in Nat \ {0} : ArsComing(hash, i, ars, left)
    BY <1>10
  <2>2. PICK a \in Nat \ {0} : RevokersAt(hash, i, ars, left, a)
    <3>1. hash \in Seq(IdentityItem)
      BY DEF Typed
    <3> QED
      BY <1>2, <2>1, <3>1, RevokersFound
  <2> DEFINE o == a + 3
  <2>3. Len(ars) \in Nat /\ Len(hash) \in Nat
    BY <1>2 DEF Typed
  <2>4. o \in 1 .. Len(hash) /\ o = Len(hash) - Len(ars) /\ hash[o][1] = "arThreshold"
    BY <2>2, <2>3 DEF DetailsAt, RevokersAt
  <2>5. ListAt(hash, ars, left, o)
    BY <2>2, <2>4 DEF RevokersAt, ListAt
  <2> HIDE DEF o
  <2>6. /\ CredentialRows(hash) \subseteq approved \cup (DetailRows(ctx) \ {<<"arList", ars>>})
        /\ ListsRead(hash, o) /\ hash[Len(hash)][1] # "tag"
    <3>1. hash # << >>
      BY <2>3, <2>4 DEF Typed
    <3>2. ListsRead(hash, Len(hash) - Len(ars))
      BY DEF RowsKept, ars
    <3> QED
      BY <1>9, <2>4, <3>1, <3>2 DEF RowsKept
  <2>7. /\ CredentialRows(hash') \subseteq CredentialRows(hash) \cup {y \in {<<"arList", Append(ars, v)>>} : left = 1}
        /\ ListsRead(hash', o) /\ (left = 1 => ListsRead(hash', 0))
        /\ hash'[Len(hash')][1] # "tag"
    BY <1>1, <1>2, <2>5, <2>6, RevokerRows
  <2>8. CASE left = 1
    <3>1. st2 = "CREDENTIAL_DATES" /\ RowsDue(d, st2) = DetailRows(d) /\ ListsRead(hash', 0)
      BY <1>5, <1>9, <2>7, <2>8
    <3>2. CredentialRows(hash') \subseteq approved \cup DetailRows(d)
      <4>1. DetailRows(ctx) \ {<<"arList", ars>>} \subseteq DetailRows(d)
        BY <1>6
      <4>2. {y \in {<<"arList", Append(ars, v)>>} : left = 1} \subseteq DetailRows(d)
        BY <1>3, <1>7
      <4> QED
        BY <2>6, <2>7, <4>1, <4>2
    <3> QED
      BY <2>7, <3>1, <3>2 DEF RowsKept
  <2>9. CASE left # 1
    <3>1. st2 = "AR_IDENTITY" /\ RowsDue(d, st2) = DetailRows(d) \ {<<"arList", more>>}
      BY <1>5, <1>9, <2>9
    <3>2. DetailRows(ctx) \ {<<"arList", ars>>} \subseteq DetailRows(d) \ {<<"arList", more>>}
      <4>1. DetailRows(ctx) \ {<<"arList", ars>>} \subseteq DetailRows(d)
        BY <1>6
      <4>2. ASSUME NEW y \in DetailRows(ctx) \ {<<"arList", ars>>} PROVE y # <<"arList", more>>
        <5>1. y[1] # "arList"
          BY <1>8, <4>2
        <5> QED
          BY <5>1
      <4> QED
        BY <4>1, <4>2
    <3>3. {y \in {<<"arList", Append(ars, v)>>} : left = 1} = {}
      BY <2>9
    <3>4. CredentialRows(hash') \subseteq approved \cup RowsDue(d, st2)
      BY <2>6, <2>7, <3>1, <3>2, <3>3
    <3>5. Len(hash') - Len(more) = o
      <4>1. Len(hash') = Len(hash) + 1
        BY <1>4 DEF Grows
      <4>2. Len(more) = Len(ars) + 1
        BY <1>2, <1>3
      <4> QED
        BY <2>3, <2>4, <4>1, <4>2
    <3>6. ListsRead(hash', IF st2 = "AR_IDENTITY" THEN Len(hash') - Len(d.ars) ELSE 0)
      BY <2>7, <3>1, <3>5 DEF more
    <3> QED
      BY <2>7, <3>4, <3>6 DEF RowsKept
  <2> QED
    BY <2>8, <2>9
<1>13. Extends(hash, hash') /\ NoneBegins(hash, hash')
  BY <1>4, GrowsExtends, OneBegins
<1> QED
  BY <1>1, <1>3, <1>4, <1>11, <1>12, <1>13, QuietGoesOn

\* A review that asks to sign closes the transcript.
LEMMA SignHolds ==
    ASSUME screen'.cb = "sign", IsWhole(hash'), IdentityRows(hash') \subseteq Shown',
           NetworkShown(hash', path', Shown')
    PROVE  FlowInv'
  BY DEF FlowInv, FlowOpen

\* What an open flow at rest has shown.
LEMMA OpenAtRest ==
    ASSUME Screens, FlowInv, reply # Owed
    PROVE  /\ Shown = approved
           /\ FlowOpen(IPINFO) => IpSoFar(hash, ctx, approved)
           /\ FlowOpen(CREDENTIAL) =>
                 CredentialSoFar(hash, 1, ctx, ctx.state, FALSE) /\ RowsKept(hash, ctx, ctx.state, approved)
           /\ FlowOpen(UPDATECRED) /\ ctx.update # "CREDENTIAL" =>
                 UpdateSoFar(hash, ctx, "between") /\ RowsKept(hash, ctx, "between", approved)
           /\ latch \in IdentityInss /\ ctx # Wiped => NetworkShown(hash, path, approved)
           /\ screen.cb # "sign" /\ screen.items = {}
<1>1. screen \in {Home, Stale}
  BY RestsUnlessOwed
<1>2. /\ Shown = approved /\ screen.cb # "sign" /\ screen.items = {}
      /\ latch = UPDATECRED /\ ctx.update # "CREDENTIAL" => Stage = "between"
      /\ latch = CREDENTIAL => Stage = ctx.state
  BY <1>1, AtRest, RestingScreens, InssKnown
<1> QED
  BY <1>2 DEF FlowInv, FlowOpen

LEMMA NewOrExistingFlow ==
    ASSUME Gated, Typed, Screens, FlowInv, CredentialNewOrExisting(CREDENTIAL), ~Refuses PROVE FlowInv'
<1>1. PICK v \in Vals, tag \in {"expiry", "address"} :
                 /\ Follows(CREDENTIAL, "NEW_OR_EXISTING", ctx)
                 /\ Draws(uiSignCredentialDeploymentExistingDisplay(ctx, <<tag, v>>))
                 /\ GrowsTwo(hash, hash', <<"newOrExisting", tag>>, <<tag, v>>)
  BY NewOrExistingParts
<1> DEFINE x == <<"newOrExisting", tag>>
           y == <<tag, v>>
           s == uiSignCredentialDeploymentExistingDisplay(ctx, y)
<1>2. PICK u : Grows(hash, u, x) /\ Grows(u, hash', y)
  BY <1>1 DEF GrowsTwo
<1>3. /\ latch = CREDENTIAL /\ ctx \in Credentials /\ ctx.state = "NEW_OR_EXISTING" /\ path' = path
      /\ approved' = approved /\ reply # Owed /\ screen' = s /\ ctx # Wiped
  BY <1>1, ZeroKnown DEF Follows, Draws
<1>4. s.cb = "sign" /\ s.items = DetailRows(ctx) \cup IF y[1] = "address" THEN {y} ELSE {}
  BY ReviewsKnown
<1>5. x[1] = "newOrExisting" /\ y[1] = tag /\ tag \in {"expiry", "address"}
  BY <1>1
<1>6. /\ CredentialSoFar(hash, 1, ctx, "NEW_OR_EXISTING", FALSE)
      /\ RowsKept(hash, ctx, "NEW_OR_EXISTING", approved) /\ NetworkShown(hash, path, approved)
  BY <1>3, OpenAtRest, InssKnown DEF FlowOpen
<1>7. IsCredential(hash, 1, Len(hash), FALSE)
  BY <1>6, SoFarIs
<1>8. /\ Extends(hash, hash') /\ Len(hash') = Len(hash) + 2
      /\ hash'[Len(hash) + 1] = x /\ hash'[Len(hash) + 2] = y
  BY <1>1, TwoExtend
<1>9. IsDeployment(hash')
  BY <1>7, <1>8, DeploymentEnds
<1> HIDE DEF x, y, s
<1>10. NoneBegins(hash, hash')
  <2> SUFFICES ASSUME NEW k \in Len(hash) + 1 .. Len(hash') PROVE hash'[k][1] \in {"newOrExisting", "expiry", "address"}
    BY DEF NoneBegins
  <2>1. k = Len(hash) + 1 \/ k = Len(hash) + 2
    BY <1>8 DEF Extends
  <2> QED
    BY <1>5, <1>8, <2>1
<1>11. NetworkShown(hash', path', Shown')
  <2>1. approved \subseteq Shown'
    BY <1>3 DEF Shown
  <2> QED
    BY <1>3, <1>6, <1>8, <1>10, <2>1, NetworkStays
<1>12. CredentialRows(hash') \subseteq approved \cup s.items
  <2>1. /\ CredentialRows(hash) \subseteq approved \cup DetailRows(ctx) /\ ListsRead(hash, 0)
        /\ hash = << >> \/ hash[Len(hash)][1] # "tag"
    BY <1>6, DueIs DEF RowsKept
  <2>2. /\ CredentialRows(u) \subseteq CredentialRows(hash) \cup {z \in {x} : z[1] \in RowTags}
        /\ ListsRead(u, 0) /\ u[Len(u)] = x
    BY <1>2, <1>5, <2>1, RowsGrow
  <2>3. CredentialRows(hash') \subseteq CredentialRows(u) \cup {z \in {y} : z[1] \in RowTags}
    BY <1>2, <1>5, <2>2, RowsGrow
  <2>4. {z \in {x} : z[1] \in RowTags} = {}
    BY <1>5 DEF RowTags
  <2>5. {z \in {y} : z[1] \in RowTags} \subseteq IF y[1] = "address" THEN {y} ELSE {}
    BY <1>5 DEF RowTags
  <2> QED
    BY <1>4, <2>1, <2>2, <2>3, <2>4, <2>5
<1>13. IdentityRows(hash') = CredentialRows(hash')
  <2>1. IsCredential(hash, 1, Len(hash), FALSE) => hash[1][1] = "keysLength" /\ Len(hash) >= 1
    <3>1. Len(hash) \in Nat
      BY <1>8 DEF Extends
    <3> QED
      BY <3>1 DEF IsCredential
  <2>2. hash'[1][1] = "keysLength"
    BY <1>7, <1>8, <2>1 DEF Extends
  <2> QED
    BY <2>2 DEF IdentityRows, IsIpTranscript
<1>14. screen'.cb = "sign" /\ IsWhole(hash') /\ IdentityRows(hash') \subseteq Shown'
  BY <1>3, <1>4, <1>9, <1>12, <1>13 DEF IsWhole, Shown
<1> QED
  BY <1>11, <1>14, SignHolds

LEMMA ThresholdFlow ==
    ASSUME Gated, Typed, Screens, FlowInv, UpdateThreshold PROVE FlowInv'
<1>1. PICK v \in Vals :
              /\ FollowsUpdate("THRESHOLD", ctx) /\ Draws(uiSignUpdateCredentialThresholdDisplay(v))
              /\ Grows(hash, hash', <<"threshold", v>>)
  BY ThresholdParts
<1> DEFINE x == <<"threshold", v>>
           s == uiSignUpdateCredentialThresholdDisplay(v)
<1>2. /\ latch = UPDATECRED /\ ctx \in Credentials /\ ctx.update = "THRESHOLD" /\ path' = path
      /\ approved' = approved /\ reply # Owed /\ screen' = s /\ ctx # Wiped
  BY <1>1, ZeroKnown DEF FollowsUpdate, Draws
<1>3. s.cb = "sign" /\ s.items = {x}
  BY ReviewsKnown
<1>4. /\ UpdateSoFar(hash, ctx, "between")
      /\ RowsKept(hash, ctx, "between", approved) /\ NetworkShown(hash, path, approved)
  BY <1>2, OpenAtRest, InssKnown DEF FlowOpen
<1>5. UpdateHead(hash, 0) /\ IdsComing(hash, ctx) /\ ctx.idsLeft = 0
  BY <1>2, <1>4 DEF UpdateSoFar
<1>6. IsUpdate(hash')
  BY <1>1, <1>5, UpdateEnds
<1>7. x[1] = "threshold" /\ Grows(hash, hash', x)
  BY <1>1
<1> HIDE DEF x, s
<1>8. Extends(hash, hash') /\ NoneBegins(hash, hash')
  BY <1>7, GrowsExtends, OneBegins
<1>9. NetworkShown(hash', path', Shown')
  <2>1. approved \subseteq Shown'
    BY <1>2 DEF Shown
  <2> QED
    BY <1>2, <1>4, <1>8, <2>1, NetworkStays
<1>10. CredentialRows(hash') \subseteq approved \cup s.items
  <2>1. /\ CredentialRows(hash) \subseteq approved /\ ListsRead(hash, 0)
        /\ hash = << >> \/ hash[Len(hash)][1] # "tag"
    BY <1>4, DueIs DEF RowsKept
  <2>2. CredentialRows(hash') \subseteq CredentialRows(hash) \cup {z \in {x} : z[1] \in RowTags}
    BY <1>7, <2>1, RowsGrow
  <2> QED
    BY <1>3, <2>1, <2>2
<1>11. IdentityRows(hash') = CredentialRows(hash')
  <2>1. hash[1][1] = "header" /\ Len(hash) >= 3 /\ Len(hash) \in Nat
    BY <1>5, <1>8 DEF UpdateHead, Extends
  <2>2. hash'[1][1] = "header"
    BY <1>8, <2>1 DEF Extends
  <2> QED
    BY <2>2 DEF IdentityRows, IsIpTranscript
<1>12. screen'.cb = "sign" /\ IsWhole(hash') /\ IdentityRows(hash') \subseteq Shown'
  BY <1>2, <1>3, <1>6, <1>10, <1>11 DEF IsWhole, Shown
<1> QED
  BY <1>9, <1>12, SignHolds

\* What a packet or a button of a flow has to keep.
LEMMA FlowHolds ==
    ASSUME screen'.cb # "sign", NEW ins \in IdentityInss, latch' = ins,
           ins = IPINFO => IpSoFar(hash', ctx', Shown'),
           ins = CREDENTIAL => CredentialSoFar(hash', 1, ctx', Stage', FALSE) /\ RowsKept(hash', ctx', Stage', Shown'),
           ins = UPDATECRED => UpdateSoFar(hash', ctx', Stage') /\ RowsKept(hash', ctx', Stage', Shown'),
           NetworkShown(hash', path', Shown')
    PROVE  FlowInv'
  BY DEF FlowInv, FlowOpen

LEMMA EmptyRows ==
    ASSUME NEW c, NEW st, st # "AR_IDENTITY", NEW shown PROVE RowsKept(<< >>, c, st, shown) /\ ListsRead(<< >>, 0)
<1> DEFINE s == << >>
<1>1. DOMAIN s = {}
  OBVIOUS
<1> HIDE DEF s
<1>2. ItemRows(s) = {} /\ ListRows(s) = {} /\ AttributeRows(s) = {}
  BY <1>1 DEF ItemRows, ListRows, AttributeRows, ItemsOf
<1>3. CredentialRows(s) = {} /\ ListsRead(s, 0)
  BY <1>1, <1>2, RowsAre DEF ListsRead
<1>4. RowsKept(s, c, st, shown)
  BY <1>3 DEF RowsKept, s
<1> QED
  BY <1>3, <1>4 DEF s

LEMMA InitialFlow ==
    ASSUME Gated, Typed, Screens, FlowInv, CredentialInitial, ~Refuses PROVE FlowInv'
<1>1. PICK p \in Paths, c \in Credentials :
                 /\ latch' = CREDENTIAL /\ ctx' = Begun(c) /\ path' = p /\ hash' = << >> /\ approved' = {}
                 /\ Quiet
  BY InitialParts
<1> DEFINE d == Begun(c)
<1>2. d.state = "VERIFICATION_KEYS_LENGTH"
  BY BegunKnown
<1>3. screen \in {Home, Stale} /\ screen' = screen
  BY <1>1, RestsUnlessOwed DEF Quiet
<1>4. screen'.cb \notin {"sign", "attribute", "added"}
  BY <1>3, RestingScreens
<1>5. Stage' = "VERIFICATION_KEYS_LENGTH"
  BY <1>1, <1>2, <1>4, InssKnown DEF Stage
<1> HIDE DEF d
<1>6. CredentialSoFar(hash', 1, ctx', "VERIFICATION_KEYS_LENGTH", FALSE)
  <2>1. Len(hash') = 1 - 1
    BY <1>1
  <2> QED
    BY <2>1, SoFarIs
<1>7. RowsKept(hash', ctx', "VERIFICATION_KEYS_LENGTH", Shown')
  BY <1>1, EmptyRows
<1>8. NetworkShown(hash', path', Shown')
  <2>1. ItemsOf(hash') = {}
    BY <1>1 DEF ItemsOf
  <2> QED
    BY <2>1 DEF NetworkShown
<1> QED
  BY <1>1, <1>4, <1>5, <1>6, <1>7, <1>8, FlowHolds, InssKnown

LEMMA UpdateInitialFlow ==
    ASSUME Gated, Typed, Screens, FlowInv, UpdateInitial, ~Refuses PROVE FlowInv'
<1>1. PICK h \in Headers, p \in Paths, n \in 0 .. ListMax, c \in Credentials :
                 /\ latch' = UPDATECRED /\ ctx' = UpdateBegun(c, n) /\ path' = p /\ approved' = {}
                 /\ Draws(uiSignUpdateCredentialInitialDisplay(AccountSender(h, p)))
                 /\ GrowsThree(<< >>, hash', <<"header", h>>, <<"kind", UPDATECRED>>,
                               <<"credentialCount", n>>)
  BY UpdateInitialParts
<1> DEFINE d == UpdateBegun(c, n)
           x1 == <<"header", h>>
           x2 == <<"kind", UPDATECRED>>
           x3 == <<"credentialCount", n>>
           s == uiSignUpdateCredentialInitialDisplay(AccountSender(h, p))
           empty == << >>
<1>2. PICK u, w : Grows(empty, u, x1) /\ Grows(u, w, x2) /\ Grows(w, hash', x3)
  BY <1>1 DEF GrowsThree, GrowsTwo
<1>3. s.cb = "proceed" /\ s.items = HeaderPairs(AccountSender(h, p))
  BY ReviewsKnown
<1>4. HeaderPairs(AccountSender(h, p)) = {<<"header", h>>, <<"network", NetworkOf(p)>>}
  BY DEF HeaderPairs, AccountSender
<1>5. screen' = s /\ Shown' = s.items /\ screen'.cb # "sign"
  BY <1>1, <1>3 DEF Draws, Shown
<1>6. /\ d.update = (IF n = 0 THEN "ID_COUNT" ELSE "CREDENTIAL_INDEX") /\ d.credentialsLeft = n
      /\ n \in Nat
  BY UpdateBegunKnown, Limits
<1>7. /\ Extends(empty, hash') /\ Len(hash') = Len(empty) + 3
      /\ hash'[Len(empty) + 1] = x1 /\ hash'[Len(empty) + 2] = x2 /\ hash'[Len(empty) + 3] = x3
  BY <1>1, ThreeExtend
<1>8. Len(empty) = 0 /\ x1[1] = "header" /\ x2[1] = "kind" /\ x3[1] = "credentialCount"
  OBVIOUS
<1>9. hash' \in Seq(IdentityItem) /\ Len(hash') = 3 /\ hash'[1] = x1 /\ hash'[2] = x2 /\ hash'[3] = x3
  BY <1>7, <1>8 DEF Extends
<1>10. UpdateHead(hash', n) /\ Added(hash', Len(hash') + 1)
  BY <1>6, <1>8, <1>9, UpdateBegins
<1>11. x1 \in s.items /\ <<"network", NetworkOf(p)>> \in s.items
  BY <1>3, <1>4
<1>e. empty = << >>
  OBVIOUS
<1>u. ctx' = d
  BY <1>1
<1> HIDE DEF d, s, empty, x1, x2, x3
<1>12. Stage' = "between"
  BY <1>1, <1>6, <1>u DEF Stage
<1>13. UpdateSoFar(hash', ctx', "between")
  BY <1>6, <1>10, <1>u DEF UpdateSoFar
<1>14. RowsKept(hash', ctx', "between", Shown')
  <2>1. CredentialRows(empty) \subseteq s.items /\ ListsRead(empty, 0)
    <3>1. RowsKept(empty, d, "between", s.items) /\ ListsRead(empty, 0)
      BY <1>e, EmptyRows
    <3> QED
      BY <3>1, DueIs DEF RowsKept
  <2>2. CredentialRows(u) \subseteq CredentialRows(empty) \cup {z \in {x1} : z[1] \in RowTags}
        /\ ListsRead(u, 0) /\ u[Len(u)] = x1
    BY <1>2, <1>8, <1>e, <2>1, RowsGrow
  <2>3. CredentialRows(w) \subseteq CredentialRows(u) \cup {z \in {x2} : z[1] \in RowTags}
        /\ ListsRead(w, 0) /\ w[Len(w)] = x2
    BY <1>2, <1>8, <2>2, RowsGrow
  <2>4. CredentialRows(hash') \subseteq CredentialRows(w) \cup {z \in {x3} : z[1] \in RowTags}
        /\ ListsRead(hash', 0) /\ hash'[Len(hash')] = x3
    BY <1>2, <1>8, <2>3, RowsGrow
  <2>5. {z \in {x2} : z[1] \in RowTags} = {} /\ {z \in {x3} : z[1] \in RowTags} = {}
    BY <1>8 DEF RowTags
  <2>6. CredentialRows(hash') \subseteq s.items
    BY <1>11, <2>1, <2>2, <2>3, <2>4, <2>5
  <2> QED
    BY <1>5, <1>8, <2>4, <2>6 DEF RowsKept
<1>15. NetworkShown(hash', path', Shown')
  BY <1>1, <1>5, <1>11 DEF NetworkShown
<1> QED
  BY <1>1, <1>5, <1>12, <1>13, <1>14, <1>15, FlowHolds, InssKnown

LEMMA IndexFlow ==
    ASSUME Gated, Typed, Screens, FlowInv, UpdateIndex PROVE FlowInv'
<1>1. PICK v \in Vals :
              /\ ctx.credentialsLeft > 0 /\ FollowsUpdate("CREDENTIAL_INDEX", IndexRead(ctx)) /\ Quiet
              /\ Grows(hash, hash', <<"credentialIndex", v>>)
  BY IndexParts
<1> DEFINE x == <<"credentialIndex", v>>
           d == IndexRead(ctx)
<1>2. /\ latch = UPDATECRED /\ latch' = UPDATECRED /\ ctx \in Credentials /\ ctx.update = "CREDENTIAL_INDEX"
      /\ path' = path /\ approved' = approved /\ ctx # Wiped /\ ctx' = d
  BY <1>1, ZeroKnown DEF FollowsUpdate
<1>3. screen \in {Home, Stale} /\ screen' = screen /\ reply # Owed
  BY <1>1, RestsUnlessOwed DEF Quiet
<1>4. screen'.cb \notin {"sign", "attribute", "added"} /\ Shown' = approved
  BY <1>2, <1>3, RestingScreens DEF Shown
<1>5. /\ d.update = "CREDENTIAL" /\ d.state = "VERIFICATION_KEYS_LENGTH"
      /\ d.credentialsLeft = ctx.credentialsLeft
  <2>1. /\ Kept(ctx, d, {"update", "state"}) /\ d.update = "CREDENTIAL"
        /\ (d.state = "VERIFICATION_KEYS_LENGTH")
    BY <1>1, <1>2, IndexReadKnown
  <2> QED
    BY <2>1 DEF Kept, CredentialFields
<1>6. Stage' = "VERIFICATION_KEYS_LENGTH"
  BY <1>2, <1>4, <1>5 DEF Stage
<1>7. /\ UpdateSoFar(hash, ctx, "between")
      /\ RowsKept(hash, ctx, "between", approved) /\ NetworkShown(hash, path, approved)
  BY <1>2, <1>3, OpenAtRest, InssKnown DEF FlowOpen
<1>8. x[1] = "credentialIndex" /\ Grows(hash, hash', x)
  BY <1>1
<1> DEFINE left == ctx.credentialsLeft
<1>9. left \in Nat \ {0} /\ UpdateHead(hash, left) /\ Added(hash, Len(hash) + 1)
  BY <1>1, <1>2, <1>7, CountsKnown DEF UpdateSoFar
<1> HIDE DEF d, left
<1>10. /\ UpdateHead(hash', left - 1)
       /\ \E j \in Starts(hash') : /\ \A i \in Starts(hash') : i <= j
                                   /\ Added(hash', j) /\ Len(hash') = (j + 1) - 1
  BY <1>1, <1>9, IndexComes
<1>11. CredentialAdded(hash', ctx', "VERIFICATION_KEYS_LENGTH")
  BY <1>10, SoFarIs DEF CredentialAdded
<1>12. UpdateSoFar(hash', ctx', "VERIFICATION_KEYS_LENGTH")
  BY <1>2, <1>5, <1>10, <1>11 DEF UpdateSoFar, left
<1> HIDE DEF x
<1>13. RowsKept(hash', ctx', "VERIFICATION_KEYS_LENGTH", approved)
  <2>1. RowsDue(ctx, "between") = {} /\ x[1] \notin RowTags
    BY <1>8, DueIs DEF RowTags
  <2> QED
    BY <1>7, <1>8, <2>1, PlainRows
<1>14. NetworkShown(hash', path', approved)
  <2>1. Extends(hash, hash')
    BY <1>8, GrowsExtends
  <2>2. <<"kind", UPDATECRED>> \in ItemsOf(hash') => <<"kind", UPDATECRED>> \in ItemsOf(hash)
    <3>1. SUFFICES ASSUME NEW k \in DOMAIN hash', hash'[k] = <<"kind", UPDATECRED>>
                   PROVE  k \in DOMAIN hash /\ hash[k] = <<"kind", UPDATECRED>>
      BY DEF ItemsOf
    <3>2. hash'[k][1] = "kind"
      BY <3>1
    <3>3. k \in 1 .. Len(hash)
      BY <1>8, <3>1, <3>2 DEF Grows
    <3> QED
      BY <1>8, <3>1, <3>3 DEF Grows
  <2> QED
    BY <1>2, <1>7, <2>2 DEF NetworkShown
<1> QED
  BY <1>2, <1>4, <1>6, <1>12, <1>13, <1>14, FlowHolds, InssKnown

LEMMA IdCountFlow ==
    ASSUME Gated, Typed, Screens, FlowInv, UpdateIdCount PROVE FlowInv'
<1>1. PICK n \in 0 .. ListMax :
              /\ FollowsUpdate("ID_COUNT", IdsAnnounced(ctx, n)) /\ Quiet
              /\ Grows(hash, hash', <<"idCount", n>>)
  BY IdCountParts
<1> DEFINE x == <<"idCount", n>>
           d == IdsAnnounced(ctx, n)
<1>2. /\ latch = UPDATECRED /\ latch' = UPDATECRED /\ ctx \in Credentials /\ ctx.update = "ID_COUNT"
      /\ path' = path /\ approved' = approved /\ ctx # Wiped /\ ctx' = d
  BY <1>1, ZeroKnown DEF FollowsUpdate
<1>3. screen \in {Home, Stale} /\ screen' = screen /\ reply # Owed
  BY <1>1, RestsUnlessOwed DEF Quiet
<1>4. screen'.cb \notin {"sign", "attribute", "added"} /\ Shown' = approved
  BY <1>2, <1>3, RestingScreens DEF Shown
<1>5. (d.update = IF n = 0 THEN "THRESHOLD" ELSE "ID") /\ d.idsLeft = n /\ n \in Nat
  BY <1>2, IdsAnnouncedKnown, Limits
<1>6. /\ UpdateSoFar(hash, ctx, "between")
      /\ RowsKept(hash, ctx, "between", approved) /\ NetworkShown(hash, path, approved)
  BY <1>2, <1>3, OpenAtRest, InssKnown DEF FlowOpen
<1>7. UpdateHead(hash, 0) /\ Added(hash, Len(hash) + 1)
  BY <1>2, <1>6 DEF UpdateSoFar
<1> HIDE DEF d
<1>8. Stage' = "between"
  BY <1>2, <1>5 DEF Stage
<1>9. UpdateHead(hash', 0) /\ IdsComing(hash', d)
  BY <1>1, <1>5, <1>7, IdCountComes
<1>10. UpdateSoFar(hash', ctx', "between")
  BY <1>2, <1>5, <1>9 DEF UpdateSoFar
<1>11. x[1] = "idCount" /\ Grows(hash, hash', x)
  BY <1>1
<1> HIDE DEF x
<1>12. RowsKept(hash', ctx', "between", approved)
  <2>1. RowsDue(ctx, "between") = {} /\ x[1] \notin RowTags
    BY <1>11, DueIs DEF RowTags
  <2> QED
    BY <1>6, <1>11, <2>1, PlainRows
<1>13. NetworkShown(hash', path', approved)
  BY <1>2, <1>6, <1>11, GrowsExtends, OneBegins, NetworkStays
<1> QED
  BY <1>2, <1>4, <1>8, <1>10, <1>12, <1>13, FlowHolds, InssKnown

LEMMA IdFlow ==
    ASSUME Gated, Typed, Screens, FlowInv, UpdateId, ~Refuses PROVE FlowInv'
<1>1. PICK v \in Vals :
                 /\ FollowsUpdate("ID", IdRead(ctx)) /\ Draws(uiSignUpdateCredentialIdDisplay(v))
                 /\ Grows(hash, hash', <<"credId", v>>)
  BY IdParts
<1> DEFINE x == <<"credId", v>>
           d == IdRead(ctx)
           s == uiSignUpdateCredentialIdDisplay(v)
           left == ctx.idsLeft
<1>2. /\ latch = UPDATECRED /\ latch' = UPDATECRED /\ ctx \in Credentials /\ ctx.update = "ID"
      /\ path' = path /\ approved' = approved /\ ctx # Wiped /\ ctx' = d
      /\ reply # Owed /\ screen' = s
  BY <1>1, ZeroKnown DEF FollowsUpdate, Draws
<1>3. s.cb = "proceed" /\ s.items = {x}
  BY ReviewsKnown
<1>4. /\ left \in Nat \ {0}
      /\ (d.update = IF left = 1 THEN "THRESHOLD" ELSE "ID") /\ d.idsLeft = left - 1
  <2>1. left \in Nat /\ left > 0
    BY <1>2, CountsKnown DEF Credentials, Consistent
  <2> QED
    BY <1>2, <2>1, IdReadKnown
<1>5. /\ UpdateSoFar(hash, ctx, "between")
      /\ RowsKept(hash, ctx, "between", approved) /\ NetworkShown(hash, path, approved)
  BY <1>2, OpenAtRest, InssKnown DEF FlowOpen
<1>6. UpdateHead(hash, 0) /\ IdsComing(hash, ctx)
  BY <1>2, <1>5 DEF UpdateSoFar
<1>7. ctx.idsLeft = left
  OBVIOUS
<1> HIDE DEF d, left, s
<1>8. screen'.cb = "proceed" /\ Shown' = approved \cup {x}
  BY <1>2, <1>3 DEF Shown
<1>9. Stage' = "between"
  BY <1>2, <1>4 DEF Stage
<1>10. UpdateHead(hash', 0) /\ IdsComing(hash', d)
  BY <1>1, <1>4, <1>6, <1>7, IdComes
<1>11. UpdateSoFar(hash', ctx', "between")
  BY <1>2, <1>4, <1>10 DEF UpdateSoFar
<1>12. x[1] = "credId" /\ Grows(hash, hash', x)
  BY <1>1
<1> HIDE DEF x
<1>13. RowsKept(hash', ctx', "between", Shown')
  <2>1. RowsDue(ctx, "between") = {} /\ x \in Shown' /\ approved \subseteq Shown'
    BY <1>8, DueIs
  <2> QED
    BY <1>5, <1>12, <2>1, PlainRows
<1>14. NetworkShown(hash', path', Shown')
  <2>1. approved \subseteq Shown' /\ Extends(hash, hash') /\ NoneBegins(hash, hash')
    BY <1>8, <1>12, GrowsExtends, OneBegins
  <2> QED
    BY <1>2, <1>5, <2>1, NetworkStays
<1> QED
  BY <1>2, <1>8, <1>9, <1>11, <1>13, <1>14, FlowHolds, InssKnown

-----------------------------------------------------------------------------
(* The public information for the identity provider. *)

LEMMA IpSoFarIs ==
    ASSUME NEW s, NEW c, NEW shown
    PROVE  IpSoFar(s, c, shown) <=>
              /\ c.state \in {"VERIFICATION_KEY", "THRESHOLD"}
              /\ IpShape(s, c.keysLeft) /\ (c.state = "THRESHOLD" => s[3][2] > 0)
              /\ IpRows(s) \subseteq shown \cup IpDue(c)
  BY DEF IpSoFar, IpShape

LEMMA IpInitialFlow ==
    ASSUME Gated, Typed, Screens, FlowInv, IpInitial, ~Refuses PROVE FlowInv'
<1>1. PICK p \in Paths, v \in Vals, n \in 0 .. KeysMax, c \in IpContexts :
                 /\ latch' = IPINFO /\ ctx' = IpBegun(c, v, n) /\ path' = p /\ approved' = {} /\ Quiet
                 /\ hash' = <<<<"idCredPub", v>>, <<"credId", v>>, <<"keyCount", n>>>>
  BY IpInitialParts
<1> DEFINE d == IpBegun(c, v, n)
           s == <<<<"idCredPub", v>>, <<"credId", v>>, <<"keyCount", n>>>>
<1>2. d.state = "VERIFICATION_KEY" /\ d.ids = v /\ d.keysLeft = n /\ d.showIntro = TRUE /\ n \in Nat
  <2>1. n \in Nat
    BY ONLY KeysAssumption, n \in 0 .. KeysMax
  <2>2. d = IpBegun(c, v, n)
    OBVIOUS
  <2> HIDE DEF d
  <2>3. d.state = "VERIFICATION_KEY" /\ d.ids = v /\ d.keysLeft = n /\ d.showIntro = TRUE
    BY <2>2, IpFields DEF IpBegun, IpContexts
  <2> QED
    BY <2>1, <2>3
<1>3. screen \in {Home, Stale} /\ screen' = screen
  BY <1>1, RestsUnlessOwed DEF Quiet
<1>4. screen'.cb # "sign"
  BY <1>3, RestingScreens
<1>5. /\ Len(s) = 3 /\ DOMAIN s = 1 .. 3
      /\ s[1] = <<"idCredPub", v>> /\ s[2] = <<"credId", v>> /\ s[3] = <<"keyCount", n>>
  OBVIOUS
<1>6. hash' = s /\ ctx' = d
  BY <1>1
<1> HIDE DEF d, s
<1>7. IpShape(s, n)
  BY <1>2, <1>5 DEF IpShape
<1>8. ItemsOf(s) = {<<"idCredPub", v>>, <<"credId", v>>, <<"keyCount", n>>}
  <2>1. DOMAIN s = {1, 2, 3}
    BY <1>5
  <2> QED
    BY <1>5, <2>1 DEF ItemsOf
<1>9. IpRows(s) \subseteq IpDue(d)
  <2>1. IpRows(s) \subseteq {<<"idCredPub", v>>, <<"credId", v>>}
    BY <1>8 DEF IpRows
  <2>2. IdRows(d) = {<<"idCredPub", v>>, <<"credId", v>>}
    BY <1>2 DEF IdRows
  <2> QED
    BY <1>2, <2>1, <2>2 DEF IpDue
<1>10. IpSoFar(hash', ctx', Shown')
  BY <1>2, <1>6, <1>7, <1>9, IpSoFarIs
<1>11. NetworkShown(hash', path', Shown')
  BY <1>6, <1>8 DEF NetworkShown
<1> QED
  BY <1>1, <1>4, <1>10, <1>11, FlowHolds, InssKnown

LEMMA KeyRowsGrow ==
    ASSUME NEW s, NEW t, NEW v, GrowsThree(s, t, <<"keyType", v>>, <<"keyIndex", v>>, <<"key", v>>)
    PROVE  IpRows(t) \subseteq IpRows(s) \cup {<<"key", v>>, <<"keyType", v>>}
<1> DEFINE x == <<"keyType", v>>
           y == <<"keyIndex", v>>
           z == <<"key", v>>
<1>1. PICK u, w : Grows(s, u, x) /\ Grows(u, w, y) /\ Grows(w, t, z)
  BY DEF GrowsThree, GrowsTwo
<1>2. y[1] = "keyIndex"
  OBVIOUS
<1> HIDE DEF x, y, z
<1>3. IpRows(u) \subseteq IpRows(s) \cup {x}
  BY <1>1, IpRowsGrow
<1>4. IpRows(w) \subseteq IpRows(u)
  <2>1. IpRows(w) \subseteq IpRows(u) \cup {q \in {y} : q[1] \notin {"keyCount", "keyIndex"}}
    BY <1>1, IpRowsGrow
  <2> QED
    BY <1>2, <2>1
<1>5. IpRows(t) \subseteq IpRows(w) \cup {z}
  BY <1>1, IpRowsGrow
<1> QED
  BY <1>3, <1>4, <1>5 DEF x, z

LEMMA IpKeyFlow ==
    ASSUME Gated, Typed, Screens, FlowInv, IpKey, ~Refuses PROVE FlowInv'
<1>1. PICK v \in Vals :
                 /\ ctx.keysLeft > 0
                 /\ GrowsThree(hash, hash', <<"keyType", v>>, <<"keyIndex", v>>, <<"key", v>>)
                 /\ \/ /\ IpKeyRead(ctx, v).keysLeft # 0
                       /\ FollowsIp("VERIFICATION_KEY", AfterIntro(IpKeyRead(ctx, v)))
                       /\ Draws(IF ctx.showIntro THEN uiReviewPublicInformationForIpDisplay(IpKeyRead(ctx, v))
                                ELSE uiSignPublicInformationForIpPublicKeyDisplay(IpKeyRead(ctx, v)))
                    \/ /\ IpKeyRead(ctx, v).keysLeft = 0 /\ Quiet
                       /\ FollowsIp("VERIFICATION_KEY", IpKeysDone(AfterIntro(IpKeyRead(ctx, v))))
  BY IpKeyParts
<1> DEFINE d == IpKeyRead(ctx, v)
           e == AfterIntro(d)
           x == <<"keyType", v>>
           y == <<"keyIndex", v>>
           z == <<"key", v>>
           left == ctx.keysLeft
<1>2. /\ latch = IPINFO /\ latch' = IPINFO /\ ctx \in IpContexts /\ ctx.state = "VERIFICATION_KEY"
      /\ path' = path /\ approved' = approved /\ reply # Owed
  BY <1>1 DEF FollowsIp, Draws, Quiet
<1>3. ctx # Wiped /\ left \in Nat \ {0} /\ ctx.showIntro \in BOOLEAN
  BY <1>1, <1>2, IpFields
<1>4. IpSoFar(hash, ctx, approved) /\ NetworkShown(hash, path, approved)
  BY <1>2, <1>3, OpenAtRest, InssKnown DEF FlowOpen
<1>5. /\ d \in IpContexts /\ d.key = v /\ d.keysLeft = left - 1 /\ d.ids = ctx.ids
      /\ d.showIntro = ctx.showIntro /\ d.state = "VERIFICATION_KEY"
  BY <1>1, <1>2, IpKeyReadKnown
<1>6. /\ e \in IpContexts /\ e.key = v /\ e.keysLeft = left - 1 /\ e.ids = ctx.ids /\ e.state = "VERIFICATION_KEY"
      /\ d.keysLeft # 0 => e.showIntro = FALSE
      /\ d.keysLeft = 0 => e.showIntro = ctx.showIntro
  BY <1>5, AfterIntroKnown
<1>7. x[1] = "keyType" /\ y[1] = "keyIndex" /\ z[1] = "key" /\ ctx.keysLeft = left
  OBVIOUS
<1>8. KeyRows(d) = {z, x} /\ IdRows(d) = IdRows(ctx) /\ KeyRows(e) = {z, x} /\ IdRows(e) = IdRows(ctx)
  BY <1>5, <1>6 DEF KeyRows, IdRows
<1>9. GrowsThree(hash, hash', x, y, z) /\ IpRows(hash') \subseteq IpRows(hash) \cup {z, x}
  BY <1>1, KeyRowsGrow
<1>10. \/ /\ d.keysLeft # 0 /\ ctx' = e
          /\ Draws(IF ctx.showIntro THEN uiReviewPublicInformationForIpDisplay(d)
                   ELSE uiSignPublicInformationForIpPublicKeyDisplay(d))
       \/ d.keysLeft = 0 /\ ctx' = IpKeysDone(e) /\ Quiet
  BY <1>1 DEF FollowsIp
<1> HIDE DEF d, e, x, y, z, left
<1>11. /\ Extends(hash, hash') /\ Len(hash') = Len(hash) + 3
       /\ hash'[Len(hash) + 1] = x /\ hash'[Len(hash) + 2] = y /\ hash'[Len(hash) + 3] = z
  BY <1>9, ThreeExtend
<1>12. IpShape(hash, left) /\ IpRows(hash) \subseteq approved \cup IpDue(ctx)
  BY <1>4, <1>7, IpSoFarIs
<1>13. IpShape(hash', left - 1) /\ hash'[3][2] > 0
  <2>1. /\ hash'[Len(hash) + 1][1] = "keyType" /\ hash'[Len(hash) + 2][1] = "keyIndex"
        /\ hash'[Len(hash) + 3][1] = "key"
    BY <1>7, <1>11
  <2> QED
    BY <1>3, <1>11, <1>12, <2>1, IpKeyComes
<1>14. IpDue(ctx) = IF ctx.showIntro THEN IdRows(ctx) ELSE {}
  BY <1>2 DEF IpDue
<1>15. NoneBegins(hash, hash')
  <2> SUFFICES ASSUME NEW k \in Len(hash) + 1 .. Len(hash') PROVE hash'[k][1] \in {"keyType", "keyIndex", "key"}
    BY DEF NoneBegins
  <2>1. k \in {Len(hash) + 1, Len(hash) + 2, Len(hash) + 3}
    BY <1>11 DEF Extends
  <2> QED
    BY <1>7, <1>11, <2>1
<1>16. NetworkShown(hash', path', Shown')
  <2>1. approved \subseteq Shown'
    BY <1>2 DEF Shown
  <2> QED
    BY <1>2, <1>4, <1>11, <1>15, <2>1, NetworkStays
<1>17. screen'.cb # "sign" /\ IpSoFar(hash', ctx', Shown')
  <2>1. CASE /\ d.keysLeft # 0 /\ ctx' = e
             /\ Draws(IF ctx.showIntro THEN uiReviewPublicInformationForIpDisplay(d)
                      ELSE uiSignPublicInformationForIpPublicKeyDisplay(d))
    <3> DEFINE s == IF ctx.showIntro THEN uiReviewPublicInformationForIpDisplay(d)
                    ELSE uiSignPublicInformationForIpPublicKeyDisplay(d)
    <3>1. s.cb = "proceed" /\ s.items = KeyRows(d) \cup IF ctx.showIntro THEN IdRows(d) ELSE {}
      <4>1. CASE ctx.showIntro
        BY <4>1, IpReviewsKnown
      <4>2. CASE ~ctx.showIntro
        BY <4>2, IpReviewsKnown
      <4> QED
        BY <4>1, <4>2
    <3>2. screen' = s
      BY <2>1 DEF Draws
    <3> HIDE DEF s
    <3>3. screen'.cb = "proceed" /\ Shown' = approved \cup s.items
      BY <1>2, <3>1, <3>2 DEF Shown
    <3>4. IpRows(hash') \subseteq Shown'
      BY <1>8, <1>9, <1>12, <1>14, <3>1, <3>3
    <3>5. ctx'.state = "VERIFICATION_KEY" /\ IpShape(hash', ctx'.keysLeft)
      BY <1>6, <1>13, <2>1
    <3> QED
      BY <3>3, <3>4, <3>5, IpSoFarIs
  <2>2. CASE d.keysLeft = 0 /\ ctx' = IpKeysDone(e) /\ Quiet
    <3> DEFINE f == IpKeysDone(e)
    <3>1. f.key = v /\ f.keysLeft = 0 /\ f.ids = ctx.ids /\ f.showIntro = ctx.showIntro /\ f.state = "THRESHOLD"
      BY <1>5, <1>6, <2>2, IpKeysDoneKnown
    <3> HIDE DEF f
    <3>2. IdRows(f) = IdRows(ctx) /\ KeyRows(f) = {z, x}
      BY <3>1 DEF IdRows, KeyRows, x, z
    <3>3. IpDue(f) = (IF ctx.showIntro THEN IdRows(ctx) ELSE {}) \cup {z, x}
      BY <3>1, <3>2 DEF IpDue
    <3>4. screen \in {Home, Stale} /\ screen' = screen
      BY <1>2, <2>2, RestsUnlessOwed DEF Quiet
    <3>5. screen'.cb # "sign" /\ Shown' = approved
      BY <1>2, <3>4, RestingScreens DEF Shown
    <3>6. IpRows(hash') \subseteq Shown' \cup IpDue(f)
      BY <1>9, <1>12, <1>14, <3>3, <3>5
    <3>7. left - 1 = 0 /\ ctx' = f
      BY <1>5, <2>2 DEF f
    <3> QED
      BY <1>13, <3>1, <3>5, <3>6, <3>7, IpSoFarIs
  <2> QED
    BY <1>10, <2>1, <2>2
<1> QED
  BY <1>2, <1>16, <1>17, FlowHolds, InssKnown

LEMMA IpThresholdFlow ==
    ASSUME Gated, Typed, Screens, FlowInv, IpThreshold PROVE FlowInv'
<1>1. PICK v \in Vals :
              /\ FollowsIp("THRESHOLD", IpThresholdRead(ctx, v)) /\ Grows(hash, hash', <<"threshold", v>>)
              /\ Draws(IF IpThresholdRead(ctx, v).showIntro
                       THEN uiSignPublicInformationForIpCompleteDisplay(IpThresholdRead(ctx, v))
                       ELSE uiSignPublicInformationForIpFinalDisplay(IpThresholdRead(ctx, v)))
  BY IpThresholdParts
<1> DEFINE x == <<"threshold", v>>
           d == IpThresholdRead(ctx, v)
           s == IF d.showIntro THEN uiSignPublicInformationForIpCompleteDisplay(d)
                ELSE uiSignPublicInformationForIpFinalDisplay(d)
<1>2. /\ latch = IPINFO /\ ctx \in IpContexts /\ ctx.state = "THRESHOLD" /\ ctx # Wiped
      /\ path' = path /\ approved' = approved /\ reply # Owed /\ screen' = s
  BY <1>1, IpFields DEF FollowsIp, Draws
<1>3. ctx.keysLeft = 0 /\ ctx.showIntro \in BOOLEAN
  BY <1>2, IpFields
<1>4. IpSoFar(hash, ctx, approved) /\ NetworkShown(hash, path, approved)
  BY <1>2, OpenAtRest, InssKnown DEF FlowOpen
<1>5. d.key = ctx.key /\ d.ids = ctx.ids /\ d.showIntro = ctx.showIntro /\ d.threshold = v
  BY <1>2, IpThresholdReadKnown
<1>6. KeyRows(d) = KeyRows(ctx) /\ IdRows(d) = IdRows(ctx) /\ x = <<"threshold", d.threshold>>
  BY <1>5 DEF KeyRows, IdRows
<1>7. x[1] = "threshold" /\ Grows(hash, hash', x)
  BY <1>1
<1> HIDE DEF d, x
<1>8. s.cb = "sign" /\ s.items = KeyRows(d) \cup {x} \cup IF d.showIntro THEN IdRows(d) ELSE {}
  <2>1. CASE d.showIntro
    BY <1>6, <2>1, IpReviewsKnown
  <2>2. CASE ~d.showIntro
    BY <1>6, <2>2, IpReviewsKnown
  <2> QED
    BY <2>1, <2>2
<1> HIDE DEF s
<1>9. IpShape(hash, 0) /\ hash[3][2] > 0 /\ IpRows(hash) \subseteq approved \cup IpDue(ctx)
  BY <1>2, <1>3, <1>4, IpSoFarIs
<1>10. IsPublicInfo(hash')
  BY <1>7, <1>9, PublicInfoEnds DEF x
<1>11. Extends(hash, hash') /\ NoneBegins(hash, hash')
  BY <1>7, GrowsExtends, OneBegins
<1>12. Shown' = approved \cup s.items
  BY <1>2 DEF Shown
<1>13. NetworkShown(hash', path', Shown')
  BY <1>2, <1>4, <1>11, <1>12, NetworkStays
<1>14. IdentityRows(hash') = IpRows(hash')
  <2>1. hash[1][1] = "idCredPub" /\ Len(hash) >= 3 /\ Len(hash) \in Nat
    BY <1>9, <1>11 DEF IpShape, Extends
  <2>2. hash'[1][1] = "idCredPub" /\ Len(hash') >= 1
    BY <1>11, <2>1 DEF Extends
  <2> QED
    BY <2>2 DEF IdentityRows, IsIpTranscript
<1>15. IpRows(hash') \subseteq Shown'
  <2>1. IpRows(hash') \subseteq IpRows(hash) \cup {x}
    BY <1>7, IpRowsGrow
  <2>2. IpDue(ctx) = (IF ctx.showIntro THEN IdRows(ctx) ELSE {}) \cup KeyRows(ctx)
    BY <1>2 DEF IpDue
  <2> QED
    BY <1>5, <1>6, <1>8, <1>9, <1>12, <2>1, <2>2
<1> QED
  BY <1>2, <1>8, <1>10, <1>13, <1>14, <1>15, SignHolds DEF IsWhole

-----------------------------------------------------------------------------
(* Buttons (NBGL). *)

LEMMA SameRows ==
    ASSUME NEW s, NEW c, NEW d, NEW st, NEW st2, NEW a, RowsKept(s, c, st, a),
           st \notin {"AR_IDENTITY", "ATTRIBUTE_VALUE"}, st2 # "AR_IDENTITY",
           RowsDue(c, st) \subseteq a \cup RowsDue(d, st2)
    PROVE  RowsKept(s, d, st2, a)
  BY DEF RowsKept

\* After a button the screen rests, and what was on it has been accepted.
LEMMA GoesOnRests ==
    ASSUME NEW d, GoesOnWith(d)
    PROVE  /\ screen'.cb \notin {"sign", "attribute", "added"} /\ Shown' = Shown
           /\ hash' = hash /\ path' = path /\ latch' = latch /\ ctx' = d
  BY RestingScreens DEF GoesOnWith, Settles, Shown

LEMMA ButtonGoesOn ==
    ASSUME Typed, FlowInv, NEW d \in Credentials, GoesOnWith(d), latch \in CredentialInss, ctx \in Credentials,
           screen.cb # "sign", latch = UPDATECRED => ctx.update = "CREDENTIAL",
           NEW changed, Kept(ctx, d, changed), "update" \notin changed, "credentialsLeft" \notin changed,
           NEW st, st = Stage, NEW st2, st2 = d.state, \A emb \in BOOLEAN : GoesOn(hash, ctx, st, hash, d, st2, emb),
           st \notin {"AR_IDENTITY", "ATTRIBUTE_VALUE"}, st2 # "AR_IDENTITY",
           RowsDue(ctx, st) \subseteq RowsDue(d, st2)
    PROVE  FlowInv'
<1> DEFINE ins == latch
           a == Shown
<1>1. /\ ins \in CredentialInss /\ latch = ins /\ latch' = ins /\ ctx' = d /\ screen'.cb # "sign" /\ path' = path
      /\ a = Shown /\ a = Shown' /\ a \subseteq a /\ hash' = hash /\ screen'.cb \notin {"attribute", "added"}
  BY GoesOnRests
<1>2. d.update = ctx.update /\ d.credentialsLeft = ctx.credentialsLeft
  BY DEF Kept, CredentialFields
<1>3. st2 = Stage'
  BY <1>1, <1>2 DEF Stage
<1>4. Extends(hash, hash') /\ NoneBegins(hash, hash')
  <2>1. Extends(hash, hash') /\ Len(hash) \in Nat
    BY <1>1, SameExtends DEF Typed
  <2>2. Len(hash) + 1 .. Len(hash') = {}
    BY <1>1, <2>1
  <2> QED
    BY <2>1, <2>2 DEF NoneBegins
<1>5. GoesOn(hash, ctx, st, hash', ctx', st2, FALSE) /\ GoesOn(hash, ctx, st, hash', ctx', st2, TRUE)
  BY <1>1
<1> HIDE DEF ins, a
<1>6. RowsKept(hash, ctx, st, a) => RowsKept(hash', ctx', st2, a)
  BY <1>1, SameRows
<1>7. ins = UPDATECRED => ctx.update = "CREDENTIAL" /\ ctx'.update = "CREDENTIAL"
                          /\ ctx'.credentialsLeft = ctx.credentialsLeft
  BY <1>1, <1>2
<1> QED
  BY <1>1, <1>3, <1>4, <1>5, <1>6, <1>7, StepGoesOn

LEMMA NextKeyFlow ==
    ASSUME Typed, Screens, FlowInv, processNextVerificationKey PROVE FlowInv'
<1> DEFINE d == KeyAccepted(ctx)
           changed == {"state"}
           st2 == IF ctx.keysLeft = 0 THEN "SIGNATURE_THRESHOLD" ELSE "VERIFICATION_KEY"
<1>1. screen.cb = "nextKey" /\ InCredential(AfterKey) /\ GoesOnWith(d)
  BY NextKeyParts
<1>2. /\ latch \in CredentialInss /\ ctx \in Credentials /\ ctx.state = AfterKey /\ screen.cb # "sign"
      /\ latch = UPDATECRED => ctx.update = "CREDENTIAL"
  BY <1>1 DEF InCredential
<1>3. d \in Credentials /\ Kept(ctx, d, changed) /\ d.state = st2
  BY <1>2, KeyAcceptedKnown
<1>4. Stage = AfterKey
  BY <1>1, <1>2 DEF Stage
<1>5. "update" \notin changed /\ "credentialsLeft" \notin changed /\ st2 # "AR_IDENTITY"
      /\ AfterKey \notin {"AR_IDENTITY", "ATTRIBUTE_VALUE"}
  BY DEF AfterKey
<1>6. d.keysLeft = ctx.keysLeft
  BY <1>3 DEF Kept, CredentialFields
<1>7. st2 = IF ctx.keysLeft = 0 THEN "SIGNATURE_THRESHOLD" ELSE "VERIFICATION_KEY"
  OBVIOUS
<1> HIDE DEF d, changed, st2
<1>8. ASSUME NEW emb PROVE GoesOn(hash, ctx, AfterKey, hash, d, st2, emb)
  <2> SUFFICES ASSUME NEW i \in Nat \ {0}, KeysComing(hash, i, ctx.keysLeft), ctx.keysLeft > 0
               PROVE  CredentialSoFar(hash, i, d, st2, emb)
    BY SoFarIs DEF GoesOn
  <2>1. st2 = "VERIFICATION_KEY"
    <3>1. ctx.keysLeft # 0
      BY <1>2, CountsKnown
    <3> QED
      BY <1>7, <3>1
  <2> QED
    BY <1>6, <2>1, SoFarIs
<1>9. RowsDue(ctx, AfterKey) \subseteq RowsDue(d, st2)
  BY DueIs
<1> QED
  BY <1>1, <1>2, <1>3, <1>4, <1>5, <1>8, <1>9, ButtonGoesOn

LEMMA AttributeFlow ==
    ASSUME Typed, Screens, FlowInv, confirmAttribute PROVE FlowInv'
<1> DEFINE d == AttributeAccepted(ctx)
           changed == {"state", "attributesLeft"}
           left == ctx.attributesLeft
           st2 == IF left = 1 THEN "LENGTH_OF_PROOFS" ELSE "ATTRIBUTE_TAG"
<1>1. screen.cb = "attribute" /\ InCredential("ATTRIBUTE_VALUE") /\ left # 0 /\ GoesOnWith(d)
  BY AttributeParts
<1>2. /\ latch \in CredentialInss /\ ctx \in Credentials /\ screen.cb # "sign" /\ left \in Nat \ {0}
      /\ latch = UPDATECRED => ctx.update = "CREDENTIAL"
  BY <1>1, CountsKnown DEF InCredential
<1>3. d \in Credentials /\ Kept(ctx, d, changed) /\ d.state = st2 /\ d.attributesLeft = left - 1
  BY <1>1, <1>2, AttributeAcceptedKnown
<1>4. Stage = "shown"
  BY <1>1, <1>2 DEF Stage
<1>5. "update" \notin changed /\ "credentialsLeft" \notin changed /\ st2 # "AR_IDENTITY"
  OBVIOUS
<1>6. changed \cap {"key", "details", "provider", "arLength", "ars"} = {}
  OBVIOUS
<1>7. (st2 = IF left = 1 THEN "LENGTH_OF_PROOFS" ELSE "ATTRIBUTE_TAG") /\ ctx.attributesLeft = left
  OBVIOUS
<1> HIDE DEF d, changed, st2, left
<1>8. ASSUME NEW emb PROVE GoesOn(hash, ctx, "shown", hash, d, st2, emb)
  <2> SUFFICES ASSUME NEW i \in Nat \ {0}, AttributesComing(hash, i, left, 2)
               PROVE  CredentialSoFar(hash, i, d, st2, emb)
    BY <1>7, SoFarIs DEF GoesOn
  <2>1. AttributesComing(hash, i, left - 1, 0)
    BY <1>2, AttributeTaken DEF Typed
  <2>2. CASE left = 1
    <3>1. left - 1 = 0 /\ st2 = "LENGTH_OF_PROOFS"
      BY <1>7, <2>2
    <3> QED
      BY <2>1, <3>1, SoFarIs
  <2>3. CASE left # 1
    <3>1. st2 = "ATTRIBUTE_TAG"
      BY <1>7, <2>3
    <3> QED
      BY <1>3, <2>1, <3>1, SoFarIs
  <2> QED
    BY <2>2, <2>3
<1>9. RowsDue(ctx, "shown") \subseteq RowsDue(d, st2)
  <2>1. DetailRows(d) = DetailRows(ctx)
    BY <1>3, <1>6, SameDetails
  <2> QED
    BY <1>7, <2>1, DueIs
<1> QED
  BY <1>1, <1>2, <1>3, <1>4, <1>5, <1>8, <1>9, ButtonGoesOn

LEMMA AddedFlow ==
    ASSUME Typed, Screens, FlowInv, confirmAddedCredential PROVE FlowInv'
<1> DEFINE d == AddedAccepted(ctx)
           left == ctx.credentialsLeft
<1>1. /\ screen.cb = "added" /\ latch = UPDATECRED /\ InCredential("PROOFS") /\ left # 0
      /\ DetailRows(ctx) \subseteq screen.items /\ GoesOnWith(d)
  BY AddedParts
<1>2. ctx \in Credentials /\ ctx.update = "CREDENTIAL" /\ screen.cb # "sign" /\ left \in Nat \ {0} /\ ctx # Wiped
  BY <1>1, CountsKnown, ZeroKnown DEF InCredential
<1>3. d.credentialsLeft = left - 1 /\ d.update = IF left = 1 THEN "ID_COUNT" ELSE "CREDENTIAL_INDEX"
  BY <1>1, <1>2, AddedAcceptedKnown DEF AfterAdded
<1>4. Stage = "NEW_OR_EXISTING"
  BY <1>1, <1>2 DEF Stage
<1>5. /\ screen'.cb # "sign" /\ Shown' = Shown /\ hash' = hash /\ path' = path /\ latch' = latch /\ ctx' = d
      /\ screen'.cb \notin {"attribute", "added"} /\ ctx.credentialsLeft = left
  BY <1>1, GoesOnRests
<1> HIDE DEF d, left
<1>6. /\ UpdateSoFar(hash, ctx, "NEW_OR_EXISTING") /\ RowsKept(hash, ctx, "NEW_OR_EXISTING", Shown)
      /\ NetworkShown(hash, path, Shown)
  BY <1>1, <1>2, <1>4, InssKnown DEF FlowInv, FlowOpen
<1>7. UpdateHead(hash, left - 1) /\ Added(hash, Len(hash) + 1)
  BY <1>2, <1>5, <1>6, CredentialTaken DEF UpdateSoFar, Typed
<1>8. Stage' = "between"
  BY <1>1, <1>3, <1>5 DEF Stage
<1>9. UpdateSoFar(hash', ctx', "between")
  <2>1. CASE left = 1
    BY <1>3, <1>5, <1>7, <2>1 DEF UpdateSoFar
  <2>2. CASE left # 1
    BY <1>3, <1>5, <1>7, <2>2 DEF UpdateSoFar
  <2> QED
    BY <2>1, <2>2
<1>10. RowsKept(hash', ctx', "between", Shown')
  <2> DEFINE a == Shown
  <2>1. DetailRows(ctx) \subseteq a
    BY <1>1 DEF Shown
  <2>2. RowsDue(ctx, "NEW_OR_EXISTING") \subseteq a \cup RowsDue(d, "between")
    BY <2>1, DueIs
  <2>3. RowsKept(hash, ctx, "NEW_OR_EXISTING", a)
    BY <1>6
  <2> HIDE DEF a
  <2>4. RowsKept(hash, d, "between", a)
    BY <2>2, <2>3, SameRows
  <2> QED
    BY <1>5, <2>4 DEF a
<1> QED
  BY <1>1, <1>5, <1>6, <1>8, <1>9, <1>10, FlowHolds, InssKnown

\* Accepting a review that only acknowledges its packet.
LEMMA ProceedFlow ==
    ASSUME Typed, Screens, FlowInv, sendSuccessNoIdleCallback PROVE FlowInv'
<1>1. screen.cb = "proceed" /\ GoesOnWith(ctx)
  BY ProceedParts
<1>2. /\ screen'.cb \notin {"sign", "attribute", "added"} /\ Shown' = Shown /\ hash' = hash /\ path' = path
      /\ latch' = latch /\ ctx' = ctx
  BY <1>1, GoesOnRests
<1>3. Stage' = Stage
  BY <1>1, <1>2 DEF Stage
<1>4. screen.cb # "sign"
  BY <1>1
<1> QED
  BY <1>2, <1>3, <1>4 DEF FlowInv, FlowOpen

\* No flow is open, and the screen rests.
LEMMA ClosedFlow ==
    ASSUME screen'.cb # "sign", latch' \notin IdentityInss \/ ctx' = Wiped PROVE FlowInv'
  BY InssKnown DEF FlowInv, FlowOpen

LEMMA RefusesFlow == ASSUME Screens, Refuses PROVE FlowInv'
<1>1. screen' = screen /\ latch' = NONE /\ screen \in {Home, Stale}
  BY RestsUnlessOwed DEF Refuses, Throw
<1> QED
  BY <1>1, ClosedFlow, RestingScreens, InssKnown

LEMMA IdentityPacketFlow ==
    ASSUME Gated, Typed, Screens, FlowInv, IpPacket \/ CredentialPacket PROVE FlowInv'
<1> SUFFICES ASSUME ~Refuses PROVE FlowInv'
  BY RefusesFlow
<1>1. CASE IpPacket
  <2>1. ~IpWrongState
    <3>1. ASSUME IpWrongState PROVE Refuses
      <4>1. reply # Owed /\ Throw /\ UNCHANGED hash /\ UNCHANGED txConst
        BY <3>1, FreeToEnter DEF IpWrongState, noFlow, txConst
      <4> QED
        BY <4>1, ThrowRefuses
    <3> QED
      BY <3>1
  <2> QED
    BY <1>1, <2>1, IpInitialFlow, IpKeyFlow, IpThresholdFlow DEF IpPacket
<1>2. CASE CredentialPacket
  <2>1. ~CredentialWrongState
    <3>1. ASSUME CredentialWrongState PROVE Refuses
      <4>1. reply # Owed /\ Throw /\ UNCHANGED hash /\ UNCHANGED txConst
        BY <3>1, FreeToEnter DEF CredentialWrongState, noFlow, txConst
      <4> QED
        BY <4>1, ThrowRefuses
    <3> QED
      BY <3>1
  <2>2. ASSUME NEW ins \in CredentialInss,
               \/ CredentialKeysLength(ins) \/ CredentialKey(ins) \/ CredentialDetails(ins)
               \/ CredentialRevoker(ins) \/ CredentialDates(ins)
               \/ CredentialTag(ins) \/ CredentialValue(ins)
               \/ CredentialProofLength(ins) \/ CredentialProofs(ins)
        PROVE  FlowInv'
    BY <2>2, KeysLengthFlow, KeyFlow, DetailsFlow, RevokerFlow, DatesFlow, TagFlow, ValueFlow,
       ProofLengthFlow, ProofsFlow
  <2> QED
    BY <1>2, <2>1, <2>2, InitialFlow, NewOrExistingFlow, UpdateInitialFlow, IndexFlow, IdCountFlow,
       IdFlow, ThresholdFlow DEF CredentialPacket
<1> QED
  BY <1>1, <1>2

LEMMA ButtonFlow ==
    ASSUME ~Bagl, Typed, Screens, FlowInv, CredentialButton PROVE FlowInv'
<1>1. CASE buildAndSignTransactionHash \/ SigningFails \/ DeclineCredential
  <2>1. latch' = NONE /\ screen' \in {Home, Stale}
    BY <1>1, EndParts DEF Settles
  <2> QED
    BY <2>1, ClosedFlow, RestingScreens, InssKnown
<1>2. ~AcknowledgingStep
  BY AcknowledgingParts
<1> QED
  BY <1>1, <1>2, NextKeyFlow, AttributeFlow, AddedFlow, ProceedFlow DEF CredentialButton

LEMMA ShellFlow ==
    ASSUME Gated, Typed, Screens, FlowInv, Shell(IdentityInss) PROVE FlowInv'
<1>1. /\ reply # Owed /\ UNCHANGED noFlow /\ screen \in {Home, Stale} /\ screen' \in {screen, Home}
      /\ \/ latch' = latch /\ ctx' = ctx
         \/ latch' = NONE
         \/ ctx' = Wiped
  BY ShellKnown
<1>2. screen' \in {Home, Stale} /\ screen'.cb \notin {"sign", "attribute", "added"} /\ screen'.items = {}
  BY <1>1, RestingScreens
<1>3. CASE latch' = latch /\ ctx' = ctx
  <2>1. hash' = hash /\ path' = path /\ Shown' = Shown
    BY <1>1, <1>2, AtRest DEF noFlow, Shown
  <2>2. Stage' = Stage
    BY <1>1, <1>2, <1>3, RestingScreens DEF Stage
  <2>3. screen.cb # "sign"
    BY <1>1, RestingScreens
  <2> QED
    BY <1>2, <1>3, <2>1, <2>2, <2>3 DEF FlowInv, FlowOpen
<1> QED
  BY <1>1, <1>2, <1>3, ClosedFlow, InssKnown

LEMMA IdentityStepFlow ==
    ASSUME Gated, ~Bagl, Typed, Screens, FlowInv, [IdentityNext]_deviceVars PROVE FlowInv'
<1>1. CASE UNCHANGED deviceVars
  <2>1. /\ hash' = hash /\ path' = path /\ Shown' = Shown /\ latch' = latch /\ ctx' = ctx /\ screen' = screen
        /\ Stage' = Stage
    BY <1>1 DEF deviceVars, Shown, Stage
  <2> QED
    BY <2>1 DEF FlowInv, FlowOpen
<1>2. CASE Restart
  BY <1>2, ClosedFlow, RestingScreens DEF Restart
<1> QED
  BY <1>1, <1>2, IdentityPacketFlow, ButtonFlow, ShellFlow DEF IdentityNext

-----------------------------------------------------------------------------
(* What is signed (NBGL). *)

SignedInv ==
    HasSignature => /\ IsWhole(SignedItems) /\ IdentityRows(SignedItems) \subseteq approved
                    /\ NetworkShown(SignedItems, SigningPath, approved)

\* No other answer looks as if one were still owed.
AnswersInv == reply # Owed => reply.sw # "owed"

IdentityInv == Typed /\ Screens /\ FlowInv /\ SignedInv /\ AnswersInv

LEMMA PlainReply ==
    ASSUME reply' \in PlainAnswers \cup {Owed} PROVE SignedInv' /\ AnswersInv'
<1>1. CASE reply' \in PlainAnswers
  BY <1>1, PlainAnswer DEF SignedInv, HasSignature, AnswersInv
<1>2. CASE reply' = Owed
  BY <1>2, OwedAnswer DEF SignedInv, HasSignature, AnswersInv
<1> QED
  BY <1>1, <1>2

LEMMA ButtonAnswers ==
    ASSUME ~Bagl, Typed, Screens, CredentialButton
    PROVE  /\ Settles
           /\ \/ /\ screen.cb = "sign" /\ reply' = Success(<<"signature", hash, path>>)
                 /\ approved' = approved \cup screen.items
              \/ reply' \in {Refused, Declined, Success(<< >>)}
<1>1. ~AcknowledgingStep
  BY AcknowledgingParts
<1> QED
  BY <1>1, NextKeyParts, AttributeParts, AddedParts, ProceedParts, EndParts DEF CredentialButton, GoesOnWith

LEMMA SignedStep ==
    ASSUME Gated, ~Bagl, IdentityInv, [IdentityNext]_deviceVars PROVE SignedInv' /\ AnswersInv'
<1> USE DEF IdentityInv
<1>1. CASE UNCHANGED deviceVars
  BY <1>1 DEF deviceVars, SignedInv, AnswersInv, HasSignature, SignedItems, SigningPath
<1>2. CASE IpPacket \/ CredentialPacket
  <2>1. Sound
    BY <1>2, IdentityPacketSound
  <2> QED
    BY <2>1, PlainReply DEF Sound, PacketShape, PlainAnswers
<1>3. CASE CredentialButton
  <2>1. CASE reply' \in {Refused, Declined, Success(<< >>)}
    BY <2>1, PlainReply DEF PlainAnswers
  <2>2. CASE /\ screen.cb = "sign" /\ reply' = Success(<<"signature", hash, path>>)
             /\ approved' = approved \cup screen.items
    <3>1. latch \in IdentityInss /\ ctx # Wiped
      BY <2>2 DEF Screens, ReviewUp
    <3>2. /\ IsWhole(hash) /\ IdentityRows(hash) \subseteq approved' /\ NetworkShown(hash, path, approved')
      BY <2>2, <3>1 DEF FlowInv, Shown
    <3>3. SignedItems' = hash /\ SigningPath' = path
      BY <2>2, SignatureAnswer DEF SignedItems, SigningPath
    <3>4. AnswersInv'
      BY <2>2, SignatureAnswer DEF AnswersInv
    <3> QED
      BY <3>2, <3>3, <3>4 DEF SignedInv
  <2> QED
    BY <1>3, <2>1, <2>2, ButtonAnswers
<1>4. CASE Shell(IdentityInss)
  <2>1. reply' \in {reply, Refused, Success(<< >>)} /\ approved' = approved
    BY <1>4, ShellKnown DEF noFlow
  <2>2. CASE reply' = reply
    BY <2>1, <2>2 DEF SignedInv, AnswersInv, HasSignature, SignedItems, SigningPath
  <2> QED
    BY <2>1, <2>2, PlainReply DEF PlainAnswers
<1>5. CASE Restart
  BY <1>5, PlainReply DEF Restart, PlainAnswers
<1> QED
  BY <1>1, <1>2, <1>3, <1>4, <1>5 DEF IdentityNext

LEMMA IdentityInvInit == ASSUME DeviceInit PROVE IdentityInv
<1>1. Typed /\ Screens
  BY IdentityInitTyped
<1>2. FlowInv
  <2>1. screen.cb # "sign" /\ latch \notin IdentityInss
    BY RestingScreens, InssKnown DEF DeviceInit
  <2> QED
    BY <2>1, InssKnown DEF FlowInv, FlowOpen
<1>3. SignedInv /\ AnswersInv
  <2>1. reply \in PlainAnswers
    BY DEF DeviceInit, PlainAnswers
  <2> QED
    BY <2>1, PlainAnswer DEF SignedInv, HasSignature, AnswersInv
<1> QED
  BY <1>1, <1>2, <1>3 DEF IdentityInv

LEMMA IdentityInvHolds ==
    ASSUME Gated, ~Bagl PROVE IdentitySpec => []IdentityInv
<1>1. DeviceInit => IdentityInv
  BY IdentityInvInit
<1>2. IdentityInv /\ [IdentityNext]_deviceVars => IdentityInv'
  <2> SUFFICES ASSUME IdentityInv, [IdentityNext]_deviceVars PROVE IdentityInv'
    OBVIOUS
  <2>1. Typed' /\ Screens'
    BY IdentityStepTyped DEF IdentityInv
  <2>2. FlowInv'
    BY IdentityStepFlow DEF IdentityInv
  <2>3. SignedInv' /\ AnswersInv'
    BY SignedStep
  <2> QED
    BY <2>1, <2>2, <2>3 DEF IdentityInv
<1> QED
  BY <1>1, <1>2, PTL DEF IdentitySpec

\* What you see is what you sign (NBGL): identifiers, every key, every revealed
\* attribute, the thresholds, the whole list of revokers and, of an update,
\* header and network, removed ids and each added credential, were on screens
\* that the user accepted, although later packets overwrite the texts of earlier.
THEOREM SignedIdentityWasReviewed ==
    ASSUME Gated, ~Bagl PROVE IdentitySpec => []IdentitySignedWasReviewed
<1>1. IdentityInv => IdentitySignedWasReviewed
  BY DEF IdentityInv, SignedInv, NetworkShown, IdentitySignedWasReviewed
<1> QED
  BY <1>1, IdentityInvHolds, PTL

\* A signature is only ever made over the packets the protocol lists (NBGL): no
\* stage skipped, none replayed, every list as long as announced.
THEOREM SignedIdentityIsComplete ==
    ASSUME Gated, ~Bagl PROVE IdentitySpec => []IdentitySignedIsComplete
<1>1. IdentityInv => IdentitySignedIsComplete
  BY DEF IdentityInv, SignedInv, IsWhole, IdentitySignedIsComplete
<1> QED
  BY <1>1, IdentityInvHolds, PTL

-----------------------------------------------------------------------------
(* The flows implement the contract of a signing instruction (NBGL). *)

LEMMA ExtendedIs ==
    ASSUME NEW s, NEW t, Extends(s, t) PROVE Len(s) <= Len(t) /\ SubSeq(t, 1, Len(s)) = s
  BY DEF Extends

\* A packet, or a command that no flow takes, adds to the transcript at most.
LEMMA CollectsAtMost ==
    ASSUME reply.sw # "owed", Extends(hash, hash'), approved' = approved,
           reply' \in PlainAnswers \cup {Owed}
    PROVE  IdentityContract!ContractNext
<1>1. ~(reply'.sw = "success" /\ reply'.body # << >>)
  BY PlainAnswer DEF Owed
<1>2. Len(hash) <= Len(hash') /\ SubSeq(hash', 1, Len(hash)) = hash
  BY ExtendedIs
<1>3. IdentityContract!Collect
  BY <1>1, <1>2 DEF IdentityContract!Collect, IdentityContract!Extended,
     IdentityContract!IsOwed, IdentityContract!IsSignature
<1> QED
  BY <1>3 DEF IdentityContract!ContractNext

LEMMA IdentityHonoursContract ==
    ASSUME Gated, ~Bagl, IdentityInv, [IdentityNext]_deviceVars
    PROVE  [IdentityContract!ContractNext]_(IdentityContract!contractVars)
<1> USE DEF IdentityContract!contractVars
<1>0. Typed /\ Screens /\ FlowInv /\ AnswersInv /\ hash \in Seq(IdentityItem)
  BY DEF IdentityInv, Typed
<1>1. CASE IpPacket \/ CredentialPacket
  <2>1. PacketShape
    BY <1>0, <1>1, IdentityPacketSound DEF Sound
  <2>2. reply.sw # "owed" /\ reply' \in PlainAnswers \cup {Owed}
    BY <1>0, <2>1 DEF AnswersInv, PacketShape, PlainAnswers
  <2>3. CASE approved' = {}
    <3>1. ~(reply'.sw = "success" /\ reply'.body # << >>)
      BY <2>2, PlainAnswer DEF Owed
    <3> QED
      BY <2>2, <2>3, <3>1 DEF IdentityContract!ContractNext, IdentityContract!Begin,
         IdentityContract!IsOwed, IdentityContract!IsSignature
  <2>4. CASE approved' = approved /\ Extends(hash, hash')
    BY <2>2, <2>4, CollectsAtMost
  <2> QED
    BY <2>1, <2>3, <2>4 DEF PacketShape
<1>2. CASE CredentialButton
  <2>1. reply.sw = "owed" /\ approved \subseteq approved' /\ hash' = hash
    BY <1>0, <1>2, ButtonAnswers, OwedAnswer DEF Settles
  <2>2. CASE reply' \in {Refused, Declined, Success(<< >>)}
    <3>1. reply'.sw # "owed" /\ ~(reply'.sw = "success" /\ reply'.body # << >>)
      BY <2>2, PlainAnswer DEF PlainAnswers
    <3>2. IdentityContract!Resolve
      BY <2>1, <3>1 DEF IdentityContract!Resolve, IdentityContract!IsOwed,
         IdentityContract!IsSignature
    <3> QED
      BY <3>2 DEF IdentityContract!ContractNext
  <2>3. CASE /\ screen.cb = "sign" /\ reply' = Success(<<"signature", hash, path>>)
             /\ approved' = approved \cup screen.items
    <3>1. IdentityRows(hash) \subseteq approved'
      BY <1>0, <2>3 DEF FlowInv, Shown
    <3>2. reply'.sw = "success" /\ reply'.body # << >> /\ reply'.body[2] = hash
      BY <2>3, SignatureAnswer
    <3>3. IdentityContract!Sign
      BY <2>1, <3>1, <3>2 DEF IdentityContract!Sign, IdentityContract!IsOwed,
         IdentityContract!IsSignature
    <3> QED
      BY <3>3 DEF IdentityContract!ContractNext
  <2> QED
    BY <1>0, <1>2, <2>2, <2>3, ButtonAnswers
<1>3. CASE Shell(IdentityInss)
  <2>1. /\ reply # Owed /\ hash' = hash /\ approved' = approved
        /\ reply' \in {reply, Refused, Success(<< >>)}
    BY <1>0, <1>3, ShellKnown DEF noFlow
  <2>2. CASE reply' = reply
    BY <2>1, <2>2
  <2>3. CASE reply' \in PlainAnswers
    <3>1. Extends(hash, hash')
      BY <1>0, <2>1, SameExtends
    <3> QED
      BY <1>0, <2>1, <2>3, <3>1, CollectsAtMost DEF AnswersInv
  <2> QED
    BY <2>1, <2>2, <2>3 DEF PlainAnswers
<1>4. CASE Restart
  <2>1. reply' = Idle /\ approved' = {} /\ hash' = << >>
    BY <1>4 DEF Restart
  <2> QED
    BY <2>1 DEF IdentityContract!ContractNext, IdentityContract!Begin, IdentityContract!IsOwed,
       IdentityContract!IsSignature, Idle
<1>5. CASE UNCHANGED deviceVars
  BY <1>5 DEF deviceVars
<1> QED
  BY <1>1, <1>2, <1>3, <1>4, <1>5 DEF IdentityNext

\* The identity flows implement the contract of a signing instruction (NBGL):
\* every step of any of them begins a transcript, adds to it, settles a review or
\* signs the whole of it, and while an answer is owed nothing else moves it.
THEOREM IdentityFlowsHonourContract ==
    ASSUME Gated, ~Bagl PROVE IdentitySpec => IdentityFlowsImplementContract
<1>1. DeviceInit => IdentityContract!ContractInit
  BY DEF DeviceInit, IdentityContract!ContractInit, IdentityContract!IsOwed,
     IdentityContract!IsSignature, Idle
<1>2. IdentityInv /\ [IdentityNext]_deviceVars
        => [IdentityContract!ContractNext]_(IdentityContract!contractVars)
  BY IdentityHonoursContract
<1> QED
  BY <1>1, <1>2, IdentityInvHolds, PTL
     DEF IdentitySpec, IdentityFlowsImplementContract, IdentityContract!ContractSpec

=============================================================================
