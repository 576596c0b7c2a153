--------------------------- MODULE SigningContract ---------------------------
(***************************************************************************)
(* What every signing instruction owes its user, whatever its stages: it   *)
(* collects a transcript, has parts of it reviewed, and signs exactly what *)
(* it collected once every visible item of it has been accepted.  While an *)
(* answer is owed, that is while the user faces a review, only the user's  *)
(* acceptance of that review moves the transcript.                         *)
(***************************************************************************)
EXTENDS Naturals, Sequences

CONSTANT Visible(_)    \* the items of a transcript the user has to see

VARIABLES
    collected,   \* the transcript hashed since the transaction was begun
    approved,    \* the items on screens accepted since then
    answer       \* the answer to the host, or that it is owed

contractVars == <<collected, approved, answer>>

IsOwed(a)     == a.sw = "owed"
IsSignature(a) == a.sw = "success" /\ a.body # << >>

ContractInit ==
    /\ collected = << >>
    /\ approved = {}
    /\ ~IsOwed(answer) /\ ~IsSignature(answer)

\* A transcript is begun afresh, or dropped: nothing of it is accepted yet.
Begin ==
    /\ approved' = {}
    /\ ~IsSignature(answer')
    /\ IsOwed(answer) => collected' = << >> /\ ~IsOwed(answer')

\* What was collected stays, and more may follow it.
Extended ==
    /\ Len(collected) <= Len(collected')
    /\ SubSeq(collected', 1, Len(collected)) = collected

\* A packet adds to the transcript, is refused, or puts a review on screen.
Collect ==
    /\ ~IsOwed(answer)
    /\ Extended
    /\ approved' = approved
    /\ ~IsSignature(answer')

\* The user answers a review and the transaction goes on, or fails.  Items a
\* packet brought earlier may be collected now, against something accepted.
Resolve ==
    /\ IsOwed(answer)
    /\ ~IsSignature(answer')
    /\ approved \subseteq approved'
    /\ \/ collected' = collected /\ ~IsOwed(answer')
       \/ Extended /\ approved' # approved

\* The user accepts the last review: the whole transcript is signed.
Sign ==
    /\ IsOwed(answer)
    /\ approved \subseteq approved'
    /\ collected' = collected
    /\ IsSignature(answer')
    /\ answer'.body[2] = collected
    /\ Visible(collected) \subseteq approved'

ContractNext == Begin \/ Collect \/ Resolve \/ Sign

ContractSpec == ContractInit /\ [][ContractNext]_contractVars
=============================================================================
