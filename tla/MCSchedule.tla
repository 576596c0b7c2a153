----------------------------- MODULE MCSchedule ------------------------------
(* An instance of ScheduledTransfer for TLC. *)
EXTENDS ScheduledTransfer

CONSTANTS h1, v1, v2

OnePath == {<<"mainnet", "a">>}
=============================================================================
