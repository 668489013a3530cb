---------------------------- MODULE MCHpRecovery ----------------------------
(* HpRecovery with the values of its run. *)
EXTENDS HpRecovery
=============================================================================
