---------------------------- MODULE MCHpManager ----------------------------
(* HpProperties with the values the runs share. *)
EXTENDS HpProperties
=============================================================================
