----------------------------- MODULE MCPayment -----------------------------
(* Instances of Payment for TLC. *)
EXTENDS Payment, TLC
=============================================================================
