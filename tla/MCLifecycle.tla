----------------------------- MODULE MCLifecycle -----------------------------
(***************************************************************************)
(* Values for the constants of Lifecycle that a configuration file cannot  *)
(* write.                                                                  *)
(***************************************************************************)
EXTENDS Lifecycle, TLC

CONSTANTS b1, b2

OneId == b1 :> "A"
TwoIds == (b1 :> "A") @@ (b2 :> "B")
NoBodies == {}

=============================================================================
