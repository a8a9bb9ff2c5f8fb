--------------------------- MODULE MCReverseProxy ---------------------------
(***************************************************************************)
(* Values for the constants of ReverseProxy that a configuration file      *)
(* cannot write: the ids of the Backend objects and the bodies of PATCH.   *)
(***************************************************************************)
EXTENDS ReverseProxy, TLC

CONSTANTS b1, b2

OneId == b1 :> "A"
TwoIds == (b1 :> "A") @@ (b2 :> "B")
\* b2 is what the admin API makes when it adds the id of b1 again.
SameId == (b1 :> "A") @@ (b2 :> "A")

AllBodies == [enabled : {"true", "false", "absent"},
              status  : {"DRAINING", "HEALTHY", "absent"}]
DrainBodies == {body \in AllBodies :
                  body.enabled = "absent" /\ body.status # "absent"}
NoBodies == {}

=============================================================================
