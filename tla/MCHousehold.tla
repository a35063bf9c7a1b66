---------------------------- MODULE MCHousehold -----------------------------
(***************************************************************************)
(* The small instances of Household that TLC explores.  A run is a choice  *)
(* of ceremonies and requests; the bounds are in the configurations.       *)
(***************************************************************************)
EXTENDS Household, TLC

CONSTANTS d1, d2, d3, d4, r1, r2

\* One founder, two recoveries racing, one invited member.
KindPairing == d1 :> "first" @@ d2 :> "recover" @@ d3 :> "recover" @@ d4 :> "join"

\* Two foundings, so that a household can be set up again, and one guest.
KindResetting == d1 :> "first" @@ d2 :> "first" @@ d3 :> "join"

\* One founding and one guest.
KindJoining == d1 :> "first" @@ d2 :> "join"

\* Two foundings, one after the other.
KindFounding == d1 :> "first" @@ d2 :> "first"

\* Revokes are alike.
AlikeRevokes == Permutations(Revokes)
=============================================================================
