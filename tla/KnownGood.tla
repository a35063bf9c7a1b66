------------------------------ MODULE KnownGood ------------------------------
(***************************************************************************)
(* What self-update promises the owner of a relay: there is always a       *)
(* version that is known to work and that the relay runs or can go back    *)
(* to, and it only ever moves forward.  The promise ends when an I/O error *)
(* or a power cut takes away what it rests on.                             *)
(***************************************************************************)
EXTENDS Naturals

CONSTANT Versions

VARIABLES
    good,   \* the version known to work
    sound   \* whether the disk has kept what the promise rests on

Init == good = 1 /\ sound = TRUE

Upgrade(v) == sound /\ v > good /\ good' = v /\ sound' = sound

Ends == sound' = FALSE

Next == (\E v \in Versions : Upgrade(v)) \/ Ends

Spec == Init /\ [][Next]_<<good, sound>>
=============================================================================
