---------------------------- MODULE RecoveryCode ----------------------------
(***************************************************************************)
(* What the owner-recovery code promises, with no relay in it: a code      *)
(* names a time window, and a window admits one phone at most.  A window   *)
(* that is not later than every window already redeemed is closed for      *)
(* good, whatever happens to the household afterwards.                     *)
(***************************************************************************)
EXTENDS Naturals

CONSTANTS Devices,   \* the phones that may be admitted
          Windows    \* the window indexes

VARIABLE redeemed    \* for each window, the phones it has admitted

\* Closed(w): no phone can be admitted with the code of window w any more.
Closed(w) == \E v \in Windows : v >= w /\ redeemed[v] # {}

Init == redeemed = [w \in Windows |-> {}]

Redeem(w, d) ==
    /\ ~Closed(w)
    /\ redeemed' = [redeemed EXCEPT ![w] = {d}]

Next == \E w \in Windows, d \in Devices : Redeem(w, d)

Spec == Init /\ [][Next]_redeemed
=============================================================================
