------------------------------ MODULE MCAlerts -------------------------------
(***************************************************************************)
(* Small instances of Alerts: one banded type, which one preset measures   *)
(* and the other does not.                                                 *)
(***************************************************************************)
EXTENDS Alerts, TLC

CONSTANTS g1, g2

MCMeasures == "violet" :> {"chlorine"} @@ "procon" :> {}

\* Where chlorine is measured, apps switch the watchdog off and keep or remove
\* the band rule, which a restart brings back; elsewhere there is only the
\* watchdog to keep or to switch off.
Off(r) == [r EXCEPT !.enabled = FALSE]
BandRule == DefaultBandRule("chlorine")
MCAppRules == {Off(BandRule), Off(DefaultStaleRule)}
MCRuleSets ==
    "violet" :> {{BandRule, Off(DefaultStaleRule)}, {Off(DefaultStaleRule)}}
    @@ "procon" :> {{DefaultStaleRule}, {Off(DefaultStaleRule)}}

\* What the theorems on NoResidue, SaidOnce and NoFalseAlarm suppose holds of these
\* rules.
ASSUME KindsAssumption == \A r, s \in Rules : r.id = s.id => r.kind = s.kind /\ r.type = s.type

\* A channel with limits 1..5 and setpoint 3, a parked one and an unbanded one.
Channel(lo, hi, unbanded) ==
    [unbanded |-> unbanded, min |-> lo, max |-> hi, target |-> 3,
     hasOk |-> FALSE, okLow |-> 0, okHigh |-> 0]
MCControls == {Channel(1, 5, FALSE), Channel(0, 0, FALSE), Channel(1, 5, TRUE)}
==============================================================================
