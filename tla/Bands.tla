-------------------------------- MODULE Bands --------------------------------
(***************************************************************************)
(* Grading a reading.  A band has four thresholds, bad / warn / ok / warn  *)
(* / bad; a rule brings its own or takes the one that follows from the     *)
(* controller's live configuration, and without either the reading is not  *)
(* graded at all.  Values are integers: the code's floats are only ever    *)
(* compared, added and subtracted here.                                    *)
(***************************************************************************)
EXTENDS Integers

NoBand == [kind |-> "none"]
Band(lo, okLo, okHi, hi) ==
    [kind |-> "band", min |-> lo, okMin |-> okLo, okMax |-> okHi, max |-> hi]

\* BandsConfig.Validate.
Ordered(b) == b.min <= b.okMin /\ b.okMin <= b.okMax /\ b.okMax <= b.max

\* A threshold belongs to the band above it; of two equal ones the later
\* counts.
SeverityAt(b, v) ==
    IF v < b.min THEN "bad"
    ELSE IF v < b.okMin THEN "warn"
    ELSE IF v < b.okMax THEN "ok"
    ELSE IF v < b.max THEN "warn"
    ELSE "bad"

AtLeast(m, n) == IF n < m THEN m ELSE n
AtMost(m, n)  == IF n > m THEN m ELSE n

\* The OK zone a controller's configuration asks for: its own corridor, or
\* the setpoint with the rule's tolerance around it.
OkLow(cc, tol)  == IF cc.hasOk THEN cc.okLow ELSE cc.target - tol
OkHigh(cc, tol) == IF cc.hasOk THEN cc.okHigh ELSE cc.target + tol

\* bandsFromControl: the limits of the controller, with the zone clamped into
\* them; nothing for a parked channel or a zone that lies outside.
FromControl(cc, tol) ==
    LET band == Band(cc.min, AtLeast(cc.min, OkLow(cc, tol)),
                     AtMost(cc.max, OkHigh(cc, tol)), cc.max)
    IN IF /\ ~cc.unbanded /\ cc.min < cc.max
          /\ cc.hasOk \/ tol > 0
          /\ Ordered(band)
       THEN band ELSE NoBand

\* effectiveBands: the rule's own band wins.
Effective(own, cc, tol) == IF own # NoBand THEN own ELSE FromControl(cc, tol)

\* What one poll tells a rule of a value: a severity, nothing (no band), or
\* that the controller does not band the type at all.
Observed(own, cc, tol, v) ==
    LET band == Effective(own, cc, tol)
    IN IF own = NoBand /\ cc.unbanded THEN "unbanded"
       ELSE IF band = NoBand THEN "nothing"
       ELSE SeverityAt(band, v)
==============================================================================
