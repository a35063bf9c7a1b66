----------------------------- MODULE AlertEngine -----------------------------
(***************************************************************************)
(* The alert engine, as the functions it consists of: which rules a        *)
(* controller has by default, and how one poll advances the memory a rule  *)
(* keeps and what it makes the rule say.  A rule without memory and one    *)
(* whose memory is Fresh behave alike, so memory is total here.            *)
(***************************************************************************)
EXTENDS Naturals

CONSTANTS
    Types,            \* the banded measurement types
    Measures,         \* chemistryTypesFor: the types each preset measures
    AppRules,         \* the rules apps write: [id, kind, type, source, enabled, notify, recovery]
    DebouncePolls     \* polls in a row that commit a change

ASSUME PresetAssumption == DOMAIN Measures # {} /\ \A p \in DOMAIN Measures : Measures[p] \subseteq Types
ASSUME DebounceAssumption == DebouncePolls \in Nat \ {0}
ASSUME NotifyAssumption == \A r \in AppRules : r.notify \subseteq {"warn", "bad"} /\ r.recovery \in BOOLEAN

Presets == DOMAIN Measures

-----------------------------------------------------------------------------
(* Rule sets.                                                              *)

DefaultBandRule(t) == [id |-> <<"default", t>>, kind |-> "band", type |-> t, source |-> "default",
    enabled |-> TRUE, notify |-> {"bad"}, recovery |-> TRUE]
DefaultStaleRule   == [id |-> <<"default", "stale">>, kind |-> "stale", type |-> "any", source |-> "default",
    enabled |-> TRUE, notify |-> {}, recovery |-> TRUE]
Rules == {DefaultBandRule(t) : t \in Types} \cup {DefaultStaleRule} \cup AppRules
Ids   == {r.id : r \in Rules}

Covers(rules, t) == \E r \in rules : r.kind = "band" /\ r.type = t
Inapplicable(r, preset) == r.kind = "band" /\ r.source = "default" /\ r.type \notin Measures[preset]

\* ReconcileSeed: the default bands of types the preset does not measure go;
\* a measured type that no rule covers and a missing watchdog come back.
ReconcileSeed(rules, preset) ==
    LET kept == {r \in rules : ~Inapplicable(r, preset)}
    IN kept
       \cup {DefaultBandRule(t) : t \in {u \in Measures[preset] : ~Covers(kept, u)}}
       \cup IF \E r \in kept : r.kind = "stale" THEN {} ELSE {DefaultStaleRule}

-----------------------------------------------------------------------------
(* One rule, one poll.                                                     *)

Severities == {"ok", "warn", "bad"}

\* RuleState.  Whether the cooldown since LastNotifiedAt is over is handed to
\* the steps as "due".
Fresh == [last |-> "ok", pending |-> "none", count |-> 0, notified |-> FALSE]
RuleState ==
    [last : Severities \cup {"stale"}, pending : Severities \cup {"none"},
     count : 0..(DebouncePolls - 1), notified : BOOLEAN]

\* DropOrphanState, and the pruning of setControllerRules and of the poller.
OnlyOf(rules, memory) ==
    [i \in Ids |-> IF \E r \in rules : r.id = i THEN memory[i] ELSE Fresh]

Silent   == [transition |-> "none"]
Says(transition, severity) == [transition |-> transition, severity |-> severity]
Outcome(rs, says) == [memory |-> rs, says |-> says]

\* Mut...: mutated forms of the operator that follows, for mutation checks.
MutNoRenotify(rs, due) == FALSE
RenotifyDue(rs, due) == rs.notified /\ due

Standing(rs, due) ==
    Outcome(rs, IF RenotifyDue(rs, due) THEN Says("renotify", rs.last) ELSE Silent)

Committed(r, observed) == [Fresh EXCEPT !.last = observed, !.notified = observed \in r.notify]

Unchanging(rs) == [rs EXCEPT !.pending = "none", !.count = 0]

\* Mut...: mutated forms of the operator that follows, for mutation checks.
MutRecoversAnyway(r, rs) == r.recovery
Recovers(r, rs) == rs.notified /\ r.recovery

\* stepBanded.
StepBanded(r, rs, observed, due) ==
    LET count == IF observed = rs.pending THEN rs.count + 1 ELSE 1
        after == Committed(r, observed)
    IN IF observed = rs.last THEN Standing(Unchanging(rs), due)
       ELSE IF count < DebouncePolls
         THEN Standing([rs EXCEPT !.pending = observed, !.count = count], due)
       ELSE IF after.notified THEN Outcome(after, Says("enter", observed))
       ELSE Outcome(after, IF Recovers(r, rs) THEN Says("recover", rs.last) ELSE Silent)

\* One rule of EvaluateStale.  A last success that is not known says nothing.
StepStale(r, rs, silence, due) ==
    IF silence = "never" THEN Outcome(rs, Silent)
    ELSE IF silence = "long"
      THEN IF rs.notified THEN Standing(rs, due)
           ELSE Outcome([rs EXCEPT !.last = "stale", !.notified = TRUE], Says("enter", "stale"))
    ELSE IF rs.notified
      THEN Outcome([rs EXCEPT !.last = "ok", !.notified = FALSE],
                   IF r.recovery THEN Says("recover", "stale") ELSE Silent)
    ELSE Outcome(rs, Silent)

\* What a poll makes of a rule: Evaluate after a poll that worked (a type the
\* controller does not band is forgotten without a word, one without a band
\* or a reading is left alone), EvaluateStale after every poll.
Step(r, rs, observed, silence, due) ==
    IF ~r.enabled THEN Outcome(rs, Silent)
    ELSE IF r.kind = "stale" THEN StepStale(r, rs, silence, due)
    ELSE IF observed = "unbanded" THEN Outcome(Fresh, Silent)
    ELSE IF observed \in Severities THEN StepBanded(r, rs, observed, due)
    ELSE Outcome(rs, Silent)
==============================================================================
