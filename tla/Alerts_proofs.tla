---------------------------- MODULE Alerts_proofs ----------------------------
(***************************************************************************)
(* Proofs about Alerts, for every set of rules, bands and controllers,     *)
(* every quota and limit: the poller, the requests and the crashes between *)
(* them leave every value of its kind, no memory without its rule, and no  *)
(* word in the queue of a household it is not about.  Where an id keeps    *)
(* the kind of rule it names, no alarm is entered twice; where, besides,   *)
(* the household has one controller, each that ends is called off.         *)
(***************************************************************************)
EXTENDS Alerts, FiniteSetTheorems, TLAPS

\* The memory of a rule: what has been notified is an alarm.
Memory == {rs \in RuleState : rs.notified => rs.last \in Alarms}

\* A controller as the document holds it: no memory outlives its rule.
Registered == [preset : Presets, rules : SUBSET Rules, memory : [Ids -> Memory], since : Silences]
Tidy == {c \in Registered : c.memory = OnlyOf(c.rules, c.memory)}

DocTyped == /\ stage \in {"paired", "cleared", "none"} /\ founded \in 1..MaxHouseholds /\ parked \in BOOLEAN
            /\ Here \subseteq Guids /\ ctrls \in [Here -> Tidy]
QueueTyped == outbox \in Seq(Word) /\ Len(outbox) <= OutboxLimit
TimeTyped == /\ water \in [Guids -> Conditions] /\ heard \in [Guids -> Silences]
             /\ cooled \in [Guids -> SUBSET Ids]
TickTyped == /\ pc \in {"idle", "poll", "persist", "send", "look", "post", "pop"}
             /\ DOMAIN tick \subseteq Guids /\ tick \in [DOMAIN tick -> Tidy]
             /\ job \in [guid : Guids \cup {NoGuid}, memory : [Ids -> Memory], since : Silences]
             /\ requests \subseteq Word /\ drained \in BOOLEAN
HeadTyped == /\ head \in Word \cup {NoWord}
             /\ pc = "post" => head \in Word
HistoryTyped == /\ owner \in [Guids -> 0..MaxHouseholds] /\ strays \subseteq Guids /\ failing \in BOOLEAN
                /\ said \in [Guids -> [Ids -> Alarms \cup {"none", "ended", "recover", "lost"}]]
                /\ told \in [Guids -> [Ids -> BOOLEAN]]
                /\ events \in 0..MaxEvents

Typed == DocTyped /\ QueueTyped /\ TimeTyped /\ TickTyped /\ HeadTyped /\ HistoryTyped

\* Whatever a tick works on belongs to the household, or is a stray.
Proper(g) == owner[g] = Token \/ g \in strays
OwnedHere == /\ stage # "paired" => Here = {}
             /\ \A g \in Here : owner[g] = founded
OwnedInFlight == \A g \in InFlight \cap Guids : Proper(g)

IInv == Typed /\ OwnedHere /\ OwnedInFlight /\ QueueOfOwn

-----------------------------------------------------------------------------
(* The engine and the controllers.                                         *)

LEMMA FreshIsMemory == Fresh \in Memory
BY DebounceAssumption DEF Fresh, Memory, RuleState, Severities

\* A rule notifies of warnings and of what is bad, and of nothing else.
LEMMA RulesNotify == \A r \in Rules : r.notify \subseteq {"warn", "bad"} /\ r.recovery \in BOOLEAN
<1>1. \A r \in AppRules : r.notify \subseteq {"warn", "bad"} /\ r.recovery \in BOOLEAN  BY NotifyAssumption
<1>2. \A t \in Types : DefaultBandRule(t).notify = {"bad"} /\ DefaultBandRule(t).recovery = TRUE  BY DEF DefaultBandRule
<1>3. DefaultStaleRule.notify = {} /\ DefaultStaleRule.recovery = TRUE  BY DEF DefaultStaleRule
<1> QED  BY <1>1, <1>2, <1>3, Zenon DEF Rules

\* One poll leaves a memory, and what it says names an alarm.
LEMMA OnePoll ==
  ASSUME NEW r \in Rules, NEW rs \in Memory, NEW observed, NEW silence, NEW due \in BOOLEAN
  PROVE  LET out == Step(r, rs, observed, silence, due)
         IN /\ out.memory \in Memory
            /\ out.says = Silent \/ /\ out.says.transition \in {"enter", "renotify", "recover"}
                                    /\ out.says.severity \in Alarms
<1> DEFINE Fine(out) == /\ out.memory \in Memory
                        /\ out.says = Silent \/ /\ out.says.transition \in {"enter", "renotify", "recover"}
                                                /\ out.says.severity \in Alarms
<1>1. /\ rs \in RuleState /\ (rs.notified => rs.last \in Alarms)
      /\ rs.last \in Severities \cup {"stale"} /\ rs.count \in 0..(DebouncePolls - 1) /\ rs.notified \in BOOLEAN
      /\ rs.pending \in Severities \cup {"none"} /\ DebouncePolls \in Nat \ {0}
  BY DebounceAssumption DEF Memory, RuleState
<1>2. \A mem \in Memory : Fine(Outcome(mem, Silent))  BY DEF Outcome
<1>3. \A mem \in Memory, t \in {"enter", "renotify", "recover"}, s \in Alarms : Fine(Outcome(mem, Says(t, s)))
  BY DEF Outcome, Says
<1>4. \A mem \in Memory : Fine(Standing(mem, due))
  BY <1>2, <1>3 DEF Standing, RenotifyDue, Memory
<1>5. ASSUME NEW o \in Severities PROVE Committed(r, o) \in Memory /\ (Committed(r, o).notified => o \in Alarms)
  <2> DEFINE b == o \in r.notify
  <2>1. b \in BOOLEAN /\ 0 \in 0..(DebouncePolls - 1) /\ (b => o \in Alarms)
    <3>1. b => o \in Alarms  BY RulesNotify DEF Alarms
    <3>2. 0 \in 0..(DebouncePolls - 1)  BY <1>1
    <3> QED  BY <3>1, <3>2
  <2>2. Committed(r, o) = [Fresh EXCEPT !.last = o, !.notified = b]  BY DEF Committed
  <2> HIDE DEF b
  <2>3. [Fresh EXCEPT !.last = o, !.notified = b] \in RuleState  BY <2>1 DEF Fresh, RuleState, Severities
  <2>4. [Fresh EXCEPT !.last = o, !.notified = b].last = o /\ [Fresh EXCEPT !.last = o, !.notified = b].notified = b
    BY DEF Fresh
  <2> QED  BY <2>1, <2>2, <2>3, <2>4 DEF Memory
<1>6. Unchanging(rs) \in Memory
  <2>1. 0 \in 0..(DebouncePolls - 1)  BY <1>1
  <2>2. Unchanging(rs) \in RuleState /\ Unchanging(rs).last = rs.last /\ Unchanging(rs).notified = rs.notified
    BY <1>1, <2>1 DEF Unchanging, RuleState
  <2> QED  BY <1>1, <2>2 DEF Memory
<1>7. /\ [rs EXCEPT !.last = "stale", !.notified = TRUE] \in Memory
      /\ [rs EXCEPT !.last = "ok", !.notified = FALSE] \in Memory
  <2>1. /\ [rs EXCEPT !.last = "stale", !.notified = TRUE] \in RuleState
        /\ [rs EXCEPT !.last = "ok", !.notified = FALSE] \in RuleState
    BY <1>1 DEF RuleState, Severities
  <2>2. /\ [rs EXCEPT !.last = "stale", !.notified = TRUE].last = "stale"
        /\ ~[rs EXCEPT !.last = "ok", !.notified = FALSE].notified
    BY <1>1 DEF RuleState
  <2> QED  BY <2>1, <2>2 DEF Memory, Alarms
<1>8. Fine(StepStale(r, rs, silence, due))
  BY <1>2, <1>3, <1>4, <1>7, <1>1 DEF StepStale, Alarms
<1>9. ASSUME observed \in Severities PROVE Fine(StepBanded(r, rs, observed, due))
  <2> DEFINE polls == IF observed = rs.pending THEN rs.count + 1 ELSE 1
  <2>1. polls < DebouncePolls => [rs EXCEPT !.pending = observed, !.count = polls] \in Memory
    <3> SUFFICES ASSUME polls < DebouncePolls PROVE [rs EXCEPT !.pending = observed, !.count = polls] \in Memory
      OBVIOUS
    <3>1. polls \in 0..(DebouncePolls - 1)  BY <1>1
    <3> HIDE DEF polls
    <3>2. /\ [rs EXCEPT !.pending = observed, !.count = polls] \in RuleState
          /\ [rs EXCEPT !.pending = observed, !.count = polls].last = rs.last
          /\ [rs EXCEPT !.pending = observed, !.count = polls].notified = rs.notified
      BY <1>1, <1>9, <3>1 DEF RuleState
    <3> QED  BY <1>1, <3>2 DEF Memory
  <2> HIDE DEF Fine
  <2>2. CASE observed = rs.last  BY <1>4, <1>6, <2>2 DEF StepBanded, Recovers
  <2>3. CASE observed # rs.last /\ polls < DebouncePolls  BY <1>4, <2>1, <2>3 DEF StepBanded, Recovers
  <2>4. CASE observed # rs.last /\ ~(polls < DebouncePolls)
    BY <1>1, <1>2, <1>3, <1>5, <1>9, <2>4 DEF StepBanded, Recovers
  <2> QED  BY <2>2, <2>3, <2>4
<1> HIDE DEF Fine
<1>10. Fine(Step(r, rs, observed, silence, due))  BY <1>2, <1>8, <1>9, FreshIsMemory DEF Step
<1> QED  BY <1>10 DEF Fine

\* The default rules a preset asks for are rules.
LEMMA SeedIsRules ==
  ASSUME NEW rules \in SUBSET Rules, NEW preset \in Presets
  PROVE  ReconcileSeed(rules, preset) \in SUBSET Rules
BY PresetAssumption DEF ReconcileSeed, Rules, Presets

\* Pruning the memory leaves memory, and pruning it again changes nothing.
LEMMA OnlyOfTwice ==
  ASSUME NEW rules \in SUBSET Rules, NEW memory \in [Ids -> Memory]
  PROVE  /\ OnlyOf(rules, memory) \in [Ids -> Memory]
         /\ OnlyOf(rules, OnlyOf(rules, memory)) = OnlyOf(rules, memory)
<1>1. OnlyOf(rules, memory) \in [Ids -> Memory]  BY FreshIsMemory DEF OnlyOf
<1>2. OnlyOf(rules, OnlyOf(rules, memory)) = OnlyOf(rules, memory)  BY DEF OnlyOf
<1> QED  BY <1>1, <1>2

\* Without memory there is none to outlive a rule.
LEMMA UntouchedIsTidy ==
  /\ Untouched \in [Ids -> Memory]
  /\ \A rules \in SUBSET Rules : OnlyOf(rules, Untouched) = Untouched
BY FreshIsMemory DEF Untouched, OnlyOf

\* A controller starts without memory, whatever its rules.
LEMMA NewIsTidy ==
  ASSUME NEW preset \in Presets
  PROVE  /\ NewController(preset) \in Tidy
         /\ \A rules \in SUBSET Rules : [NewController(preset) EXCEPT !.rules = rules] \in Tidy
<1>1. ReconcileSeed({}, preset) \in SUBSET Rules  BY SeedIsRules
<1> QED  BY <1>1, UntouchedIsTidy DEF NewController, Tidy, Registered, Silences

\* A controller that gets other rules keeps the memory of theirs only.
LEMMA WithRulesIsTidy ==
  ASSUME NEW c \in Tidy, NEW rules \in SUBSET Rules
  PROVE  /\ WithRules(c, rules) \in Tidy
         /\ \A p \in Presets : [WithRules(c, rules) EXCEPT !.preset = p] \in Tidy
<1>1. c \in Registered /\ c.memory \in [Ids -> Memory]  BY DEF Tidy, Registered
<1> DEFINE m == OnlyOf(rules, c.memory)
<1>2. m \in [Ids -> Memory] /\ OnlyOf(rules, m) = m  BY <1>1, OnlyOfTwice
<1>3. WithRules(c, rules) = [c EXCEPT !.rules = rules, !.memory = m]  BY <1>1 DEF Registered, WithRules
<1> HIDE DEF m
<1> DEFINE d == [c EXCEPT !.rules = rules, !.memory = m]
<1>4. d \in Registered /\ d.rules = rules /\ d.memory = m  BY <1>1, <1>2 DEF Registered
<1>5. d \in Tidy  BY <1>2, <1>4 DEF Tidy
<1> HIDE DEF d
<1>6. ASSUME NEW p \in Presets PROVE [d EXCEPT !.preset = p] \in Tidy
  <2>1. [d EXCEPT !.preset = p] \in Registered /\ [d EXCEPT !.preset = p].rules = rules /\ [d EXCEPT !.preset = p].memory = m
    BY <1>4 DEF Registered
  <2> QED  BY <1>2, <2>1 DEF Tidy
<1> QED  BY <1>3, <1>5, <1>6 DEF d

-----------------------------------------------------------------------------
(* The document.                                                           *)

LEMMA InitInv == Init => IInv
<1> SUFFICES ASSUME Init PROVE IInv  OBVIOUS
<1>1. PICK p \in Presets : \E rules \in {s \in RuleSets[p] : OneEach(s)} :
         ctrls = [g \in {First} |-> [NewController(p) EXCEPT !.rules = rules]]
  BY DEF Init
<1>2. PICK rules \in {s \in RuleSets[p] : OneEach(s)} : ctrls = [g \in {First} |-> [NewController(p) EXCEPT !.rules = rules]]
  BY <1>1
<1>3. rules \in SUBSET Rules  BY <1>2, RuleSetAssumption
<1>4. ctrls \in [Here -> Tidy] /\ Here = {First} /\ First \in Guids
  BY <1>2, <1>3, NewIsTidy, FirstAssumption DEF Here
<1>5. DocTyped
  <2>1. 1 \in 1..MaxHouseholds  BY LimitAssumption
  <2>2. stage = "paired" /\ founded = 1 /\ parked = FALSE  BY DEF Init
  <2> QED  BY <1>4, <2>1, <2>2 DEF DocTyped
<1>6. QueueTyped
  <2>1. OutboxLimit \in Nat  BY LimitAssumption
  <2> QED  BY <2>1 DEF Init, QueueTyped
<1>7. TimeTyped  BY DEF Init, TimeTyped, Conditions, Silences
<1>8. TickTyped  BY UntouchedIsTidy DEF Init, TickTyped, NoControllers, NoJob, Silences
<1>9. HeadTyped  BY DEF Init, HeadTyped
<1>10. HistoryTyped
  <2>1. {0, 1} \subseteq 0..MaxHouseholds /\ 0 \in 0..MaxEvents
    BY LimitAssumption, BoundsAssumption
  <2>2. owner \in [Guids -> 0..MaxHouseholds]  BY <2>1 DEF Init
  <2>3. events \in 0..MaxEvents  BY <2>1 DEF Init
  <2> QED  BY <2>2, <2>3 DEF Init, HistoryTyped
<1>11. OwnedHere /\ OwnedInFlight /\ QueueOfOwn
  <2>1. stage = "paired" /\ founded = 1 /\ owner = [g \in Guids |-> IF g = First THEN 1 ELSE 0] /\ outbox = <<>>
    BY DEF Init
  <2>2. DOMAIN tick = {} /\ requests = {} /\ job.guid = NoGuid  BY DEF Init, NoControllers, NoJob
  <2>3. OwnedHere  BY <1>4, <2>1 DEF OwnedHere
  <2>4. OwnedInFlight  BY <2>2, GuidAssumption DEF OwnedInFlight, InFlight
  <2>5. QueueOfOwn  BY <2>1 DEF QueueOfOwn
  <2> QED  BY <2>3, <2>4, <2>5
<1> QED  BY <1>5, <1>6, <1>7, <1>8, <1>9, <1>10, <1>11 DEF IInv, Typed

-----------------------------------------------------------------------------
(* The document keeps its kind, and every memory its rule.                 *)

LEMMA DocStep == Typed /\ [Next]_vars => DocTyped'
<1> SUFFICES ASSUME Typed, [Next]_vars PROVE DocTyped'  OBVIOUS
<1> USE DEF doc, world, poller, ghost, vars
<1>t. /\ stage \in {"paired", "cleared", "none"} /\ founded \in 1..MaxHouseholds /\ parked \in BOOLEAN
      /\ Here \subseteq Guids /\ ctrls \in [Here -> Tidy]
  BY DEF Typed, DocTyped
<1>s. /\ NoControllers \in [{} -> Tidy] /\ DOMAIN NoControllers = {}
      /\ \A p \in Added : p \in Presets
  BY AddedAssumption DEF NoControllers
\* The controllers a request or a step of the poller leaves.
<1>1. ASSUME NEW H, H \subseteq Guids, ctrls' \in [H -> Tidy],
             stage' \in {"paired", "cleared", "none"}, founded' \in 1..MaxHouseholds, parked' \in BOOLEAN
      PROVE  DocTyped'
  BY <1>1 DEF DocTyped, Here
<1>2. ASSUME NEW g \in Guids, NEW c \in Tidy PROVE Set(g, c) \in [Here \cup {g} -> Tidy]
  BY <1>2, <1>t DEF Set
<1>3. ASSUME NEW g \in Guids, NEW p \in Added, Register(g, p) PROVE DocTyped'
  <2>1. NewController(p) \in Tidy  BY <1>s, NewIsTidy
  <2>2. ctrls' \in [Here \cup {g} -> Tidy]  BY <1>2, <1>3, <2>1 DEF Register
  <2> QED  BY <1>1, <1>3, <1>t, <2>2 DEF Register
<1>4. ASSUME NEW g \in Here, NEW c \in Tidy, Ruled(g, c) PROVE DocTyped'
  <2>1. Here \cup {g} = Here  OBVIOUS
  <2>2. ctrls' \in [Here -> Tidy]  BY <1>2, <1>4, <1>t, <2>1 DEF Ruled
  <2> QED  BY <1>1, <1>4, <1>t, <2>2 DEF Ruled
<1>5. ASSUME NEW g \in Guids, NEW p \in Added, ChangePreset(g, p) PROVE DocTyped'
  <2>1. g \in Here /\ ctrls[g] \in Tidy /\ ctrls[g].rules \in SUBSET Rules /\ p \in Presets
    BY <1>5, <1>s, <1>t DEF ChangePreset, Tidy, Registered
  <2>2. ReconcileSeed(ctrls[g].rules, p) \in SUBSET Rules  BY <2>1, SeedIsRules
  <2>3. [WithRules(ctrls[g], ReconcileSeed(ctrls[g].rules, p)) EXCEPT !.preset = p] \in Tidy
    BY <2>1, <2>2, WithRulesIsTidy
  <2> QED  BY <1>4, <1>5, <2>1, <2>3 DEF ChangePreset
<1>6. ASSUME NEW g \in Here, NEW rules \in RuleSets[ctrls[g].preset], PutRules(g, rules) PROVE DocTyped'
  <2>1. ctrls[g] \in Tidy /\ ctrls[g].preset \in Presets  BY <1>t DEF Tidy, Registered
  <2>2. rules \in SUBSET Rules  BY <2>1, RuleSetAssumption
  <2>3. WithRules(ctrls[g], rules) \in Tidy  BY <2>1, <2>2, WithRulesIsTidy
  <2> QED  BY <1>4, <1>6, <2>3 DEF PutRules
<1>7. ASSUME NEW g \in Guids, DeleteController(g) PROVE DocTyped'
  <2>1. ctrls' \in [Here \ {g} -> Tidy]  BY <1>7, <1>t DEF DeleteController, Restrict
  <2>2. Here \ {g} \subseteq Guids  BY <1>t
  <2> QED  BY <1>1, <1>7, <1>t, <2>1, <2>2 DEF DeleteController
<1>8. ASSUME NEW g \in Guids, NEW h \in Guids, RotateController(g, h) PROVE DocTyped'
  <2>1. ctrls' \in [(Here \ {g}) \cup {h} -> Tidy]  BY <1>8, <1>t DEF RotateController
  <2>2. (Here \ {g}) \cup {h} \subseteq Guids  BY <1>t
  <2> QED  BY <1>1, <1>8, <1>t, <2>1, <2>2 DEF RotateController
<1>9. CASE ClearHousehold  BY <1>1, <1>9, <1>s, <1>t DEF ClearHousehold
<1>10. CASE DropHousehold  BY <1>1, <1>10, <1>s, <1>t DEF DropHousehold
<1>11. CASE FoundHousehold
  <2>1. founded' \in 1..MaxHouseholds
    <3>1. MaxHouseholds \in Nat  BY LimitAssumption
    <3> QED  BY <1>11, <1>t, <3>1 DEF FoundHousehold
  <2> QED  BY <1>1, <1>11, <1>t, <2>1 DEF FoundHousehold
<1>12. CASE Park \/ Resume  BY <1>1, <1>12, <1>t DEF Park, Resume
<1>13. CASE Persist
  <2> DEFINE g == job.guid
             m == Merged(ctrls[g].rules)
             c == [ctrls[g] EXCEPT !.memory = m, !.since = job.since]
  <2>1. CASE g \in Here
    <3>1. ctrls[g] \in Tidy /\ ctrls[g] \in Registered /\ ctrls[g].rules \in SUBSET Rules
      BY <1>t, <2>1 DEF Tidy, Registered
    <3>2. job.memory \in [Ids -> Memory] /\ job.since \in Silences  BY DEF Typed, TickTyped
    <3>3. m \in [Ids -> Memory] /\ OnlyOf(ctrls[g].rules, m) = m  BY <3>1, <3>2, OnlyOfTwice DEF Merged
    <3>4. ctrls' = [ctrls EXCEPT ![g].memory = m, ![g].since = job.since]  BY <1>13, <2>1 DEF Persist
    <3> HIDE DEF m, g
    <3>5. c \in Registered /\ c.rules = ctrls[g].rules /\ c.memory = m  BY <3>1, <3>2, <3>3 DEF Registered
    <3>6. c \in Tidy  BY <3>3, <3>5 DEF Tidy
    <3>7. ctrls' = [ctrls EXCEPT ![g] = c]  BY <1>t, <2>1, <3>4
    <3> HIDE DEF c
    <3>8. ctrls' \in [Here -> Tidy]  BY <1>t, <2>1, <3>6, <3>7
    <3> QED  BY <1>1, <1>13, <1>t, <3>8 DEF Persist
  <2>2. CASE g \notin Here  BY <1>1, <1>13, <1>t, <2>2 DEF Persist
  <2> QED  BY <2>1, <2>2
<1>14. CASE Restart
  <2>1. ASSUME NEW g \in Here PROVE Reconciled(ctrls[g]) \in Tidy
    <3>1. ctrls[g] \in Tidy /\ ctrls[g].rules \in SUBSET Rules /\ ctrls[g].preset \in Presets
      BY <1>t DEF Tidy, Registered
    <3> QED  BY <3>1, SeedIsRules, WithRulesIsTidy DEF Reconciled
  <2>2. ctrls' \in [Here -> Tidy]  BY <1>14, <2>1 DEF Restart
  <2> QED  BY <1>1, <1>14, <1>t, <2>2 DEF Restart
<1>15. ASSUME NEW g \in Guids, LongSilence(g) PROVE DocTyped'
  <2> DEFINE new == IF ctrls[g].since = "never" THEN "never" ELSE "long"
             c == [ctrls[g] EXCEPT !.since = new]
  <2>1. g \in Here /\ ctrls[g] \in Tidy /\ new \in Silences  BY <1>15, <1>t DEF LongSilence, Silences
  <2>2. ctrls' = [ctrls EXCEPT ![g] = c]
    <3>1. ctrls' = [ctrls EXCEPT ![g].since = IF @ = "never" THEN @ ELSE "long"]  BY <1>15 DEF LongSilence
    <3> QED  BY <3>1
  <2> HIDE DEF new
  <2>3. c \in Registered /\ c.rules = ctrls[g].rules /\ c.memory = ctrls[g].memory
    BY <2>1 DEF Tidy, Registered
  <2>4. c \in Tidy  BY <2>1, <2>3 DEF Tidy
  <2> HIDE DEF c
  <2>5. ctrls' \in [Here -> Tidy]  BY <1>t, <2>1, <2>2, <2>4
  <2> QED  BY <1>1, <1>15, <1>t, <2>5 DEF LongSilence
\* Everything else leaves the controllers alone.
<1>16. ASSUME UNCHANGED <<stage, founded, parked, ctrls>> PROVE DocTyped'
  BY <1>1, <1>16, <1>t
<1>17. CASE Tick \/ PersistFails \/ NothingToSend \/ DropStale \/ Post \/ Rejected \/ Unavailable \/ Pop \/ PopFails \/ HourPasses
  BY <1>16, <1>17 DEF Tick, PersistFails, NothingToSend, DropStale, Post, Rejected, Unavailable, Pop, PopFails, HourPasses
<1>18. ASSUME NEW g \in Guids,
              \/ PollController(g) \/ (\E i \in Ids : Delivered(g, i) \/ Cooled(g, i))
              \/ (\E c \in Conditions : Turn(g, c))
       PROVE  DocTyped'
  BY <1>16, <1>18 DEF PollController, Delivered, Cooled, Turn
<1>19. ASSUME NEW w \in requests, Send(w) \/ SendFails(w) PROVE DocTyped'
  BY <1>16, <1>19 DEF Send, SendFails
<1>20. CASE UNCHANGED vars  BY <1>16, <1>20
<1>21. CASE Requests
  BY <1>3, <1>5, <1>6, <1>7, <1>8, <1>9, <1>10, <1>11, <1>12, <1>21 DEF Requests
<1>22. CASE Poller  BY <1>13, <1>17, <1>18, <1>19, <1>22 DEF Poller
<1>23. CASE World  BY <1>14, <1>15, <1>17, <1>18, <1>23 DEF World
<1> QED  BY <1>20, <1>21, <1>22, <1>23 DEF Next

-----------------------------------------------------------------------------
(* The queue keeps its limit, and grows by the poller's words only.        *)

\* Putting a word into the queue and capping it.
LEMMA CappedQueue ==
  ASSUME NEW q \in Seq(Word), NEW w \in Word
  PROVE  LET kept == Capped(Append(q, w))
         IN /\ kept \in Seq(Word) /\ Len(kept) <= OutboxLimit
            /\ \A k \in DOMAIN kept : kept[k] = w \/ \E j \in DOMAIN q : kept[k] = q[j]
<1> DEFINE p == Append(q, w)
<1>0. OutboxLimit \in Nat \ {0}  BY LimitAssumption
<1>1. /\ p \in Seq(Word) /\ Len(p) = Len(q) + 1 /\ Len(q) \in Nat /\ DOMAIN p = 1..Len(p) /\ DOMAIN q = 1..Len(q)
      /\ \A k \in 1..Len(q) : p[k] = q[k]
      /\ p[Len(p)] = w
  OBVIOUS
<1>2. \A k \in DOMAIN p : p[k] = w \/ \E j \in DOMAIN q : p[k] = q[j]  BY <1>1
<1> HIDE DEF p
<1>3. CASE Len(p) <= OutboxLimit  BY <1>1, <1>2, <1>3 DEF Capped, p
<1>4. CASE ~(Len(p) <= OutboxLimit)
  <2> DEFINE a == Len(p) - OutboxLimit + 1
             s == SubSeq(p, a, Len(p))
  <2>1. a \in 1..Len(p) /\ Len(p) \in Nat /\ Len(p) - a + 1 = OutboxLimit  BY <1>0, <1>1, <1>4
  <2>2. /\ s \in Seq(Word) /\ Len(s) = OutboxLimit
        /\ \A k \in 1..Len(s) : s[k] = p[a + k - 1]
    <3> HIDE DEF a
    <3> QED  BY <1>1, <2>1
  <2>3. DOMAIN s = 1..Len(s)  BY <2>2
  <2>4. \A k \in 1..Len(s) : a + k - 1 \in DOMAIN p  BY <1>0, <1>1, <2>1, <2>2
  <2>5. Capped(p) = s  BY <1>4 DEF Capped
  <2>6. \A k \in DOMAIN s : s[k] = w \/ \E j \in DOMAIN q : s[k] = q[j]  BY <1>2, <2>2, <2>3, <2>4
  <2>7. s \in Seq(Word) /\ Len(s) <= OutboxLimit  BY <1>0, <2>2
  <2> HIDE DEF s
  <2> QED  BY <2>5, <2>6, <2>7 DEF p
<1> QED  BY <1>3, <1>4

\* Each step leaves a queue of the words that were there, in their order, and of
\* at most one of the tick's own.
LEMMA QueueStep ==
  Typed /\ [Next]_vars =>
    /\ QueueTyped'
    /\ \A k \in DOMAIN outbox' : \/ \E j \in DOMAIN outbox : outbox'[k].guid = outbox[j].guid
                                 \/ \E w \in requests : outbox'[k].guid = w.guid
<1> DEFINE Good == /\ QueueTyped'
                   /\ \A k \in DOMAIN outbox' : \/ \E j \in DOMAIN outbox : outbox'[k].guid = outbox[j].guid
                                                \/ \E w \in requests : outbox'[k].guid = w.guid
<1> SUFFICES ASSUME Typed, [Next]_vars PROVE Good  OBVIOUS
<1> USE DEF doc, world, poller, ghost, vars
<1>t. outbox \in Seq(Word) /\ Len(outbox) \in Nat /\ Len(outbox) <= OutboxLimit /\ OutboxLimit \in Nat \ {0}
      /\ requests \subseteq Word
  BY LimitAssumption DEF Typed, QueueTyped, TickTyped
<1>1. ASSUME outbox' = outbox PROVE Good  BY <1>1, <1>t DEF QueueTyped
<1>2. ASSUME outbox' = Tail(outbox), outbox # <<>> PROVE Good
  <2>1. outbox' \in Seq(Word) /\ Len(outbox') = Len(outbox) - 1
        /\ \A k \in 1..Len(outbox') : outbox'[k] = outbox[k + 1]
    BY <1>2, <1>t
  <2>2. DOMAIN outbox' = 1..Len(outbox') /\ DOMAIN outbox = 1..Len(outbox)  BY <1>t, <2>1
  <2> QED  BY <1>t, <2>1, <2>2 DEF QueueTyped
<1>3. CASE DropHousehold  BY <1>3, <1>t DEF DropHousehold, OutboxAfterDrop, QueueTyped
<1>4. ASSUME NEW w \in requests, Send(w) PROVE Good
  <2>1. outbox' = Capped(Append(outbox, w)) /\ w \in Word  BY <1>4, <1>t DEF Send
  <2>2. /\ outbox' \in Seq(Word) /\ Len(outbox') <= OutboxLimit
        /\ \A k \in DOMAIN outbox' : outbox'[k] = w \/ \E j \in DOMAIN outbox : outbox'[k] = outbox[j]
    BY <1>t, <2>1, CappedQueue
  <2> QED  BY <1>4, <2>2 DEF QueueTyped
<1>5. CASE DropStale  BY <1>2, <1>5 DEF DropStale
<1>6. CASE Pop  BY <1>1, <1>2, <1>6 DEF Pop
<1>7. CASE HourPasses
  <2>1. outbox' = [k \in DOMAIN outbox |-> [outbox[k] EXCEPT !.old = TRUE]]  BY <1>7 DEF HourPasses
  <2>2. DOMAIN outbox = 1..Len(outbox) /\ \A k \in 1..Len(outbox) : outbox[k] \in Word  BY <1>t
  <2>3. \A w \in Word : [w EXCEPT !.old = TRUE] \in Word /\ [w EXCEPT !.old = TRUE].guid = w.guid
    BY DEF Word
  <2>4. outbox' \in [1..Len(outbox) -> Word]  BY <2>1, <2>2, <2>3
  <2>5. outbox' \in Seq(Word) /\ Len(outbox') = Len(outbox)  BY <1>t, <2>4
  <2>6. \A k \in DOMAIN outbox' : outbox'[k].guid = outbox[k].guid /\ k \in DOMAIN outbox  BY <2>1, <2>2, <2>3
  <2> QED  BY <1>t, <2>5, <2>6 DEF QueueTyped
<1>8. CASE Requests
  BY <1>1, <1>3, <1>8 DEF Requests, Register, ChangePreset, PutRules, Ruled, DeleteController, RotateController,
     ClearHousehold, FoundHousehold, Park, Resume
<1>9. CASE Poller
  BY <1>1, <1>4, <1>5, <1>6, <1>9 DEF Poller, Tick, PollController, Persist, PersistFails, SendFails, NothingToSend,
     Post, Rejected, Unavailable, PopFails, Delivered
<1>10. CASE World  BY <1>1, <1>7, <1>10 DEF World, Restart, Turn, Cooled, LongSilence
<1>11. CASE UNCHANGED vars  BY <1>1, <1>11
<1> QED  BY <1>8, <1>9, <1>10, <1>11 DEF Next

-----------------------------------------------------------------------------
(* The poller, the world and the history keep their kinds.                 *)

LEMMA GoesTyped ==
  ASSUME NEW words, NEW left, NEW done \in BOOLEAN, Goes(words, left, done)
  PROVE  pc' \in {"idle", "poll", "persist", "send", "look", "post", "pop"} /\ pc' # "post" /\ drained' \in BOOLEAN
BY DEF Goes

\* A poll: what the engine makes of the rules becomes the job and its words.
LEMMA PollStep ==
  ASSUME Typed, NEW g \in Guids, PollController(g)
  PROVE  /\ job' \in [guid : Guids \cup {NoGuid}, memory : [Ids -> Memory], since : Silences]
         /\ job'.guid = g /\ requests' \subseteq Word /\ \A w \in requests' : w.guid = g
         /\ DOMAIN tick' = DOMAIN tick \ {g} /\ tick' \in [DOMAIN tick' -> Tidy] /\ g \in DOMAIN tick
         /\ heard' \in [Guids -> Silences]
         /\ pc' = "persist" /\ UNCHANGED <<drained, head>>
<1> DEFINE silence == IF water[g] # "down" THEN "recent" ELSE heard[g]
           rules   == tick[g].rules
           memory  == tick[g].memory
           out     == [r \in rules |-> Step(r, memory[r.id], water[g], silence, r.id \in cooled[g])]
           talking == {r \in rules : out[r].says # Silent}
           kept    == [i \in Ids |-> IF \E r \in rules : r.id = i
                                       THEN out[CHOOSE r \in rules : r.id = i].memory
                                       ELSE memory[i]]
           word(r) == [guid |-> g, rule |-> r.id, transition |-> out[r].says.transition,
                       severity |-> out[r].says.severity, old |-> FALSE]
<1>1. /\ pc = "poll" /\ g \in DOMAIN tick
      /\ heard' = [heard EXCEPT ![g] = silence]
      /\ job' = [guid |-> g, since |-> silence, memory |-> kept]
      /\ requests' = {word(r) : r \in talking}
      /\ tick' = Restrict(tick, DOMAIN tick \ {g})
      /\ pc' = "persist" /\ UNCHANGED <<drained, head>>
  BY DEF PollController
<1>2. tick[g] \in Registered /\ rules \in SUBSET Rules /\ memory \in [Ids -> Memory]
  BY <1>1 DEF Typed, TickTyped, Tidy, Registered
<1>3. silence \in Silences /\ heard \in [Guids -> Silences]  BY DEF Typed, TimeTyped, Silences
<1> HIDE DEF silence, rules, memory
<1>4. \A r \in rules : r.id \in Ids  BY <1>2 DEF Ids
<1>5. ASSUME NEW r \in rules
      PROVE  /\ out[r].memory \in Memory
             /\ out[r].says = Silent \/ /\ out[r].says.transition \in {"enter", "renotify", "recover"}
                                        /\ out[r].says.severity \in Alarms
  <2>1. memory[r.id] \in Memory /\ (r.id \in cooled[g]) \in BOOLEAN /\ r \in Rules  BY <1>2, <1>4
  <2> QED  BY <2>1, OnePoll
<1> HIDE DEF out
<1>6. kept \in [Ids -> Memory]
  <2> SUFFICES ASSUME NEW i \in Ids
               PROVE  (IF \E r \in rules : r.id = i THEN out[CHOOSE r \in rules : r.id = i].memory ELSE memory[i]) \in Memory
    OBVIOUS
  <2>1. CASE \E r \in rules : r.id = i
    <3>1. (CHOOSE r \in rules : r.id = i) \in rules  BY <2>1
    <3> QED  BY <1>5, <2>1, <3>1
  <2>2. CASE ~\E r \in rules : r.id = i  BY <1>2, <2>2
  <2> QED  BY <2>1, <2>2
<1> HIDE DEF kept
<1>7. job' \in [guid : Guids \cup {NoGuid}, memory : [Ids -> Memory], since : Silences] /\ job'.guid = g
  BY <1>1, <1>3, <1>6
<1>8. ASSUME NEW r \in talking PROVE word(r) \in Word /\ word(r).guid = g
  <2>1. /\ out[r].says.transition \in {"enter", "renotify", "recover"} /\ out[r].says.severity \in Alarms
        /\ r.id \in Ids
    BY <1>4, <1>5
  <2> QED  BY <2>1 DEF Word
<1>9. requests' \subseteq Word /\ \A w \in requests' : w.guid = g  BY <1>1, <1>8
<1>10. DOMAIN tick' = DOMAIN tick \ {g} /\ tick' \in [DOMAIN tick' -> Tidy]
  BY <1>1 DEF Restrict, Typed, TickTyped
<1>11. heard' \in [Guids -> Silences]  BY <1>1, <1>3
<1> QED  BY <1>1, <1>7, <1>9, <1>10, <1>11

\* The poller's state, and where the controllers it works on come from.
LEMMA TickStep ==
  Typed /\ [Next]_vars =>
    /\ TickTyped' /\ HeadTyped'
    /\ InFlight' \subseteq InFlight \cup Here \cup {NoGuid}
    /\ ~Tick => InFlight' \subseteq InFlight \cup {NoGuid}
    /\ UNCHANGED <<tick, requests, job>> \/ UNCHANGED <<stage, founded, owner, strays>>
<1> DEFINE Good == /\ TickTyped' /\ HeadTyped'
                   /\ InFlight' \subseteq InFlight \cup Here \cup {NoGuid}
                   /\ ~Tick => InFlight' \subseteq InFlight \cup {NoGuid}
                   /\ UNCHANGED <<tick, requests, job>> \/ UNCHANGED <<stage, founded, owner, strays>>
<1> SUFFICES ASSUME Typed, [Next]_vars PROVE Good  OBVIOUS
<1> USE DEF doc, world, poller, ghost, vars
<1>t. TickTyped /\ HeadTyped /\ Here \subseteq Guids /\ ctrls \in [Here -> Tidy]
  BY DEF Typed, DocTyped
<1>j. NoJob \in [guid : Guids \cup {NoGuid}, memory : [Ids -> Memory], since : Silences] /\ NoJob.guid = NoGuid
  BY UntouchedIsTidy DEF NoJob, Silences
\* Steps that work something off.
<1>1. ASSUME pc' \in {"idle", "poll", "persist", "send", "look", "post", "pop"}, drained' \in BOOLEAN, HeadTyped',
             tick' = tick \/ tick' = NoControllers, job' = job \/ job' = NoJob, requests' \subseteq requests,
             UNCHANGED <<tick, requests, job>> \/ UNCHANGED <<stage, founded, owner, strays>>
      PROVE  Good
  <2>1. DOMAIN tick' \subseteq DOMAIN tick /\ tick' \in [DOMAIN tick' -> Tidy]
    BY <1>1, <1>t DEF TickTyped, NoControllers
  <2>2. TickTyped'  BY <1>1, <1>j, <1>t, <2>1 DEF TickTyped
  <2>3. InFlight' \subseteq InFlight \cup {NoGuid}  BY <1>1, <1>j, <2>1 DEF InFlight
  <2> QED  BY <1>1, <2>2, <2>3
<1>2. ASSUME UNCHANGED <<pc, tick, job, requests, drained, head>> PROVE Good
  BY <1>1, <1>2, <1>t DEF TickTyped, HeadTyped
<1>3. CASE Tick
  <2>1. /\ tick' = ctrls /\ Goes({}, Here, FALSE) /\ UNCHANGED <<stage, founded, owner, strays, job, requests, head>>
    BY <1>3 DEF Tick
  <2>2. TickTyped'  BY <1>t, <2>1, GoesTyped DEF TickTyped
  <2>3. HeadTyped'  BY <1>t, <2>1, GoesTyped DEF HeadTyped
  <2>4. DOMAIN tick' = Here  BY <2>1 DEF Here
  <2>5. InFlight' = DOMAIN tick' \cup {w.guid : w \in requests'} \cup {job'.guid}  BY DEF InFlight
  <2>6. InFlight' \subseteq InFlight \cup Here  BY <2>1, <2>4, <2>5 DEF InFlight
  <2>7. UNCHANGED <<stage, founded, owner, strays>>  BY <2>1
  <2> QED  BY <1>3, <2>2, <2>3, <2>6, <2>7
<1>4. ASSUME NEW g \in Guids, PollController(g) PROVE Good
  <2>1. TickTyped' /\ HeadTyped'  BY <1>4, <1>t, PollStep DEF TickTyped, HeadTyped
  <2>2. InFlight' \subseteq InFlight  BY <1>4, PollStep DEF InFlight
  <2>3. UNCHANGED <<stage, founded, owner, strays>>  BY <1>4 DEF PollController
  <2> QED  BY <2>1, <2>2, <2>3
<1>5. CASE Persist \/ PersistFails
  <2>1. /\ tick' = tick /\ job' = NoJob /\ requests' \subseteq requests /\ head' = head
        /\ UNCHANGED <<stage, founded, owner, strays>>
    BY <1>5 DEF Persist, PersistFails, SaidUnpersisted
  <2>2. pc' \in {"idle", "poll", "persist", "send", "look", "post", "pop"} /\ pc' # "post" /\ drained' \in BOOLEAN
    <3>1. drained \in BOOLEAN /\ (drained \/ requests # {}) \in BOOLEAN  BY <1>t DEF TickTyped
    <3> QED  BY <1>5, <3>1, GoesTyped DEF Persist, PersistFails
  <2>3. HeadTyped'  BY <1>t, <2>1, <2>2 DEF HeadTyped
  <2> QED  BY <1>1, <2>1, <2>2, <2>3
<1>6. ASSUME NEW w \in requests, Send(w) \/ SendFails(w) PROVE Good
  <2>1. /\ tick' = tick /\ job' = job /\ requests' \subseteq requests /\ head' = head
        /\ UNCHANGED <<stage, founded, owner, strays>>
    BY <1>6 DEF Send, SendFails
  <2>2. pc' \in {"idle", "poll", "persist", "send", "look", "post", "pop"} /\ pc' # "post" /\ drained' \in BOOLEAN
    BY <1>6, GoesTyped DEF Send, SendFails
  <2>3. HeadTyped'  BY <1>t, <2>1, <2>2 DEF HeadTyped
  <2> QED  BY <1>1, <2>1, <2>2, <2>3
<1>7. CASE NothingToSend \/ Unavailable \/ PopFails
  <2>1. DrainEnds /\ (head' = head \/ head' = NoWord)  BY <1>7 DEF NothingToSend, Unavailable, PopFails
  <2>2. pc' \in {"idle", "poll", "persist", "send", "look", "post", "pop"} /\ pc' # "post" /\ drained' \in BOOLEAN
    BY <2>1, GoesTyped DEF DrainEnds
  <2>3. HeadTyped'  BY <1>t, <2>1, <2>2 DEF HeadTyped
  <2> QED  BY <1>1, <2>1, <2>2, <2>3 DEF DrainEnds
<1>8. CASE Post
  <2>1. outbox # <<>> /\ outbox \in Seq(Word)  BY <1>8 DEF Post, Typed, QueueTyped
  <2>2. outbox[1] \in Word  BY <2>1
  <2>3. HeadTyped'  BY <1>8, <2>2 DEF Post, HeadTyped
  <2> QED  BY <1>1, <1>8, <1>t, <2>3 DEF Post, TickTyped
<1>9. CASE Rejected \/ Pop \/ \E g \in Guids, i \in Ids : Delivered(g, i)
  <2>1. pc' \in {"pop", "look"} /\ (head' = head \/ head' = NoWord) /\ UNCHANGED <<tick, job, requests, drained>>
    BY <1>9 DEF Rejected, Pop, Delivered
  <2>2. HeadTyped'  BY <1>t, <2>1 DEF HeadTyped
  <2> QED  BY <1>1, <1>t, <2>1, <2>2 DEF TickTyped
<1>10. CASE Restart
  <2>1. HeadTyped'  BY <1>10 DEF Restart, HeadTyped
  <2> QED  BY <1>1, <1>10, <2>1 DEF Restart
<1>11. CASE Requests
  BY <1>2, <1>11 DEF Requests, Register, ChangePreset, PutRules, Ruled, DeleteController, RotateController,
     ClearHousehold, DropHousehold, FoundHousehold, Park, Resume
<1>12. CASE Poller  BY <1>2, <1>3, <1>4, <1>5, <1>6, <1>7, <1>8, <1>9, <1>12 DEF Poller, DropStale
<1>13. CASE World  BY <1>2, <1>10, <1>13 DEF World, Turn, Cooled, LongSilence, HourPasses
<1>14. CASE UNCHANGED vars  BY <1>2, <1>14
<1> QED  BY <1>11, <1>12, <1>13, <1>14 DEF Next

\* What a poll would find, the cooldowns and the snapshots.
LEMMA TimeStep == Typed /\ [Next]_vars => TimeTyped'
<1> SUFFICES ASSUME Typed, [Next]_vars PROVE TimeTyped'  OBVIOUS
<1> USE DEF doc, world, poller, ghost, vars
<1>t. /\ water \in [Guids -> Conditions] /\ heard \in [Guids -> Silences]
      /\ cooled \in [Guids -> SUBSET Ids] /\ Here \subseteq Guids /\ ctrls \in [Here -> Tidy]
      /\ "nothing" \in Conditions /\ "never" \in Silences /\ "long" \in Silences
  BY DEF Typed, DocTyped, TimeTyped, Conditions, Silences
<1>1. ASSUME UNCHANGED <<water, heard, cooled>> PROVE TimeTyped'  BY <1>1, <1>t DEF TimeTyped
<1>2. ASSUME UNCHANGED <<water, cooled>>, heard' \in [Guids -> Silences] PROVE TimeTyped'
  BY <1>2, <1>t DEF TimeTyped
<1>3. ASSUME NEW gs, Forget(gs), UNCHANGED heard PROVE TimeTyped'  BY <1>3, <1>t DEF Forget, TimeTyped
<1>4. CASE Tick  BY <1>2, <1>4, <1>t DEF Tick
<1>5. ASSUME NEW g \in Guids, PollController(g) PROVE TimeTyped'
  <2>1. heard' \in [Guids -> Silences]  BY <1>5, PollStep
  <2>2. UNCHANGED <<water, cooled>>  BY <1>5 DEF PollController
  <2> QED  BY <1>2, <2>1, <2>2
<1>6. CASE Persist
  <2>1. UNCHANGED <<water, heard>>  BY <1>6 DEF Persist
  <2>2. cooled' \in [Guids -> SUBSET Ids]
    <3> DEFINE g == job.guid
               left == {i \in cooled[g] : Merged(ctrls[g].rules)[i].notified /\ \A w \in requests : w.rule # i}
    <3>1. cooled' = cooled \/ (g \in Here /\ cooled' = [cooled EXCEPT ![g] = left])
      BY <1>6 DEF Persist
    <3>2. g \in Here => left \subseteq Ids  BY <1>t
    <3> HIDE DEF left, g
    <3> QED  BY <1>t, <3>1, <3>2
  <2> QED  BY <1>t, <2>1, <2>2 DEF TimeTyped
<1>7. CASE Restart
  <2>1. \A c \in Tidy : c.since \in Silences  BY DEF Tidy, Registered
  <2>2. heard' = [g \in Guids |-> IF g \in Here THEN ctrls[g].since ELSE "never"]  BY <1>7 DEF Restart
  <2>3. heard' \in [Guids -> Silences]  BY <1>t, <2>1, <2>2
  <2>4. UNCHANGED <<water, cooled>>  BY <1>7 DEF Restart
  <2> QED  BY <1>2, <2>3, <2>4
<1>8. ASSUME NEW g \in Guids, NEW h \in Guids, RotateController(g, h) PROVE TimeTyped'
  BY <1>8, <1>t DEF RotateController, TimeTyped
<1>9. ASSUME NEW g \in Guids, NEW c \in Conditions, Turn(g, c) PROVE TimeTyped'
  BY <1>9, <1>t DEF Turn, TimeTyped
<1>10. ASSUME NEW g \in Guids, NEW i \in Ids, Cooled(g, i) PROVE TimeTyped'
  BY <1>10, <1>t DEF Cooled, TimeTyped
<1>11. ASSUME NEW g \in Guids, LongSilence(g) PROVE TimeTyped'
  BY <1>2, <1>11, <1>t DEF LongSilence
<1>12. CASE Requests
  <2>1. ASSUME NEW g \in Guids, DeleteController(g) PROVE TimeTyped'  BY <1>3, <2>1 DEF DeleteController
  <2>2. CASE ClearHousehold \/ DropHousehold  BY <1>3, <2>2 DEF ClearHousehold, DropHousehold
  <2> QED  BY <1>1, <1>8, <1>12, <2>1, <2>2 DEF Requests, Register, ChangePreset, PutRules, Ruled, FoundHousehold, Park, Resume
<1>13. CASE Poller
  BY <1>1, <1>4, <1>5, <1>6, <1>13 DEF Poller, PersistFails, Send, SendFails, DrainEnds, NothingToSend, DropStale, Post,
     Rejected, Unavailable, Pop, PopFails, Delivered
<1>14. CASE World  BY <1>1, <1>7, <1>9, <1>10, <1>11, <1>14 DEF World, HourPasses
<1>15. CASE UNCHANGED vars  BY <1>1, <1>15
<1> QED  BY <1>12, <1>13, <1>14, <1>15 DEF Next

\* What the history says of a rule.
Sayings == Alarms \cup {"none", "ended", "recover", "lost"}

\* Noting a word changes nothing but words.
LEMMA NoteTyped ==
  ASSUME said \in [Guids -> [Ids -> Sayings]], NEW g, NEW is, NEW what \in Sayings
  PROVE  Note(g, is, what) \in [Guids -> [Ids -> Sayings]]
BY DEF Note

\* What was last said of each rule.
LEMMA SaidStep == Typed /\ [Next]_vars => said' \in [Guids -> [Ids -> Sayings]]
<1> DEFINE Good == said' \in [Guids -> [Ids -> Sayings]]
<1> SUFFICES ASSUME Typed, [Next]_vars PROVE Good  OBVIOUS
<1> USE DEF doc, world, poller, ghost, vars
<1>t. /\ said \in [Guids -> [Ids -> Sayings]] /\ Here \subseteq Guids
      /\ {"none", "ended", "recover", "lost"} \subseteq Sayings /\ Alarms \subseteq Sayings /\ requests \subseteq Word
  BY DEF Typed, DocTyped, TickTyped, HistoryTyped, Sayings
<1>1. ASSUME said' = said PROVE Good  BY <1>1, <1>t
<1>2. ASSUME NEW g, NEW is, NEW what \in Sayings, said' = Note(g, is, what) PROVE Good  BY <1>2, <1>t, NoteTyped
<1>3. ASSUME NEW w, NEW what \in Sayings PROVE NoteWord(w, what) \in [Guids -> [Ids -> Sayings]]
  BY <1>t, <1>3, NoteTyped DEF NoteWord
<1>l. ASSUME NEW n \in [Guids -> [Ids -> Sayings]], NEW g, NEW i
      PROVE  [n EXCEPT ![g][i] = "lost"] \in [Guids -> [Ids -> Sayings]]
  <2>1. "lost" \in Sayings  BY <1>t
  <2>2. CASE g \in Guids
    <3>1. n[g] \in [Ids -> Sayings]  BY <2>2
    <3>2. [n[g] EXCEPT ![i] = "lost"] \in [Ids -> Sayings]  BY <2>1, <3>1
    <3> QED  BY <3>2
  <2>3. CASE g \notin Guids
    <3>1. [n EXCEPT ![g][i] = "lost"] = n  BY <2>3
    <3> QED  BY <3>1
  <2> QED  BY <2>2, <2>3
<1>4. ASSUME NEW gs, Forget(gs) PROVE Good  BY <1>4, <1>t DEF Forget
<1>5. ASSUME NEW g \in Guids, NEW h \in Guids, RotateController(g, h) PROVE Good
  BY <1>5, <1>t DEF RotateController
<1>6. CASE Persist
  <2>1. said' = said \/ said' = Note(job.guid, Over(job.guid, Merged(ctrls[job.guid].rules)) \ {w.rule : w \in requests}, "none")
    BY <1>6 DEF Persist
  <2> QED  BY <1>1, <1>2, <1>t, <2>1
<1>7. ASSUME NEW w \in requests, Send(w) PROVE Good
  <2> DEFINE word == IF w.transition = "recover" THEN "recover" ELSE w.severity
             what == IF Stands(w) THEN word ELSE "none"
             q == Append(outbox, w)
  <2>1. said' = NoteWord(w, what) \/ said' = [NoteWord(w, what) EXCEPT ![q[1].guid][q[1].rule] = "lost"]
    BY <1>7 DEF Send
  <2>2. what \in Sayings
    <3>1. w.severity \in Alarms  BY <1>t DEF Word
    <3> QED  BY <1>t, <3>1
  <2> HIDE DEF what, q
  <2> DEFINE n == NoteWord(w, what)
  <2>3. n \in [Guids -> [Ids -> Sayings]]  BY <1>3, <2>2
  <2>4. said' = n \/ said' = [n EXCEPT ![q[1].guid][q[1].rule] = "lost"]  BY <2>1
  <2> HIDE DEF n
  <2>5. [n EXCEPT ![q[1].guid][q[1].rule] = "lost"] \in [Guids -> [Ids -> Sayings]]  BY <1>l, <2>3
  <2> QED  BY <2>3, <2>4, <2>5
<1>8. ASSUME NEW w, said' = NoteWord(w, "lost") PROVE Good  BY <1>3, <1>8, <1>t
<1>9. CASE Restart  BY <1>9, <1>t DEF Restart
<1>10. CASE Requests
  <2>1. ASSUME NEW g, NEW c, Ruled(g, c) PROVE Good
    <3>1. said' = Note(g, Hushed(g, c.memory), Removed(g)) /\ Removed(g) \in Sayings  BY <1>t, <2>1 DEF Ruled, Removed
    <3> QED  BY <1>2, <3>1
  <2>2. ASSUME NEW g \in Guids, DeleteController(g) PROVE Good  BY <1>4, <2>2 DEF DeleteController
  <2>3. CASE ClearHousehold \/ DropHousehold  BY <1>4, <2>3 DEF ClearHousehold, DropHousehold
  <2> QED  BY <1>1, <1>5, <1>10, <2>1, <2>2, <2>3 DEF Requests, Register, ChangePreset, PutRules, FoundHousehold, Park, Resume
<1>11. CASE Poller
  BY <1>1, <1>6, <1>7, <1>8, <1>11 DEF Poller, Tick, PollController, PersistFails, SendFails, DrainEnds, NothingToSend,
     DropStale, Post, Rejected, Unavailable, Pop, PopFails, Delivered
<1>12. CASE World  BY <1>1, <1>9, <1>12 DEF World, Turn, Cooled, LongSilence, HourPasses
<1>13. CASE UNCHANGED vars  BY <1>1, <1>13
<1> QED  BY <1>10, <1>11, <1>12, <1>13 DEF Next

\* The bound on what happens.
LEMMA CountStep == Typed /\ [Next]_vars => events' \in 0..MaxEvents
<1> SUFFICES ASSUME Typed, [Next]_vars PROVE events' \in 0..MaxEvents  OBVIOUS
<1> USE DEF doc, world, poller, ghost, vars
<1>1. Event \/ Free
  <2>1. CASE Requests
    BY <2>1 DEF Requests, Register, ChangePreset, PutRules, DeleteController, RotateController, ClearHousehold,
       DropHousehold, FoundHousehold, Park, Resume
  <2>2. CASE Poller
    BY <2>2 DEF Poller, Tick, PollController, Persist, PersistFails, Send, SendFails, NothingToSend,
       DropStale, Post, Rejected, Unavailable, Pop, PopFails, Delivered
  <2>3. CASE World  BY <2>3 DEF World, Restart, Turn, Cooled, LongSilence, HourPasses
  <2>4. CASE UNCHANGED vars  BY <2>4 DEF Free
  <2> QED  BY <2>1, <2>2, <2>3, <2>4 DEF Next
<1>2. /\ events \in 0..MaxEvents /\ MaxEvents \in Nat
  BY BoundsAssumption DEF Typed, HistoryTyped
<1>3. CASE Event  BY <1>2, <1>3 DEF Event
<1>4. CASE Free  BY <1>2, <1>4 DEF Free
<1> QED  BY <1>1, <1>3, <1>4

\* The other histories.
LEMMA HistoryStep == Typed /\ [Next]_vars => HistoryTyped'
<1> SUFFICES ASSUME Typed, [Next]_vars PROVE HistoryTyped'  OBVIOUS
<1> USE DEF doc, world, poller, ghost, vars
<1>t. /\ owner \in [Guids -> 0..MaxHouseholds] /\ strays \subseteq Guids /\ failing \in BOOLEAN
      /\ told \in [Guids -> [Ids -> BOOLEAN]]
      /\ founded \in 0..MaxHouseholds /\ \A k \in DOMAIN outbox : outbox[k].guid \in Guids
  <2>1. founded \in 0..MaxHouseholds
    <3>1. founded \in 1..MaxHouseholds /\ MaxHouseholds \in Nat  BY LimitAssumption DEF Typed, DocTyped
    <3> QED  BY <3>1
  <2>2. \A k \in DOMAIN outbox : outbox[k].guid \in Guids
    <3>1. outbox \in Seq(Word)  BY DEF Typed, QueueTyped
    <3>2. \A k \in DOMAIN outbox : outbox[k] \in Word  BY <3>1
    <3> QED  BY <3>2 DEF Word
  <2> QED  BY <2>1, <2>2 DEF Typed, HistoryTyped
<1>0. said' \in [Guids -> [Ids -> Alarms \cup {"none", "ended", "recover", "lost"}]]
      /\ events' \in 0..MaxEvents
  BY SaidStep, CountStep DEF Sayings
<1>1. ASSUME owner' \in [Guids -> 0..MaxHouseholds], strays' \subseteq Guids, failing' \in BOOLEAN,
             told' \in [Guids -> [Ids -> BOOLEAN]]
      PROVE  HistoryTyped'
  BY <1>0, <1>1 DEF HistoryTyped
<1>2. ASSUME UNCHANGED <<owner, strays, failing, told>> PROVE HistoryTyped'  BY <1>1, <1>2, <1>t
<1>3. ASSUME UNCHANGED <<owner, strays, told>>, failing' \in BOOLEAN PROVE HistoryTyped'  BY <1>1, <1>3, <1>t
<1>4. ASSUME NEW gs, Forget(gs), UNCHANGED <<owner, failing>>, strays' \subseteq Guids PROVE HistoryTyped'
  BY <1>1, <1>4, <1>t DEF Forget
<1>5. ASSUME NEW g \in Guids, NEW p, Register(g, p) PROVE HistoryTyped'  BY <1>1, <1>5, <1>t DEF Register
<1>6. ASSUME NEW g \in Guids, NEW h \in Guids, RotateController(g, h) PROVE HistoryTyped'
  BY <1>1, <1>6, <1>t DEF RotateController
<1>7. ASSUME NEW g \in Guids, DeleteController(g) PROVE HistoryTyped'  BY <1>4, <1>7, <1>t DEF DeleteController
<1>8. CASE ClearHousehold  BY <1>4, <1>8, <1>t DEF ClearHousehold
<1>9. CASE DropHousehold
  <2>1. strays' \subseteq Guids  BY <1>9, <1>t DEF DropHousehold
  <2> QED  BY <1>4, <1>9, <2>1 DEF DropHousehold
<1>10. CASE FoundHousehold
  <2>1. strays' \subseteq Guids  BY <1>10, <1>t DEF FoundHousehold
  <2> QED  BY <1>1, <1>10, <1>t, <2>1 DEF FoundHousehold
<1>11. ASSUME NEW g \in Guids, NEW i \in Ids, Delivered(g, i) PROVE HistoryTyped'
  <2> DEFINE b == g \in Here /\ head.transition # "recover"
  <2>1. told' = [told EXCEPT ![g][i] = b] /\ UNCHANGED <<owner, strays, failing>>  BY <1>11 DEF Delivered
  <2>2. b \in BOOLEAN  OBVIOUS
  <2> HIDE DEF b
  <2>3. told' \in [Guids -> [Ids -> BOOLEAN]]  BY <1>t, <2>1, <2>2
  <2> QED  BY <1>1, <1>t, <2>1, <2>3
<1>12. CASE Tick \/ Unavailable \/ Restart  BY <1>3, <1>12 DEF Tick, Unavailable, DrainEnds, Restart
<1>13. CASE Requests
  BY <1>2, <1>5, <1>6, <1>7, <1>8, <1>9, <1>10, <1>13 DEF Requests, ChangePreset, PutRules, Ruled, Park, Resume
<1>14. CASE Poller
  BY <1>2, <1>11, <1>12, <1>14 DEF Poller, PollController, Persist, PersistFails, Send, SendFails, DrainEnds,
     NothingToSend, DropStale, Post, Rejected, Pop, PopFails
<1>15. CASE World  BY <1>2, <1>12, <1>15 DEF World, Turn, Cooled, LongSilence, HourPasses
<1>16. CASE UNCHANGED vars  BY <1>2, <1>16
<1> QED  BY <1>13, <1>14, <1>15, <1>16 DEF Next

-----------------------------------------------------------------------------
(* Whose words the tick and the queue hold.                                *)

\* What belongs to the household keeps belonging to it, until the household
\* goes or another one is founded.
LEMMA ProperStep ==
  ASSUME Typed, [Next]_vars, ~DropHousehold, ~FoundHousehold, NEW k \in Guids, Proper(k)
  PROVE  Proper(k)'
<1> USE DEF doc, world, poller, ghost, vars
<1>1. ASSUME UNCHANGED <<stage, founded, owner, strays>> PROVE Proper(k)'  BY <1>1 DEF Proper, Token
<1>2. ASSUME NEW g \in Guids, stage = "paired", UNCHANGED <<stage, founded, strays>>,
             owner' = [owner EXCEPT ![g] = founded]
      PROVE  Proper(k)'
  <2>1. owner \in [Guids -> 0..MaxHouseholds]  BY DEF Typed, HistoryTyped
  <2>2. Token = founded /\ Token' = founded  BY <1>2 DEF Token
  <2>3. owner'[k] = IF k = g THEN founded ELSE owner[k]  BY <1>2, <2>1
  <2> QED  BY <1>2, <2>2, <2>3 DEF Proper
<1>3. CASE Requests
  <2>1. CASE ClearHousehold  BY <2>1 DEF ClearHousehold, Proper, Token
  <2> QED
    BY <1>1, <1>2, <1>3, <2>1 DEF Requests, Register, ChangePreset, PutRules, Ruled, DeleteController,
       RotateController, Park, Resume
<1>4. CASE Poller
  BY <1>1, <1>4 DEF Poller, Tick, PollController, Persist, PersistFails, Send, SendFails, DrainEnds, NothingToSend,
     DropStale, Post, Rejected, Unavailable, Pop, PopFails, Delivered
<1>5. CASE World  BY <1>1, <1>5 DEF World, Restart, Turn, Cooled, LongSilence, HourPasses
<1>6. CASE UNCHANGED vars  BY <1>1, <1>6
<1> QED  BY <1>3, <1>4, <1>5, <1>6 DEF Next

\* Without devices there are no controllers, and those there are belong to
\* the household.
LEMMA HereStep == Typed /\ OwnedHere /\ [Next]_vars => OwnedHere'
<1> SUFFICES ASSUME Typed, OwnedHere, [Next]_vars PROVE OwnedHere'  OBVIOUS
<1> USE DEF doc, world, poller, ghost, vars
<1>t. /\ owner \in [Guids -> 0..MaxHouseholds] /\ Here \subseteq Guids
      /\ stage # "paired" => Here = {}
      /\ \A g \in Here : owner[g] = founded
  BY DEF Typed, DocTyped, HistoryTyped, OwnedHere
<1>1. ASSUME Here' \subseteq Here, UNCHANGED <<stage, founded, owner>> PROVE OwnedHere'  BY <1>1, <1>t DEF OwnedHere
<1>2. ASSUME UNCHANGED <<ctrls, stage, founded, owner>> PROVE OwnedHere'
  <2>1. Here' = Here  BY <1>2 DEF Here
  <2> QED  BY <1>1, <1>2, <2>1
<1>3. ASSUME ctrls' = NoControllers, UNCHANGED <<founded, owner>> PROVE OwnedHere'
  <2>1. Here' = {}  BY <1>3 DEF Here, NoControllers
  <2> QED  BY <2>1 DEF OwnedHere
<1>4. ASSUME NEW g \in Guids, Here' \subseteq Here \cup {g}, stage = "paired", UNCHANGED <<stage, founded>>,
             owner' = [owner EXCEPT ![g] = founded]
      PROVE  OwnedHere'
  BY <1>4, <1>t DEF OwnedHere
<1>5. ASSUME NEW g \in Guids, NEW p, Register(g, p) PROVE OwnedHere'
  <2>1. Here' = Here \cup {g}  BY <1>5 DEF Register, Set, Here
  <2> QED  BY <1>4, <1>5, <2>1 DEF Register
<1>6. ASSUME NEW g \in Here, NEW c, Ruled(g, c) PROVE OwnedHere'
  <2>1. Here' = Here  BY <1>6 DEF Ruled, Set, Here
  <2> QED  BY <1>1, <1>6, <2>1 DEF Ruled
<1>7. ASSUME NEW g \in Guids, DeleteController(g) PROVE OwnedHere'
  <2>1. Here' \subseteq Here  BY <1>7 DEF DeleteController, Restrict, Here
  <2> QED  BY <1>1, <1>7, <2>1 DEF DeleteController
<1>8. ASSUME NEW g \in Guids, NEW h \in Guids, RotateController(g, h) PROVE OwnedHere'
  <2>1. Here' \subseteq Here \cup {h}  BY <1>8 DEF RotateController, Here
  <2> QED  BY <1>4, <1>8, <2>1 DEF RotateController
<1>9. CASE ClearHousehold \/ DropHousehold  BY <1>3, <1>9 DEF ClearHousehold, DropHousehold
<1>10. CASE FoundHousehold
  <2>1. Here = {} /\ Here' = Here  BY <1>10, <1>t DEF FoundHousehold, Here
  <2> QED  BY <2>1 DEF OwnedHere
<1>11. ASSUME ctrls \in [Here -> Tidy], UNCHANGED <<stage, founded, owner>>,
              Persist \/ Restart \/ \E g \in Guids : LongSilence(g)
       PROVE  OwnedHere'
  <2>1. Here' = Here
    <3>1. CASE Persist  BY <3>1 DEF Persist, Here
    <3>2. CASE Restart  BY <3>2 DEF Restart, Here
    <3>3. CASE \E g \in Guids : LongSilence(g)  BY <3>3 DEF LongSilence, Here
    <3> QED  BY <1>11, <3>1, <3>2, <3>3
  <2> QED  BY <1>1, <1>11, <2>1
<1>12. ctrls \in [Here -> Tidy]  BY DEF Typed, DocTyped
<1>13. CASE Requests
  BY <1>2, <1>5, <1>6, <1>7, <1>8, <1>9, <1>10, <1>13 DEF Requests, ChangePreset, PutRules, Park, Resume
<1>14. CASE Poller
  <2>1. CASE Persist  BY <1>11, <1>12, <2>1 DEF Persist
  <2> QED
    BY <1>2, <1>14, <2>1 DEF Poller, Tick, PollController, PersistFails, Send, SendFails, DrainEnds, NothingToSend,
       DropStale, Post, Rejected, Unavailable, Pop, PopFails, Delivered
<1>15. CASE World
  BY <1>2, <1>11, <1>12, <1>15 DEF World, Restart, LongSilence, Turn, Cooled, HourPasses
<1>16. CASE UNCHANGED vars  BY <1>2, <1>16
<1> QED  BY <1>13, <1>14, <1>15, <1>16 DEF Next

\* The tick works on the household's controllers, or on strays: a drop and a
\* founding in the middle of it make strays of what it has in hand.
LEMMA FlightStep == Typed /\ OwnedHere /\ OwnedInFlight /\ [Next]_vars => OwnedInFlight'
<1> SUFFICES ASSUME Typed, OwnedHere, OwnedInFlight, [Next]_vars, NEW k \in InFlight' \cap Guids
             PROVE  Proper(k)'
  BY DEF OwnedInFlight
<1>1. k \in Guids /\ k # NoGuid  BY GuidAssumption
<1>2. k \in InFlight \cup Here  BY <1>1, TickStep
<1>3. Proper(k)
  <2>1. CASE k \in InFlight  BY <1>1, <2>1 DEF OwnedInFlight
  <2>2. CASE k \in Here  BY <2>2 DEF OwnedHere, Proper, Token
  <2> QED  BY <1>2, <2>1, <2>2
<1>4. CASE DropHousehold \/ FoundHousehold
  <2>1. UNCHANGED <<tick, requests, job>>  BY <1>4 DEF DropHousehold, FoundHousehold, poller
  <2>2. InFlight' = InFlight  BY <2>1 DEF InFlight
  <2>3. k \in strays'  BY <1>1, <1>4, <2>2 DEF DropHousehold, FoundHousehold
  <2> QED  BY <2>3 DEF Proper
<1>5. CASE ~DropHousehold /\ ~FoundHousehold  BY <1>1, <1>3, <1>5, ProperStep
<1> QED  BY <1>4, <1>5

\* A queued word was queued before, or is one of the tick's: both belong to the
\* household, or are strays.
LEMMA QueueOwnStep == Typed /\ OwnedInFlight /\ QueueOfOwn /\ [Next]_vars => QueueOfOwn'
<1> SUFFICES ASSUME Typed, OwnedInFlight, QueueOfOwn, [Next]_vars,
                    NEW k \in DOMAIN outbox', NEW g, g = outbox'[k].guid
             PROVE  Proper(g)'
  BY DEF QueueOfOwn, Proper
<1>1. (\E j \in DOMAIN outbox : g = outbox[j].guid) \/ (\E w \in requests : g = w.guid)  BY QueueStep
<1>2. /\ \A j \in DOMAIN outbox : outbox[j].guid \in Guids
      /\ \A w \in requests : w.guid \in Guids
  <2>1. outbox \in Seq(Word) /\ requests \subseteq Word  BY DEF Typed, QueueTyped, TickTyped
  <2>2. \A j \in DOMAIN outbox : outbox[j] \in Word  BY <2>1
  <2> QED  BY <2>1, <2>2 DEF Word
<1>3. g \in Guids /\ Proper(g)
  BY <1>1, <1>2 DEF QueueOfOwn, OwnedInFlight, InFlight, Proper
<1>4. CASE DropHousehold  BY <1>4 DEF DropHousehold, OutboxAfterDrop
<1>5. CASE FoundHousehold
  <2>1. outbox' = outbox  BY <1>5 DEF FoundHousehold
  <2>2. g \in strays'  BY <1>5, <2>1 DEF FoundHousehold
  <2> QED  BY <2>2 DEF Proper
<1>6. CASE ~DropHousehold /\ ~FoundHousehold  BY <1>3, <1>6, ProperStep
<1> QED  BY <1>4, <1>5, <1>6

-----------------------------------------------------------------------------
(* The theorems.                                                           *)

\* The inductive invariant holds in every state the program reaches.
THEOREM Invariance == Spec => []IInv
<1>1. IInv /\ [Next]_vars => IInv'
  <2> SUFFICES ASSUME IInv, [Next]_vars PROVE IInv'  OBVIOUS
  <2>1. Typed /\ OwnedHere /\ OwnedInFlight /\ QueueOfOwn  BY DEF IInv
  <2>2. Typed'
    BY <2>1, DocStep, QueueStep, TimeStep, TickStep, HistoryStep DEF Typed
  <2>3. OwnedHere' /\ OwnedInFlight' /\ QueueOfOwn'  BY <2>1, HereStep, FlightStep, QueueOwnStep
  <2> QED  BY <2>2, <2>3 DEF IInv
<1> QED  BY InitInv, <1>1, PTL DEF Spec

\* The strengthened memory is memory.
LEMMA MemoryIsRuleState == Memory \subseteq RuleState
BY DEF Memory

\* Every variable keeps its kind, whatever requests, faults and restarts come
\* between the steps of a tick: the memory merged back is one, the queue
\* never exceeds its limit.
THEOREM TypeCorrect == Spec => []TypeOK
<1>1. IInv => TypeOK
  <2> SUFFICES ASSUME IInv PROVE TypeOK  OBVIOUS
  <2>1. \A c \in Tidy : c \in Controller  BY MemoryIsRuleState DEF Tidy, Registered, Controller
  <2>2. [guid : Guids \cup {NoGuid}, memory : [Ids -> Memory], since : Silences]
          \subseteq [guid : Guids \cup {NoGuid}, memory : [Ids -> RuleState], since : Silences]
    BY MemoryIsRuleState
  <2>3. DocTyped /\ QueueTyped /\ TimeTyped /\ TickTyped /\ HeadTyped /\ HistoryTyped  BY DEF IInv, Typed
  <2>4. /\ \A g \in Here : ctrls[g] \in Controller
        /\ \A g \in DOMAIN tick : tick[g] \in Controller
    BY <2>1, <2>3 DEF DocTyped, TickTyped
  <2>5. job \in [guid : Guids \cup {NoGuid}, memory : [Ids -> RuleState], since : Silences]
    BY <2>2, <2>3 DEF TickTyped
  <2>6. /\ stage \in {"paired", "cleared", "none"} /\ founded \in 1..MaxHouseholds /\ parked \in BOOLEAN
        /\ Here \subseteq Guids
    BY <2>3 DEF DocTyped
  <2>7. /\ pc \in {"idle", "poll", "persist", "send", "look", "post", "pop"}
        /\ DOMAIN tick \subseteq Guids /\ requests \subseteq Word /\ drained \in BOOLEAN
    BY <2>3 DEF TickTyped
  <2>8. /\ outbox \in Seq(Word) /\ Len(outbox) <= OutboxLimit
        /\ water \in [Guids -> Conditions] /\ heard \in [Guids -> Silences]
        /\ cooled \in [Guids -> SUBSET Ids] /\ head \in Word \cup {NoWord}
    BY <2>3 DEF QueueTyped, TimeTyped, HeadTyped
  <2>9. /\ owner \in [Guids -> 0..MaxHouseholds] /\ strays \subseteq Guids /\ failing \in BOOLEAN
        /\ said \in [Guids -> [Ids -> Alarms \cup {"none", "ended", "recover", "lost"}]]
        /\ told \in [Guids -> [Ids -> BOOLEAN]]
        /\ events \in 0..MaxEvents
    BY <2>3 DEF HistoryTyped
  <2> QED  BY <2>4, <2>5, <2>6, <2>7, <2>8, <2>9, ZenonT(30) DEF TypeOK
<1> QED  BY Invariance, <1>1, PTL

\* No word of one household is queued for the token of another, but those of
\* the tick that was under way when the household went or the new one was
\* founded, and those the founding found in the queue.
THEOREM OnlyOwnWords == Spec => []QueueOfOwn
<1>1. IInv => QueueOfOwn  BY DEF IInv
<1> QED  BY Invariance, <1>1, PTL

-----------------------------------------------------------------------------
(* What the rules have said, and what their memory has to do with it.      *)

\* An id names one kind of rule, whichever rule set it is found in.
IdsKeepTheirKind == \A r, s \in Rules : r.id = s.id => r.kind = s.kind /\ r.type = s.type

\* What a rule's memory and the last word queued about it have to do with each
\* other, once nothing more is to be said...
Agrees(rs, s) == s \in {"lost", "ended"} \cup (IF rs.notified THEN {rs.last} ELSE {"recover", "none"})
\* ...and while a word waits: what was said before it, and the memory it came of.
WordFits(w, s) == IF w.transition = "enter" THEN s # w.severity ELSE s \in {w.severity, "lost", "ended"}
MemoryFits(w, rs) == IF w.transition = "recover" THEN ~rs.notified ELSE rs.notified /\ rs.last = w.severity
\* The rule may have been removed while the word waited.
Fits(words, rs, s) ==
    /\ \A w \in words : WordFits(w, s) /\ (MemoryFits(w, rs) \/ (~rs.notified /\ Agrees(rs, s)))
    /\ words = {} => Agrees(rs, s)

\* A watchdog that has notified remembers that it was about silence.
StaleMemory(memory) ==
    \A r \in Rules : r.kind = "stale" /\ memory[r.id].notified => memory[r.id].last = "stale"

About(w, g, i) == w.guid = g /\ w.rule = i
Pending(g, i)  == {w \in requests : pc # "persist" /\ About(w, g, i)}

\* An identity that was never registered is nowhere.
Unknown(g) ==
    /\ g \notin Here \cup InFlight /\ \A k \in DOMAIN outbox : outbox[k].guid # g
    /\ pc \in {"post", "pop"} => head.guid # g
    /\ \A i \in Ids : said[g][i] \in {"none", "ended", "lost"}
Newcomers == \A g \in Guids : owner[g] = 0 => Unknown(g)

\* The words a tick has in hand: of one controller, one for each rule, and not
\* of those it has still to poll.
InHand ==
    /\ pc \in {"idle", "poll"} => requests = {}
    /\ \A w \in requests : w.guid \notin DOMAIN tick
    /\ pc = "persist" => job.guid \notin DOMAIN tick /\ \A w \in requests : w.guid = job.guid
    /\ \A w, x \in requests : w.guid = x.guid /\ w.rule = x.rule => w = x

RuleSetsFit(cs) == \A g \in DOMAIN cs : OneEach(cs[g].rules) /\ StaleMemory(cs[g].memory)
SetsFit == RuleSetsFit(ctrls) /\ RuleSetsFit(tick) /\ StaleMemory(job.memory)

\* What the document remembers, what the tick has still to poll and what it is
\* about to persist each fit the last word queued.
SaidAgrees == \A g \in Here, i \in Ids : Fits(Pending(g, i), ctrls[g].memory[i], said[g][i])
TickAgrees == \A g \in Here \cap DOMAIN tick, i \in Ids : Agrees(tick[g].memory[i], said[g][i])
JobAgrees ==
    pc = "persist" /\ job.guid \in Here => \A i \in Ids :
        LET mine == {w \in requests : w.rule = i}
            s    == said[job.guid][i]
        IN /\ \A w \in mine : WordFits(w, s) /\ MemoryFits(w, job.memory[i])
           /\ mine = {} /\ job.memory[i].notified => Agrees(job.memory[i], s)

EInv == Newcomers /\ InHand /\ SetsFit /\ SaidAgrees /\ TickAgrees /\ JobAgrees

-----------------------------------------------------------------------------
\* What a poll of a rule makes of memory that agreed with what was said.
OutcomeFits(out, r, s) ==
    /\ out.says = Silent /\ out.memory.notified => Agrees(out.memory, s)
    /\ out.says # Silent => WordFits(out.says, s) /\ MemoryFits(out.says, out.memory)
    /\ r.kind = "stale" /\ out.memory.notified => out.memory.last = "stale"

\* One poll of one rule whose memory agrees with what was said: whatever it
\* says fits what was said before and the memory it leaves.
LEMMA OnePollSays ==
  ASSUME NEW r \in Rules, NEW rs \in Memory, NEW observed, NEW silence, NEW due \in BOOLEAN, NEW s,
         Agrees(rs, s), r.kind = "stale" /\ rs.notified => rs.last = "stale"
  PROVE  OutcomeFits(Step(r, rs, observed, silence, due), r, s)
<1> DEFINE Apt(out) == /\ out.says = Silent /\ out.memory.notified => Agrees(out.memory, s)
                       /\ out.says # Silent => WordFits(out.says, s) /\ MemoryFits(out.says, out.memory)
           Watch(out) == r.kind = "stale" /\ out.memory.notified => out.memory.last = "stale"
<1>t. /\ rs \in RuleState /\ rs.last \in Severities \cup {"stale"} /\ rs.notified \in BOOLEAN
      /\ s \in {"lost", "ended"} \cup (IF rs.notified THEN {rs.last} ELSE {"recover", "none"})
  BY DEF Memory, RuleState, Agrees
\* Memory that keeps what was notified.
<1>1. ASSUME NEW m, m.last = rs.last, m.notified = rs.notified
      PROVE  Apt(Outcome(m, Silent)) /\ Apt(Standing(m, due)) /\ Watch(Outcome(m, Silent)) /\ Watch(Standing(m, due))
  <2>1. Agrees(m, s)  BY <1>1 DEF Agrees
  <2>2. Apt(Outcome(m, Silent)) /\ Watch(Outcome(m, Silent))  BY <1>1, <2>1 DEF Outcome
  <2>3. m.notified => Apt(Outcome(m, Says("renotify", m.last))) /\ Watch(Outcome(m, Says("renotify", m.last)))
    BY <1>1, <1>t DEF Outcome, Says, Silent, WordFits, MemoryFits
  <2> HIDE DEF Apt, Watch
  <2> QED  BY <1>1, <2>2, <2>3 DEF Standing, RenotifyDue
\* Memory that has not notified.
<1>2. ASSUME NEW m, ~m.notified
      PROVE  /\ Apt(Outcome(m, Silent)) /\ Watch(Outcome(m, Silent))
             /\ rs.notified => Apt(Outcome(m, Says("recover", rs.last))) /\ Watch(Outcome(m, Says("recover", rs.last)))
  BY <1>2, <1>t DEF Outcome, Says, Silent, WordFits, MemoryFits
\* Memory that has just been notified of something else.
<1>3. ASSUME NEW m, m.notified, m.last \in Alarms, rs.notified => m.last # rs.last
      PROVE  Apt(Outcome(m, Says("enter", m.last)))
  BY <1>3, <1>t DEF Outcome, Says, Silent, WordFits, MemoryFits, Alarms
<1> HIDE DEF Apt, Watch
<1>4. ASSUME r.kind = "stale" PROVE Apt(StepStale(r, rs, silence, due)) /\ Watch(StepStale(r, rs, silence, due))
  <2> DEFINE up == [rs EXCEPT !.last = "ok", !.notified = FALSE]
             down == [rs EXCEPT !.last = "stale", !.notified = TRUE]
  <2>1. ~up.notified /\ down.notified /\ down.last = "stale" /\ "stale" \in Alarms
    BY <1>t DEF RuleState, Alarms
  <2>2. Watch(Outcome(down, Says("enter", "stale")))  BY <2>1 DEF Watch, Outcome
  <2> HIDE DEF up, down
  <2>3. CASE silence = "never"  BY <1>1, <2>3 DEF StepStale
  <2>4. CASE silence = "long"
    BY <1>1, <1>3, <2>1, <2>2, <2>4 DEF StepStale, down
  <2>5. CASE silence \notin {"never", "long"}
    <3>1. rs.notified => rs.last = "stale"  BY <1>4
    <3> QED  BY <1>1, <1>2, <2>1, <2>5, <3>1 DEF StepStale, up
  <2> QED  BY <2>3, <2>4, <2>5
<1>5. ASSUME observed \in Severities, r.kind # "stale" PROVE Apt(StepBanded(r, rs, observed, due))
  <2> DEFINE polls == IF observed = rs.pending THEN rs.count + 1 ELSE 1
             waits == [rs EXCEPT !.pending = observed, !.count = polls]
             after == Committed(r, observed)
  <2>1. waits.last = rs.last /\ waits.notified = rs.notified  BY <1>t DEF RuleState
  <2>2. Unchanging(rs).last = rs.last /\ Unchanging(rs).notified = rs.notified  BY <1>t DEF Unchanging, RuleState
  <2>3. after.last = observed /\ after.notified = (observed \in r.notify)  BY DEF Committed, Fresh
  <2>4. after.notified => observed \in Alarms  BY <2>3, RulesNotify DEF Alarms
  <2> HIDE DEF waits, after
  <2>5. CASE observed = rs.last  BY <1>1, <2>2, <2>5 DEF StepBanded, Recovers
  <2>6. CASE observed # rs.last /\ polls < DebouncePolls  BY <1>1, <2>1, <2>6 DEF StepBanded, waits
  <2> HIDE DEF polls
  <2>7. CASE observed # rs.last /\ ~(polls < DebouncePolls)
    <3>1. StepBanded(r, rs, observed, due) =
            IF after.notified THEN Outcome(after, Says("enter", observed))
            ELSE Outcome(after, IF rs.notified /\ r.recovery THEN Says("recover", rs.last) ELSE Silent)
      BY <2>7 DEF StepBanded, Recovers, polls, after
    <3>2. CASE after.notified
      <4>1. Apt(Outcome(after, Says("enter", after.last)))  BY <1>3, <2>3, <2>4, <2>7, <3>2
      <4> QED  BY <2>3, <3>1, <3>2, <4>1
    <3>3. CASE ~after.notified
      <4>1. Apt(Outcome(after, Silent)) /\ (rs.notified => Apt(Outcome(after, Says("recover", rs.last))))  BY <1>2, <3>3
      <4> QED  BY <3>1, <3>3, <4>1
    <3> QED  BY <3>2, <3>3
  <2> QED  BY <2>5, <2>6, <2>7
<1>6. Apt(Outcome(rs, Silent)) /\ Watch(Outcome(rs, Silent))  BY <1>1
<1>7. Apt(Outcome(Fresh, Silent))  BY <1>2 DEF Fresh
<1>8. Apt(Step(r, rs, observed, silence, due))  BY <1>4, <1>5, <1>6, <1>7 DEF Step
<1>9. Watch(Step(r, rs, observed, silence, due))
  <2>1. CASE r.kind = "stale"  BY <1>4, <1>6, <2>1 DEF Step
  <2>2. CASE r.kind # "stale"  BY <2>2 DEF Watch
  <2> QED  BY <2>1, <2>2
<1> QED  BY <1>8, <1>9 DEF Apt, Watch, OutcomeFits

\* A word stays fitting when the rule loses its memory without a word, and
\* when what was said is lost or ended, or forgotten with nothing to be said.
LEMMA StillFits ==
  ASSUME NEW words \in SUBSET Word, NEW rs, NEW s, Fits(words, rs, s), NEW rsNew, NEW sNew,
         rsNew = rs \/ ~rsNew.notified,
         \/ sNew \in {"lost", "ended"}
         \/ sNew = s /\ (rsNew = rs \/ ~rs.notified)
         \/ sNew = "none" /\ ~rsNew.notified /\ words = {}
  PROVE  Fits(words, rsNew, sNew)
<1>1. \A w \in words : w.severity \notin {"lost", "ended"}  BY DEF Word, Alarms
<1> QED  BY <1>1 DEF Fits, WordFits, MemoryFits, Agrees

\* The rules that a preset asks for share no id, if those they are made of do not.
LEMMA SeedIsOneEach ==
  ASSUME IdsKeepTheirKind, NEW rules \in SUBSET Rules, OneEach(rules), NEW preset \in Presets
  PROVE  OneEach(ReconcileSeed(rules, preset))
<1> DEFINE kept == {r \in rules : ~Inapplicable(r, preset)}
           bands == {DefaultBandRule(t) : t \in {u \in Measures[preset] : ~Covers(kept, u)}}
           watch == IF \E r \in kept : r.kind = "stale" THEN {} ELSE {DefaultStaleRule}
<1>1. ReconcileSeed(rules, preset) = kept \cup bands \cup watch  BY DEF ReconcileSeed
<1>2. ReconcileSeed(rules, preset) \in SUBSET Rules  BY SeedIsRules
<1>3. \A r, s \in ReconcileSeed(rules, preset) : r.id = s.id => r.kind = s.kind /\ r.type = s.type
  BY <1>2 DEF IdsKeepTheirKind
<1>4. \A r, s \in kept : r.id = s.id => r = s  BY DEF OneEach
<1>5. \A r \in bands : r.kind = "band" /\ r = DefaultBandRule(r.type) /\ ~Covers(kept, r.type)  BY DEF DefaultBandRule
<1>6. \A r \in watch : r = DefaultStaleRule /\ r.kind = "stale" /\ \A q \in kept : q.kind # "stale"
  BY DEF DefaultStaleRule
<1> HIDE DEF bands, watch, kept
<1>7. ASSUME NEW r \in kept, NEW s \in bands \cup watch PROVE r.id # s.id
  BY <1>1, <1>3, <1>5, <1>6, <1>7 DEF Covers
<1>8. ASSUME NEW r \in bands \cup watch, NEW s \in bands \cup watch, r.id = s.id PROVE r = s
  <2>1. r.kind = s.kind /\ r.type = s.type  BY <1>1, <1>3, <1>8
  <2> QED  BY <1>5, <1>6, <1>8, <2>1
<1>9. ASSUME NEW r \in ReconcileSeed(rules, preset), NEW s \in ReconcileSeed(rules, preset), r.id = s.id PROVE r = s
  <2>1. r \in kept \cup (bands \cup watch) /\ s \in kept \cup (bands \cup watch)  BY <1>1, <1>9
  <2> QED  BY <1>4, <1>7, <1>8, <1>9, <2>1
<1> QED  BY <1>9 DEF OneEach
-----------------------------------------------------------------------------
(* Where identities and words come from.                                   *)

\* A rule without an alarm, of which no step under way has anything to say.
Calm(g, i) ==
    /\ ~ctrls'[g].memory[i].notified
    /\ g \notin InFlight \/ Restart \/ (Persist /\ g = job.guid /\ \A w \in requests : ~About(w, g, i))

\* What was said of a rule is lost or ended, unless a word about it is queued,
\* and forgotten only with the controller or once there is nothing to be said.
LEMMA SaidSoftens ==
  ASSUME Typed, Newcomers, InHand, [Next]_vars, NEW g \in Guids, NEW i \in Ids
  PROVE  \/ said'[g][i] \in {said[g][i], "lost", "ended"}
         \/ said'[g][i] = "none" /\ (g \notin Here' \/ Calm(g, i))
         \/ \E w \in requests : Send(w) /\ About(w, g, i) /\ g \in Here
<1> DEFINE Good == \/ said'[g][i] \in {said[g][i], "lost", "ended"}
                   \/ said'[g][i] = "none" /\ (g \notin Here' \/ Calm(g, i))
                   \/ \E w \in requests : Send(w) /\ About(w, g, i) /\ g \in Here
<1> USE DEF doc, world, poller, ghost, vars
<1>t. said \in [Guids -> [Ids -> Sayings]] /\ Here \subseteq Guids
  BY DEF Typed, DocTyped, HistoryTyped, Sayings
<1>1. ASSUME said' = said PROVE Good  BY <1>1
<1>2. ASSUME NEW h, NEW is, NEW what
      PROVE  Note(h, is, what)[g][i] = IF g = h /\ i \in is THEN what ELSE said[g][i]
  BY <1>t DEF Note
<1>n. ASSUME NEW w, NEW what
      PROVE  NoteWord(w, what)[g][i] = IF About(w, g, i) /\ g \in Here THEN what ELSE said[g][i]
  BY <1>2 DEF NoteWord, About
<1>3. ASSUME NEW h, NEW c, Ruled(h, c) PROVE Good
  <2>1. said' = Note(h, Hushed(h, c.memory), Removed(h)) /\ ctrls' = Set(h, c)  BY <1>3 DEF Ruled
  <2>2. CASE g = h /\ i \in Hushed(h, c.memory)
    <3>1. ctrls'[g] = c /\ ~c.memory[i].notified  BY <2>1, <2>2 DEF Set, Hushed
    <3> QED  BY <1>2, <2>1, <2>2, <3>1 DEF Calm, Removed
  <2>3. CASE ~(g = h /\ i \in Hushed(h, c.memory))  BY <1>2, <2>1, <2>3
  <2> QED  BY <2>2, <2>3
<1>4. ASSUME NEW gs, Forget(gs), gs \cap Here' = {} PROVE Good  BY <1>4 DEF Forget
<1>5. ASSUME NEW k \in Guids, NEW h \in Guids, RotateController(k, h) PROVE Good
  <2>1. /\ said' = [said EXCEPT ![k] = said[h], ![h] = [j \in Ids |-> "lost"]] /\ owner[h] = 0
        /\ k \in Here /\ Here' = (Here \ {k}) \cup {h}
    BY <1>5 DEF RotateController, Here
  <2>2. said[h][i] \in {"none", "ended", "lost"} /\ h # k  BY <2>1 DEF Newcomers, Unknown
  <2>3. k \notin Here'  BY <2>1, <2>2
  <2> QED  BY <1>t, <2>1, <2>2, <2>3
<1>6. ASSUME NEW w \in requests, Send(w) PROVE Good
  <2> DEFINE word == IF w.transition = "recover" THEN "recover" ELSE w.severity
             what == IF Stands(w) THEN word ELSE "none"
             n == NoteWord(w, what)
             q == Append(outbox, w)
  <2>1. said' = n \/ said' = [n EXCEPT ![q[1].guid][q[1].rule] = "lost"]  BY <1>6 DEF Send
  <2>2. n[g][i] = IF About(w, g, i) /\ g \in Here THEN what ELSE said[g][i]  BY <1>n
  <2>3. n \in [Guids -> [Ids -> Sayings]]
    <3>1. what \in Sayings  BY DEF Typed, TickTyped, Word, Sayings
    <3> HIDE DEF what
    <3> QED  BY <1>t, <3>1, NoteTyped DEF NoteWord
  <2> HIDE DEF n, q
  <2>4. said'[g][i] \in {n[g][i], "lost"}  BY <2>1, <2>3
  <2> QED  BY <1>6, <2>2, <2>4
<1>7. ASSUME NEW w, said' = NoteWord(w, "lost") PROVE Good  BY <1>n, <1>7
<1>8. CASE Persist
  <2> DEFINE h == job.guid
             m == Merged(ctrls[h].rules)
             is == Over(h, m) \ {w.rule : w \in requests}
  <2>1. CASE h \notin Here  BY <1>1, <1>8, <2>1 DEF Persist
  <2>2. CASE h \in Here
    <3>1. /\ said' = Note(h, is, "none") /\ pc = "persist"
          /\ ctrls' = [ctrls EXCEPT ![h].memory = m, ![h].since = job.since]
      BY <1>8, <2>2 DEF Persist
    <3>2. ctrls[h] \in Registered  BY <2>2 DEF Typed, DocTyped, Tidy
    <3>3. CASE g = h /\ i \in is
      <4>1. ~m[i].notified /\ \A w \in requests : ~About(w, g, i)  BY <3>3 DEF Over, About
      <4>2. ctrls'[h].memory = m
        <5> HIDE DEF m, h
        <5> QED  BY <2>2, <3>1, <3>2 DEF Registered, Here
      <4>3. said'[g][i] = "none"
        <5> HIDE DEF is
        <5> QED  BY <1>2, <3>1, <3>3
      <4> HIDE DEF m
      <4>4. Calm(g, i)  BY <1>8, <3>3, <4>1, <4>2 DEF Calm
      <4> QED  BY <4>3, <4>4
    <3>4. CASE ~(g = h /\ i \in is)
      <4>1. said'[g][i] = said[g][i]
        <5> HIDE DEF is, h
        <5> QED  BY <1>2, <3>1, <3>4
      <4> QED  BY <4>1
    <3> QED  BY <3>3, <3>4
  <2> QED  BY <2>1, <2>2
<1>9. CASE Restart
  <2> DEFINE m == Reconciled(ctrls[g]).memory
  <2>1. g \in Here /\ i \in Over(g, m) => Calm(g, i)
    <3>1. g \in Here => ctrls'[g] = Reconciled(ctrls[g])  BY <1>9 DEF Restart
    <3> QED  BY <1>9, <3>1 DEF Over, Calm
  <2>2. said'[g][i] = IF g \in Here /\ i \in Over(g, m) THEN "none"
                      ELSE IF pc \notin {"idle", "persist"} /\ \E w \in requests : w.guid = g /\ w.rule = i THEN "lost"
                      ELSE said[g][i]
    BY <1>9 DEF Restart
  <2> HIDE DEF m
  <2> QED  BY <2>1, <2>2
<1>10. CASE Requests
  <2>1. ASSUME NEW h \in Guids, DeleteController(h) PROVE Good
    <3>1. Forget({h}) /\ {h} \cap Here' = {}  BY <2>1 DEF DeleteController, Restrict, Here
    <3> QED  BY <1>4, <3>1
  <2>2. CASE ClearHousehold \/ DropHousehold
    <3>1. Forget(Here) /\ Here \cap Here' = {}  BY <2>2 DEF ClearHousehold, DropHousehold, NoControllers, Here
    <3> QED  BY <1>4, <3>1
  <2>3. ASSUME NEW h, NEW p, ChangePreset(h, p) \/ PutRules(h, p) PROVE Good
    <3>1. \E c : Ruled(h, c)  BY <2>3 DEF ChangePreset, PutRules
    <3> QED  BY <1>3, <3>1
  <2>4. ASSUME UNCHANGED said PROVE Good  BY <1>1, <2>4
  <2> QED
    BY <1>5, <1>10, <2>1, <2>2, <2>3, <2>4 DEF Requests, Register, FoundHousehold, Park, Resume
<1>11. CASE Poller
  <2>1. ASSUME NEW w, SendFails(w) PROVE Good  BY <1>7, <2>1 DEF SendFails
  <2>2. CASE Rejected  BY <1>7, <2>2 DEF Rejected
  <2>3. CASE NothingToSend \/ Unavailable \/ PopFails
    BY <1>1, <2>3 DEF NothingToSend, Unavailable, PopFails, DrainEnds
  <2> QED
    BY <1>1, <1>6, <1>8, <1>11, <2>1, <2>2, <2>3 DEF Poller, Tick, PollController, PersistFails, DropStale, Post, Pop,
       Delivered
<1>12. CASE World  BY <1>1, <1>9, <1>12 DEF World, Turn, Cooled, LongSilence, HourPasses
<1>13. CASE UNCHANGED vars  BY <1>1, <1>13
<1> QED  BY <1>10, <1>11, <1>12, <1>13 DEF Next

\* Controllers stay what they are unless a request or the poller sets them,
\* and those that appear were unknown until then.
LEMMA Arrivals ==
  Typed /\ [Next]_vars =>
    /\ Here' \subseteq {g \in Guids : g \in Here \/ (owner[g] = 0 /\ owner'[g] # 0)}
    /\ \A g \in Guids : owner'[g] = 0 => owner[g] = 0
<1> DEFINE Good == /\ Here' \subseteq {g \in Guids : g \in Here \/ (owner[g] = 0 /\ owner'[g] # 0)}
                   /\ \A g \in Guids : owner'[g] = 0 => owner[g] = 0
<1> SUFFICES ASSUME Typed, [Next]_vars PROVE Good  OBVIOUS
<1> USE DEF doc, world, poller, ghost, vars
<1>t. /\ owner \in [Guids -> 0..MaxHouseholds] /\ Here \subseteq Guids /\ ctrls \in [Here -> Tidy]
      /\ founded # 0
  BY DEF Typed, DocTyped, HistoryTyped
<1>1. ASSUME Here' \subseteq Here, owner' = owner PROVE Good  BY <1>1, <1>t
<1>2. ASSUME NEW g \in Guids, owner[g] = 0, Here' \subseteq Here \cup {g}, owner' = [owner EXCEPT ![g] = founded] PROVE Good
  BY <1>2, <1>t
<1>3. ASSUME UNCHANGED <<ctrls, owner>> PROVE Good  BY <1>1, <1>3 DEF Here
<1>4. ASSUME NEW g \in Guids, NEW p, Register(g, p) PROVE Good
  <2>1. Here' = Here \cup {g}  BY <1>4 DEF Register, Set, Here
  <2> QED  BY <1>2, <1>4, <2>1 DEF Register
<1>5. ASSUME NEW g \in Here, NEW c, Ruled(g, c) PROVE Good
  <2>1. Here' = Here  BY <1>5 DEF Ruled, Set, Here
  <2> QED  BY <1>1, <1>5, <2>1 DEF Ruled
<1>6. ASSUME NEW g \in Guids, DeleteController(g) PROVE Good
  <2>1. Here' \subseteq Here  BY <1>6 DEF DeleteController, Restrict, Here
  <2> QED  BY <1>1, <1>6, <2>1 DEF DeleteController
<1>7. ASSUME NEW g \in Guids, NEW h \in Guids, RotateController(g, h) PROVE Good
  <2>1. Here' \subseteq Here \cup {h}  BY <1>7 DEF RotateController, Here
  <2> QED  BY <1>2, <1>7, <2>1 DEF RotateController
<1>8. CASE ClearHousehold \/ DropHousehold
  <2>1. Here' = {}  BY <1>8 DEF ClearHousehold, DropHousehold, Here, NoControllers
  <2> QED  BY <1>1, <1>8, <2>1 DEF ClearHousehold, DropHousehold
<1>9. CASE Persist
  <2>1. Here' = Here  BY <1>9, <1>t DEF Persist, Here
  <2> QED  BY <1>1, <1>9, <2>1 DEF Persist
<1>10. CASE Restart \/ \E g \in Guids : LongSilence(g)
  <2>1. Here' = Here  BY <1>10, <1>t DEF Restart, LongSilence, Here
  <2> QED  BY <1>1, <1>10, <2>1 DEF Restart, LongSilence
<1>11. CASE Requests
  BY <1>3, <1>4, <1>5, <1>6, <1>7, <1>8, <1>11 DEF Requests, ChangePreset, PutRules, FoundHousehold, Park, Resume
<1>12. CASE Poller
  BY <1>3, <1>9, <1>12 DEF Poller, Tick, PollController, PersistFails, Send, SendFails, DrainEnds, NothingToSend,
     DropStale, Post, Rejected, Unavailable, Pop, PopFails, Delivered
<1>13. CASE World  BY <1>3, <1>10, <1>13 DEF World, Turn, Cooled, HourPasses
<1>14. CASE UNCHANGED vars  BY <1>3, <1>14
<1> QED  BY <1>11, <1>12, <1>13, <1>14 DEF Next

\* The word being delivered is the first of the queue when it is picked up, and
\* stays what it is until it is delivered or refused.
LEMMA HeadStep ==
  ASSUME Typed, [Next]_vars, pc' \in {"post", "pop"}
  PROVE  \/ /\ outbox # <<>> /\ head' = outbox[1] /\ UNCHANGED <<ctrls, outbox>> /\ pc' = "post"
         \/ /\ pc \in {"post", "pop"} /\ head' = head /\ (outbox' = outbox \/ DropHousehold)
            /\ pc' = "pop" => pc = "pop" \/ Rejected \/ \E g \in Guids, i \in Ids : Delivered(g, i)
<1> DEFINE Good == \/ /\ outbox # <<>> /\ head' = outbox[1] /\ UNCHANGED <<ctrls, outbox>> /\ pc' = "post"
                   \/ /\ pc \in {"post", "pop"} /\ head' = head /\ (outbox' = outbox \/ DropHousehold)
                      /\ pc' = "pop" => pc = "pop" \/ Rejected \/ \E g \in Guids, i \in Ids : Delivered(g, i)
<1> USE DEF doc, world, poller, ghost, vars
<1>1. ASSUME UNCHANGED <<pc, head>>, outbox' = outbox \/ DropHousehold PROVE Good  BY <1>1
<1>2. ASSUME NEW words, NEW left, NEW done PROVE ~Goes(words, left, done)  BY DEF Goes
<1>3. CASE Requests
  BY <1>1, <1>3 DEF Requests, Register, ChangePreset, PutRules, Ruled, DeleteController, RotateController,
     ClearHousehold, DropHousehold, FoundHousehold, Park, Resume
<1>4. CASE Poller
  <2>1. CASE Post  BY <2>1 DEF Post
  <2>2. CASE Rejected \/ \E g \in Guids, i \in Ids : Delivered(g, i)  BY <2>2 DEF Rejected, Delivered
  <2>3. CASE DropStale  BY <2>3 DEF DropStale
  <2> QED
    BY <1>2, <1>4, <2>1, <2>2, <2>3 DEF Poller, Tick, PollController, Persist, PersistFails, Send, SendFails, DrainEnds,
       NothingToSend, Unavailable, Pop, PopFails
<1>5. CASE World  BY <1>1, <1>5 DEF World, Restart, Turn, Cooled, LongSilence, HourPasses
<1>6. CASE UNCHANGED vars  BY <1>1, <1>6
<1> QED  BY <1>3, <1>4, <1>5, <1>6 DEF Next

\* What is not registered yet stays nowhere.
LEMMA NewcomersStep == Typed /\ Newcomers /\ InHand /\ [Next]_vars => Newcomers'
<1> SUFFICES ASSUME Typed, Newcomers, InHand, [Next]_vars, NEW g \in Guids, owner'[g] = 0 PROVE Unknown(g)'
  BY DEF Newcomers
<1>1. owner[g] = 0 /\ Unknown(g) /\ g # NoGuid  BY Arrivals, GuidAssumption DEF Newcomers
<1>2. g \notin Here'  BY <1>1, Arrivals DEF Unknown
<1>3. g \notin InFlight'  BY <1>1, TickStep DEF Unknown
<1>4. \A k \in DOMAIN outbox' : outbox'[k].guid # g
  BY <1>1, QueueStep DEF Unknown, InFlight
<1>5. pc' \in {"post", "pop"} => head'.guid # g
  <2>1. outbox # <<>> => 1 \in DOMAIN outbox  BY DEF Typed, QueueTyped
  <2> QED  BY <1>1, <2>1, HeadStep DEF Unknown
<1>6. ASSUME NEW i \in Ids PROVE said'[g][i] \in {"none", "ended", "lost"}
  <2>1. g \notin Here /\ g \notin InFlight /\ said[g][i] \in {"none", "ended", "lost"}  BY <1>1 DEF Unknown
  <2> QED  BY <1>1, <2>1, SaidSoftens
<1> QED  BY <1>2, <1>3, <1>4, <1>5, <1>6 DEF Unknown

-----------------------------------------------------------------------------
(* What a tick has in hand, and the rule sets.                             *)

\* One poll of a controller: one word for each rule at most, which fits what
\* was said before and the memory that is to be persisted.
LEMMA PollSays ==
  ASSUME IdsKeepTheirKind, Typed, RuleSetsFit(tick), NEW g \in Guids, PollController(g)
  PROVE  /\ \A w, x \in requests' : w.rule = x.rule => w = x
         /\ StaleMemory(job'.memory)
         /\ \A i \in Ids : \A s : Agrees(tick[g].memory[i], s) =>
              LET mine == {w \in requests' : w.rule = i}
              IN /\ \A w \in mine : WordFits(w, s) /\ MemoryFits(w, job'.memory[i])
                 /\ mine = {} /\ job'.memory[i].notified => Agrees(job'.memory[i], s)
<1> DEFINE silence == IF water[g] # "down" THEN "recent" ELSE heard[g]
           rules   == tick[g].rules
           memory  == tick[g].memory
           out     == [r \in rules |-> Step(r, memory[r.id], water[g], silence, r.id \in cooled[g])]
           talking == {r \in rules : out[r].says # Silent}
           kept    == [i \in Ids |-> IF \E r \in rules : r.id = i
                                       THEN out[CHOOSE r \in rules : r.id = i].memory
                                       ELSE memory[i]]
           word(r) == [guid |-> g, rule |-> r.id, transition |-> out[r].says.transition,
                       severity |-> out[r].says.severity, old |-> FALSE]
<1>1. /\ pc = "poll" /\ g \in DOMAIN tick
      /\ job' = [guid |-> g, since |-> silence, memory |-> kept]
      /\ requests' = {word(r) : r \in talking}
  BY DEF PollController
<1>2. /\ rules \in SUBSET Rules /\ memory \in [Ids -> Memory]
      /\ \A r, s \in rules : r.id = s.id => r = s
      /\ StaleMemory(memory)
  BY <1>1 DEF Typed, TickTyped, Tidy, Registered, RuleSetsFit, OneEach
<1> HIDE DEF silence, rules, memory
<1>3. \A r \in rules : r.id \in Ids  BY <1>2 DEF Ids
<1>4. ASSUME NEW r \in rules, NEW s, Agrees(memory[r.id], s)
      PROVE  OutcomeFits(out[r], r, s)
  <2>1. memory[r.id] \in Memory /\ (r.id \in cooled[g]) \in BOOLEAN /\ r \in Rules  BY <1>2, <1>3
  <2>2. r.kind = "stale" /\ memory[r.id].notified => memory[r.id].last = "stale"  BY <1>2, <2>1 DEF StaleMemory
  <2>3. out[r] = Step(r, memory[r.id], water[g], silence, r.id \in cooled[g])  OBVIOUS
  <2> HIDE DEF out
  <2> QED  BY <1>4, <2>1, <2>2, <2>3, OnePollSays
<1> HIDE DEF out
<1>5. ASSUME NEW r \in rules PROVE kept[r.id] = out[r].memory  BY <1>2, <1>3
<1>6. ASSUME NEW i \in Ids, \A r \in rules : r.id # i PROVE kept[i] = memory[i]  BY <1>6
<1> HIDE DEF kept
<1>7. /\ \A r \in talking : word(r).rule = r.id /\ r \in rules
      /\ \A r \in talking : \A s : WordFits(out[r].says, s) => WordFits(word(r), s)
      /\ \A r \in talking : \A m : MemoryFits(out[r].says, m) => MemoryFits(word(r), m)
  BY DEF WordFits, MemoryFits
<1> HIDE DEF word
<1>8. \A w, x \in requests' : w.rule = x.rule => w = x
  <2> SUFFICES ASSUME NEW r \in talking, NEW s \in talking, word(r).rule = word(s).rule PROVE word(r) = word(s)
    BY <1>1
  <2>1. r.id = s.id  BY <1>7
  <2> QED  BY <1>2, <1>7, <2>1
<1>9. StaleMemory(kept)
  <2> SUFFICES ASSUME NEW r \in Rules, r.kind = "stale", kept[r.id].notified PROVE kept[r.id].last = "stale"
    BY DEF StaleMemory
  <2>1. r.id \in Ids  BY DEF Ids
  <2>2. CASE \E q \in rules : q.id = r.id
    <3>1. PICK q \in rules : q.id = r.id  BY <2>2
    <3>2. q.kind = "stale"  BY <1>2, <3>1 DEF IdsKeepTheirKind
    <3>3. Agrees(memory[q.id], "lost")  BY DEF Agrees
    <3> QED  BY <1>4, <1>5, <3>1, <3>2, <3>3 DEF OutcomeFits
  <2>3. CASE \A q \in rules : q.id # r.id  BY <1>2, <1>6, <2>1, <2>3 DEF StaleMemory
  <2> QED  BY <2>2, <2>3
<1>10. ASSUME NEW i \in Ids, NEW s, Agrees(memory[i], s)
       PROVE  /\ \A w \in requests' : w.rule = i => WordFits(w, s) /\ MemoryFits(w, kept[i])
              /\ (\A w \in requests' : w.rule # i) /\ kept[i].notified => Agrees(kept[i], s)
  <2>1. CASE \E r \in rules : r.id = i
    <3>1. PICK r \in rules : r.id = i  BY <2>1
    <3>2. kept[i] = out[r].memory  BY <1>5, <3>1
    <3>3. ASSUME NEW q \in talking, word(q).rule = i PROVE WordFits(word(q), s) /\ MemoryFits(word(q), kept[i])
      <4>1. q = r  BY <1>2, <1>7, <3>1, <3>3
      <4>2. WordFits(out[q].says, s) /\ MemoryFits(out[q].says, kept[i])  BY <1>4, <1>10, <3>1, <3>2, <4>1 DEF OutcomeFits
      <4> QED  BY <1>7, <4>2
    <3>4. ASSUME \A w \in requests' : w.rule # i, kept[i].notified PROVE Agrees(kept[i], s)
      <4>1. out[r].says = Silent  BY <1>1, <1>7, <3>1, <3>4
      <4> QED  BY <1>4, <1>10, <3>1, <3>2, <3>4, <4>1 DEF OutcomeFits
    <3> QED  BY <1>1, <3>3, <3>4
  <2>2. CASE \A r \in rules : r.id # i
    <3>1. \A w \in requests' : w.rule # i  BY <1>1, <1>7, <2>2
    <3>2. kept[i] = memory[i]  BY <1>6, <2>2
    <3> QED  BY <1>10, <3>1, <3>2
  <2> QED  BY <2>1, <2>2
<1>11. job'.memory = kept  BY <1>1
<1> QED  BY <1>8, <1>9, <1>10, <1>11 DEF memory

\* A tick has words of one controller in hand, one for each rule.
LEMMA HandStep ==
  ASSUME IdsKeepTheirKind, Typed, InHand, SetsFit, [Next]_vars
  PROVE  InHand'
<1> USE DEF doc, world, poller, ghost, vars
<1>1. ASSUME tick' = tick \/ tick' = NoControllers \/ requests = {}, requests' \subseteq requests, pc' # "persist",
             pc' \in {"idle", "poll"} => requests' = {}
      PROVE  InHand'
  BY <1>1 DEF InHand, NoControllers
<1>2. ASSUME UNCHANGED <<pc, tick, job, requests>> PROVE InHand'  BY <1>2 DEF InHand
<1>3. ASSUME NEW words, NEW left, NEW done, Goes(words, left, done)
      PROVE  pc' # "persist" /\ (pc' \in {"idle", "poll"} => words = {})
  BY <1>3 DEF Goes
<1>4. CASE Tick
  <2>1. requests' = requests /\ requests = {} /\ Goes({}, Here, FALSE)  BY <1>4 DEF Tick, InHand
  <2> QED  BY <1>1, <1>3, <2>1
<1>5. ASSUME NEW g \in Guids, PollController(g) PROVE InHand'
  <2>1. /\ job'.guid = g /\ \A w \in requests' : w.guid = g
        /\ DOMAIN tick' = DOMAIN tick \ {g} /\ pc' = "persist"
    BY <1>5, PollStep
  <2>2. \A w, x \in requests' : w.rule = x.rule => w = x  BY <1>5, PollSays DEF SetsFit
  <2> QED  BY <2>1, <2>2 DEF InHand
<1>6. CASE Persist \/ PersistFails
  <2>1. tick' = tick /\ requests' \subseteq requests /\ (pc' # "persist" /\ (pc' \in {"idle", "poll"} => requests' = {}))
    BY <1>3, <1>6 DEF Persist, PersistFails, SaidUnpersisted
  <2> QED  BY <1>1, <2>1
<1>7. ASSUME NEW w \in requests, Send(w) \/ SendFails(w) PROVE InHand'
  <2>1. tick' = tick /\ requests' \subseteq requests  BY <1>7 DEF Send, SendFails
  <2>2. pc' # "persist" /\ (pc' \in {"idle", "poll"} => requests' = {})  BY <1>3, <1>7 DEF Send, SendFails
  <2> QED  BY <1>1, <2>1, <2>2
<1>8. CASE NothingToSend \/ Unavailable \/ PopFails
  <2>1. DrainEnds  BY <1>8 DEF NothingToSend, Unavailable, PopFails
  <2> QED  BY <1>1, <1>3, <2>1 DEF DrainEnds
<1>9. CASE Post \/ Rejected \/ Pop \/ \E g \in Guids, i \in Ids : Delivered(g, i)
  <2>1. pc' \in {"post", "pop", "look"} /\ UNCHANGED <<tick, requests>>  BY <1>9 DEF Post, Rejected, Pop, Delivered
  <2> QED  BY <1>1, <2>1
<1>10. CASE Restart  BY <1>1, <1>10 DEF Restart
<1>11. CASE Requests
  BY <1>2, <1>11 DEF Requests, Register, ChangePreset, PutRules, Ruled, DeleteController, RotateController,
     ClearHousehold, DropHousehold, FoundHousehold, Park, Resume
<1>12. CASE Poller  BY <1>2, <1>4, <1>5, <1>6, <1>7, <1>8, <1>9, <1>12 DEF Poller, DropStale
<1>13. CASE World  BY <1>2, <1>10, <1>13 DEF World, Turn, Cooled, LongSilence, HourPasses
<1>14. CASE UNCHANGED vars  BY <1>2, <1>14
<1> QED  BY <1>11, <1>12, <1>13, <1>14 DEF Next

\* A controller with other rules has rules that share no id, and watchdogs
\* that remember silence.
LEMMA OnlyOfStale ==
  ASSUME NEW rules, NEW memory, StaleMemory(memory)
  PROVE  StaleMemory(OnlyOf(rules, memory))
<1> SUFFICES ASSUME NEW r \in Rules, r.kind = "stale", OnlyOf(rules, memory)[r.id].notified
             PROVE  OnlyOf(rules, memory)[r.id].last = "stale"
  BY DEF StaleMemory
<1>1. r.id \in Ids  BY DEF Ids
<1>2. OnlyOf(rules, memory)[r.id] = memory[r.id]  BY <1>1 DEF OnlyOf, Fresh
<1> QED  BY <1>2 DEF StaleMemory

LEMMA WithRulesFits ==
  ASSUME NEW c \in Tidy, NEW rules \in SUBSET Rules, OneEach(rules), StaleMemory(c.memory)
  PROVE  /\ WithRules(c, rules).rules = rules
         /\ WithRules(c, rules).memory = OnlyOf(rules, c.memory)
         /\ OneEach(WithRules(c, rules).rules) /\ StaleMemory(WithRules(c, rules).memory)
<1>1. WithRules(c, rules).rules = rules /\ WithRules(c, rules).memory = OnlyOf(rules, c.memory)
  BY DEF WithRules, Tidy, Registered
<1> QED  BY <1>1, OnlyOfStale

\* Rule sets share no id, wherever the tick or the document has them.
LEMMA SetsStep ==
  ASSUME IdsKeepTheirKind, Typed, SetsFit, [Next]_vars
  PROVE  SetsFit'
<1> USE DEF doc, world, poller, ghost, vars
<1>t. /\ Here \subseteq Guids /\ ctrls \in [Here -> Tidy]
      /\ \A g \in Here : OneEach(ctrls[g].rules) /\ StaleMemory(ctrls[g].memory)
      /\ \A g \in Here : /\ ctrls[g].rules \in SUBSET Rules /\ ctrls[g].preset \in Presets
                         /\ \A p \in Presets : OneEach(ReconcileSeed(ctrls[g].rules, p))
      /\ RuleSetsFit(tick) /\ StaleMemory(job.memory) /\ StaleMemory(NoJob.memory) /\ RuleSetsFit(NoControllers)
  <2>1. Here \subseteq Guids /\ ctrls \in [Here -> Tidy]  BY DEF Typed, DocTyped
  <2>2. RuleSetsFit(tick) /\ StaleMemory(job.memory) /\ RuleSetsFit(ctrls)  BY DEF SetsFit
  <2>3. \A g \in Here : OneEach(ctrls[g].rules) /\ StaleMemory(ctrls[g].memory)  BY <2>2 DEF RuleSetsFit, Here
  <2>4. \A g \in Here : ctrls[g].rules \in SUBSET Rules /\ ctrls[g].preset \in Presets
    BY <2>1 DEF Tidy, Registered
  <2>5. StaleMemory(NoJob.memory) /\ RuleSetsFit(NoControllers)
    BY DEF StaleMemory, NoJob, Untouched, Fresh, RuleSetsFit, NoControllers, Ids
  <2> QED  BY <2>1, <2>2, <2>3, <2>4, <2>5, SeedIsOneEach
\* Who has which rules and memory.
<1>1. ASSUME \A g \in Here' : OneEach(ctrls'[g].rules) /\ StaleMemory(ctrls'[g].memory),
             \/ tick' = tick \/ tick' = NoControllers,
             \/ job' = job \/ job' = NoJob
      PROVE  SetsFit'
  <2>1. RuleSetsFit(ctrls)'  BY <1>1 DEF RuleSetsFit, Here
  <2>2. RuleSetsFit(tick)' /\ StaleMemory(job.memory)'  BY <1>1, <1>t DEF RuleSetsFit
  <2> QED  BY <2>1, <2>2 DEF SetsFit
<1>2. ASSUME UNCHANGED ctrls PROVE \A g \in Here' : OneEach(ctrls'[g].rules) /\ StaleMemory(ctrls'[g].memory)
  BY <1>2, <1>t DEF Here
<1>3. ASSUME NEW g \in Guids, NEW p \in Added, Register(g, p) PROVE SetsFit'
  <2>1. /\ NewController(p).rules = ReconcileSeed({}, p) /\ NewController(p).memory = Untouched
        /\ OneEach(ReconcileSeed({}, p)) /\ StaleMemory(Untouched)
    <3>1. p \in Presets /\ OneEach({})  BY AddedAssumption DEF OneEach
    <3>2. StaleMemory(Untouched)  BY <1>t DEF NoJob
    <3> QED  BY <3>1, <3>2, SeedIsOneEach DEF NewController
  <2>2. Here' = Here \cup {g} /\ \A h \in Here' : ctrls'[h] = IF h = g THEN NewController(p) ELSE ctrls[h]
    BY <1>3 DEF Register, Set, Here
  <2>3. UNCHANGED <<tick, job>>  BY <1>3 DEF Register
  <2> QED  BY <1>1, <1>t, <2>1, <2>2, <2>3
<1>4. ASSUME NEW g \in Here, NEW c, Ruled(g, c), OneEach(c.rules), StaleMemory(c.memory) PROVE SetsFit'
  <2>1. Here' = Here /\ \A h \in Here' : ctrls'[h] = IF h = g THEN c ELSE ctrls[h]
    BY <1>4 DEF Ruled, Set, Here
  <2>2. UNCHANGED <<tick, job>>  BY <1>4 DEF Ruled
  <2> QED  BY <1>1, <1>4, <1>t, <2>1, <2>2
<1>5. ASSUME NEW g \in Guids, NEW p \in Added, ChangePreset(g, p) PROVE SetsFit'
  <2> DEFINE rules == ReconcileSeed(ctrls[g].rules, p)
             c == WithRules(ctrls[g], rules)
  <2>1. g \in Here /\ p \in Presets /\ ctrls[g] \in Tidy /\ Ruled(g, [c EXCEPT !.preset = p])
    BY <1>5, <1>t, AddedAssumption DEF ChangePreset
  <2>2. rules \in SUBSET Rules /\ OneEach(rules)  BY <1>t, <2>1, SeedIsRules
  <2> HIDE DEF rules
  <2>3. OneEach(c.rules) /\ StaleMemory(c.memory) /\ c \in Tidy  BY <1>t, <2>1, <2>2, WithRulesFits, WithRulesIsTidy
  <2> HIDE DEF c
  <2>4. [c EXCEPT !.preset = p].rules = c.rules /\ [c EXCEPT !.preset = p].memory = c.memory
    BY <2>3 DEF Tidy, Registered
  <2> QED  BY <1>4, <2>1, <2>3, <2>4
<1>6. ASSUME NEW g \in Here, NEW rules \in RuleSets[ctrls[g].preset], PutRules(g, rules) PROVE SetsFit'
  <2>1. rules \in SUBSET Rules  BY <1>t, RuleSetAssumption
  <2>2. OneEach(rules) /\ Ruled(g, WithRules(ctrls[g], rules)) /\ ctrls[g] \in Tidy  BY <1>6, <1>t DEF PutRules
  <2> QED  BY <1>4, <1>t, <2>1, <2>2, WithRulesFits
<1>7. ASSUME NEW g \in Guids, NEW h \in Guids, RotateController(g, h) PROVE SetsFit'
  <2>1. /\ Here' = (Here \ {g}) \cup {h} /\ g \in Here
        /\ \A k \in Here' : ctrls'[k] = IF k = h THEN ctrls[g] ELSE ctrls[k]
    BY <1>7 DEF RotateController, Here
  <2>2. UNCHANGED <<tick, job>>  BY <1>7 DEF RotateController
  <2> QED  BY <1>1, <1>t, <2>1, <2>2
<1>8. ASSUME NEW g \in Guids, DeleteController(g) PROVE SetsFit'
  <2>1. Here' = Here \ {g} /\ \A k \in Here' : ctrls'[k] = ctrls[k]  BY <1>8 DEF DeleteController, Here, Restrict
  <2>2. UNCHANGED <<tick, job>>  BY <1>8 DEF DeleteController
  <2> QED  BY <1>1, <1>t, <2>1, <2>2
<1>9. CASE ClearHousehold \/ DropHousehold
  <2>1. Here' = {} /\ UNCHANGED <<tick, job>>  BY <1>9 DEF ClearHousehold, DropHousehold, Here, NoControllers
  <2> QED  BY <1>1, <2>1
<1>10. CASE Tick
  <2>1. tick' = ctrls /\ UNCHANGED <<ctrls, job>>  BY <1>10 DEF Tick
  <2> QED  BY <2>1 DEF SetsFit
<1>11. ASSUME NEW g \in Guids, PollController(g) PROVE SetsFit'
  <2>1. StaleMemory(job'.memory)  BY <1>11, <1>t, PollSays
  <2>2. RuleSetsFit(tick')
    <3>1. tick' = Restrict(tick, DOMAIN tick \ {g})  BY <1>11 DEF PollController
    <3> QED  BY <1>t, <3>1 DEF RuleSetsFit, Restrict
  <2>3. UNCHANGED ctrls  BY <1>11 DEF PollController
  <2> QED  BY <2>1, <2>2, <2>3 DEF SetsFit
<1>12. CASE Persist
  <2> DEFINE g == job.guid
             m == Merged(ctrls[g].rules)
  <2>1. tick' = tick /\ job' = NoJob  BY <1>12 DEF Persist
  <2>2. CASE g \in Here
    <3>1. StaleMemory(m)  BY <1>t, OnlyOfStale DEF Merged
    <3>2. ctrls' = [ctrls EXCEPT ![g].memory = m, ![g].since = job.since]  BY <1>12, <2>2 DEF Persist
    <3>3. ctrls[g] \in Registered  BY <1>t, <2>2 DEF Tidy
    <3> HIDE DEF m, g
    <3>4. Here' = Here /\ \A k \in Here : ctrls'[k].rules = ctrls[k].rules /\ ctrls'[k].memory = IF k = g THEN m ELSE ctrls[k].memory
      BY <1>t, <2>2, <3>2, <3>3 DEF Here, Registered
    <3> QED  BY <1>1, <1>t, <2>1, <3>1, <3>4
  <2>3. CASE g \notin Here  BY <1>1, <1>2, <1>12, <2>1, <2>3 DEF Persist
  <2> QED  BY <2>2, <2>3
<1>13. CASE Restart
  <2>1. Here' = Here /\ \A g \in Here : ctrls'[g] = Reconciled(ctrls[g])  BY <1>13 DEF Restart, Here
  <2>2. ASSUME NEW g \in Here PROVE OneEach(Reconciled(ctrls[g]).rules) /\ StaleMemory(Reconciled(ctrls[g]).memory)
    <3>1. ReconcileSeed(ctrls[g].rules, ctrls[g].preset) \in SUBSET Rules  BY <1>t, SeedIsRules
    <3> QED  BY <1>t, <3>1, WithRulesFits DEF Reconciled
  <2>3. tick' = NoControllers /\ job' = NoJob  BY <1>13 DEF Restart
  <2> QED  BY <1>1, <2>1, <2>2, <2>3
<1>14. ASSUME NEW g \in Guids, LongSilence(g) PROVE SetsFit'
  <2>1. g \in Here /\ ctrls' = [ctrls EXCEPT ![g].since = IF @ = "never" THEN @ ELSE "long"] /\ UNCHANGED <<tick, job>>
    BY <1>14 DEF LongSilence
  <2>2. Here' = Here /\ \A k \in Here : ctrls'[k].rules = ctrls[k].rules /\ ctrls'[k].memory = ctrls[k].memory
    BY <1>t, <2>1 DEF Here, Tidy, Registered
  <2> QED  BY <1>1, <1>t, <2>1, <2>2
<1>15. ASSUME UNCHANGED <<ctrls, tick>>, job' = job \/ job' = NoJob PROVE SetsFit'  BY <1>1, <1>2, <1>15
<1>16. CASE Requests
  BY <1>3, <1>5, <1>6, <1>7, <1>8, <1>9, <1>15, <1>16 DEF Requests, FoundHousehold, Park, Resume
<1>17. CASE Poller
  BY <1>10, <1>11, <1>12, <1>15, <1>17 DEF Poller, PersistFails, Send, SendFails, DrainEnds, NothingToSend, DropStale,
     Post, Rejected, Unavailable, Pop, PopFails, Delivered
<1>18. CASE World  BY <1>13, <1>14, <1>15, <1>18 DEF World, Turn, Cooled, HourPasses
<1>19. CASE UNCHANGED vars  BY <1>15, <1>19
<1> QED  BY <1>16, <1>17, <1>18, <1>19 DEF Next

-----------------------------------------------------------------------------
(* What is remembered and what was said.                                   *)

\* But for its start a tick only works off what it has to poll.
LEMMA TickShrinks ==
  ASSUME Typed, [Next]_vars, ~Tick, NEW g \in DOMAIN tick'
  PROVE  g \in DOMAIN tick /\ tick'[g] = tick[g]
<1> USE DEF doc, world, poller, ghost, vars
<1>1. CASE tick' = tick  BY <1>1
<1>2. CASE tick' = NoControllers  BY <1>2 DEF NoControllers
<1>3. ASSUME NEW h \in Guids, PollController(h) PROVE g \in DOMAIN tick /\ tick'[g] = tick[g]
  BY <1>3 DEF PollController, Restrict
<1>4. CASE Requests
  BY <1>1, <1>4 DEF Requests, Register, ChangePreset, PutRules, Ruled, DeleteController, RotateController,
     ClearHousehold, DropHousehold, FoundHousehold, Park, Resume
<1>5. CASE Poller
  BY <1>1, <1>3, <1>5 DEF Poller, Persist, PersistFails, Send, SendFails, DrainEnds, NothingToSend, DropStale,
     Post, Rejected, Unavailable, Pop, PopFails, Delivered
<1>6. CASE World  BY <1>1, <1>2, <1>6 DEF World, Restart, Turn, Cooled, LongSilence, HourPasses
<1>7. CASE UNCHANGED vars  BY <1>1, <1>7
<1> QED  BY <1>4, <1>5, <1>6, <1>7 DEF Next

\* A job is persisted as the poll left it.
LEMMA JobKept ==
  ASSUME Typed, [Next]_vars, pc' = "persist"
  PROVE  (\E g \in Guids : PollController(g)) \/ (pc = "persist" /\ UNCHANGED <<job, requests>>)
<1> USE DEF doc, world, poller, ghost, vars
<1>1. ASSUME NEW words, NEW left, NEW done PROVE ~Goes(words, left, done)  BY DEF Goes
<1>2. CASE Requests
  BY <1>2 DEF Requests, Register, ChangePreset, PutRules, Ruled, DeleteController, RotateController,
     ClearHousehold, DropHousehold, FoundHousehold, Park, Resume
<1>3. CASE Poller
  BY <1>1, <1>3 DEF Poller, Tick, Persist, PersistFails, Send, SendFails, DrainEnds, NothingToSend, DropStale,
     Post, Rejected, Unavailable, Pop, PopFails, Delivered
<1>4. CASE World  BY <1>4 DEF World, Restart, Turn, Cooled, LongSilence, HourPasses
<1>5. CASE UNCHANGED vars  BY <1>5
<1> QED  BY <1>2, <1>3, <1>4, <1>5 DEF Next

\* A controller appears when it is registered or takes over another's place.
LEMMA Appears ==
  ASSUME Typed, [Next]_vars, NEW g \in Guids, g \notin Here, g \in Here'
  PROVE  (\E p : Register(g, p)) \/ \E k \in Guids : RotateController(k, g)
<1> USE DEF doc, world, poller, ghost, vars
<1>1. Here' # Here  OBVIOUS
<1>2. ASSUME ctrls' = ctrls PROVE FALSE  BY <1>2 DEF Here
<1>3. ASSUME NEW h \in Here, NEW c, Ruled(h, c) PROVE FALSE  BY <1>3 DEF Ruled, Set, Here
<1>4. CASE Persist \/ Restart \/ \E h \in Guids : LongSilence(h)
  <2>1. ctrls \in [Here -> Tidy]  BY DEF Typed, DocTyped
  <2> QED  BY <1>2, <1>4, <2>1 DEF Persist, Restart, LongSilence, Here
<1>5. CASE Requests
  <2>1. ASSUME NEW h \in Guids, NEW p, Register(h, p) PROVE g = h  BY <2>1 DEF Register, Set, Here
  <2>2. ASSUME NEW k \in Guids, NEW h \in Guids, RotateController(k, h) PROVE g = h  BY <2>2 DEF RotateController, Here
  <2>3. ASSUME NEW h \in Guids, DeleteController(h) PROVE FALSE  BY <2>3 DEF DeleteController, Restrict, Here
  <2>4. CASE ClearHousehold \/ DropHousehold  BY <2>4 DEF ClearHousehold, DropHousehold, NoControllers, Here
  <2> QED
    BY <1>2, <1>3, <1>5, <2>1, <2>2, <2>3, <2>4 DEF Requests, ChangePreset, PutRules, FoundHousehold, Park, Resume
<1>6. CASE Poller
  BY <1>2, <1>4, <1>6 DEF Poller, Tick, PollController, PersistFails, Send, SendFails, DrainEnds, NothingToSend,
     DropStale, Post, Rejected, Unavailable, Pop, PopFails, Delivered
<1>7. CASE World  BY <1>2, <1>4, <1>7 DEF World, Turn, Cooled, HourPasses
<1>8. CASE UNCHANGED vars  BY <1>2, <1>8
<1> QED  BY <1>5, <1>6, <1>7, <1>8 DEF Next

\* What a tick works on did not come into being after it.
LEMMA FlightIsHere ==
  ASSUME Typed, Newcomers, [Next]_vars, NEW g \in Here', g \in InFlight'
  PROVE  g \in Here
<1>1. g \in Guids /\ (g \in Here \/ owner[g] = 0)  BY Arrivals
<1>2. g \in InFlight \cup Here  BY <1>1, TickStep, GuidAssumption
<1> QED  BY <1>1, <1>2 DEF Newcomers, Unknown

\* What was said loses nothing to a memory it agreed with.
LEMMA SoftlyAgrees ==
  ASSUME NEW rs, NEW s, Agrees(rs, s), NEW sNew \in {s, "lost", "ended"}
  PROVE  Agrees(rs, sNew)
BY DEF Agrees

\* The memory a tick has still to work on keeps agreeing.
LEMMA TickAgreesStep ==
  ASSUME Typed, Newcomers, InHand, SaidAgrees, TickAgrees, [Next]_vars
  PROVE  TickAgrees'
<1> SUFFICES ASSUME NEW g \in Here' \cap DOMAIN tick', NEW i \in Ids
             PROVE  Agrees(tick'[g].memory[i], said'[g][i])
  BY DEF TickAgrees
<1>1. g \in Here /\ g \in Guids
  <2>1. g \in InFlight'  BY DEF InFlight
  <2> QED  BY <2>1, FlightIsHere, Arrivals
<1>2. CASE Tick
  <2>1. tick' = ctrls /\ said' = said /\ requests = {}  BY <1>2 DEF Tick, InHand
  <2>2. Pending(g, i) = {}  BY <2>1 DEF Pending
  <2>3. Agrees(ctrls[g].memory[i], said[g][i])  BY <1>1, <2>2 DEF SaidAgrees, Fits
  <2> QED  BY <2>1, <2>3
<1>3. CASE ~Tick
  <2>1. g \in DOMAIN tick /\ tick'[g] = tick[g]  BY <1>3, TickShrinks
  <2>2. Agrees(tick[g].memory[i], said[g][i])  BY <1>1, <2>1 DEF TickAgrees
  <2>3. \A w \in requests : ~About(w, g, i)  BY <2>1 DEF InHand, About
  <2>4. ~Calm(g, i)
    <3>1. Persist => g # job.guid  BY <2>1 DEF Persist, InHand
    <3>2. ~Restart  BY DEF Restart, NoControllers
    <3> QED  BY <2>1, <3>1, <3>2 DEF Calm, InFlight
  <2>5. said'[g][i] \in {said[g][i], "lost", "ended"}  BY <1>1, <2>3, <2>4, SaidSoftens
  <2> QED  BY <2>1, <2>2, <2>5, SoftlyAgrees
<1> QED  BY <1>2, <1>3

\* The memory a tick is about to persist keeps agreeing.
LEMMA JobAgreesStep ==
  ASSUME IdsKeepTheirKind, Typed, Newcomers, InHand, SetsFit, TickAgrees, JobAgrees, [Next]_vars
  PROVE  JobAgrees'
<1> SUFFICES ASSUME pc' = "persist", job'.guid \in Here', NEW i \in Ids
             PROVE  LET mine == {w \in requests' : w.rule = i}
                        s    == said'[job'.guid][i]
                    IN /\ \A w \in mine : WordFits(w, s) /\ MemoryFits(w, job'.memory[i])
                       /\ mine = {} /\ job'.memory[i].notified => Agrees(job'.memory[i], s)
  BY DEF JobAgrees
<1>1. job'.guid \in Here /\ job'.guid \in Guids
  <2>1. job'.guid \in InFlight'  BY DEF InFlight
  <2> QED  BY <2>1, FlightIsHere, Arrivals
<1>2. ASSUME NEW g \in Guids, PollController(g)
      PROVE  LET mine == {w \in requests' : w.rule = i}
                 s    == said'[job'.guid][i]
             IN /\ \A w \in mine : WordFits(w, s) /\ MemoryFits(w, job'.memory[i])
                /\ mine = {} /\ job'.memory[i].notified => Agrees(job'.memory[i], s)
  <2>1. job'.guid = g /\ g \in DOMAIN tick  BY <1>2, PollStep
  <2>2. said' = said  BY <1>2 DEF PollController, ghost
  <2>3. Agrees(tick[g].memory[i], said[g][i])  BY <1>1, <2>1 DEF TickAgrees
  <2> QED  BY <1>2, <2>1, <2>2, <2>3, PollSays DEF SetsFit
<1>3. ASSUME pc = "persist", UNCHANGED <<job, requests>>
      PROVE  LET mine == {w \in requests' : w.rule = i}
                 s    == said'[job'.guid][i]
             IN /\ \A w \in mine : WordFits(w, s) /\ MemoryFits(w, job'.memory[i])
                /\ mine = {} /\ job'.memory[i].notified => Agrees(job'.memory[i], s)
  <2> DEFINE g == job.guid
  <2>1. said'[g][i] \in {said[g][i], "lost", "ended"}
    <3>1. \A w \in requests : ~Send(w)  BY <1>3 DEF Send
    <3>2. ~Persist /\ ~Restart  BY DEF Persist, Restart, Goes
    <3>3. ~Calm(g, i)  BY <3>2 DEF Calm, InFlight
    <3> QED  BY <1>1, <1>3, <3>1, <3>3, SaidSoftens
  <2>2. \A w \in requests : w.severity \in Alarms  BY DEF Typed, TickTyped, Word
  <2>3. \A w \in requests : WordFits(w, said[g][i]) => WordFits(w, said'[g][i])
    BY <2>1, <2>2 DEF WordFits, Alarms
  <2> QED  BY <1>1, <1>3, <2>1, <2>3, SoftlyAgrees DEF JobAgrees
<1> QED  BY <1>2, <1>3, JobKept

\* What the document remembers keeps fitting what was said.
LEMMA SaidAgreesStep ==
  ASSUME Typed, Newcomers, InHand, SaidAgrees, JobAgrees, [Next]_vars
  PROVE  SaidAgrees'
<1> DEFINE FitsAt(g, i) == Fits(Pending(g, i), ctrls[g].memory[i], said[g][i])
<1> SUFFICES ASSUME NEW g \in Here', NEW i \in Ids PROVE FitsAt(g, i)'
  BY DEF SaidAgrees
<1> USE DEF doc, world, poller, ghost, vars
<1>g. g \in Guids  BY Arrivals
<1>q. /\ requests \subseteq Word /\ Pending(g, i) \in SUBSET Word /\ Pending(g, i) \subseteq requests
      /\ \A w \in requests : w.severity \in Alarms
      /\ \A w, x \in requests : About(w, g, i) /\ About(x, g, i) => w = x
  BY DEF Typed, TickTyped, Word, Pending, About, InHand
<1>1. CASE g \notin Here
  <2>1. Unknown(g) /\ g \notin InFlight'  BY <1>1, <1>g, Arrivals, FlightIsHere DEF Newcomers
  <2>2. Pending(g, i)' = {}  BY <2>1 DEF Pending, InFlight, About
  <2>3. said'[g][i] = "lost" \/ (~ctrls'[g].memory[i].notified /\ said'[g][i] \in {"none", "ended", "lost"})
    <3>1. said'[g][i] \in {"none", "ended", "lost"}  BY <1>1, <1>g, <2>1, SaidSoftens DEF Unknown
    <3>2. CASE \E p : Register(g, p)
      <4>1. PICK p : Register(g, p)  BY <3>2
      <4>2. ctrls'[g] = NewController(p)  BY <4>1 DEF Register, Set
      <4> QED  BY <3>1, <4>2 DEF NewController, Untouched, Fresh
    <3>3. CASE \E k \in Guids : RotateController(k, g)
      <4>1. PICK k \in Guids : RotateController(k, g)  BY <3>3
      <4>2. said' = [said EXCEPT ![k] = said[g], ![g] = [j \in Ids |-> "lost"]]  BY <4>1 DEF RotateController
      <4> QED  BY <1>g, <4>2 DEF Typed, HistoryTyped
    <3> QED  BY <1>1, <1>g, <3>1, <3>2, <3>3, Appears
  <2> QED  BY <2>2, <2>3 DEF Fits, Agrees
<1>2. CASE g \in Here
  <2> USE <1>2
  <2>t. ctrls[g] \in Tidy /\ FitsAt(g, i)  BY DEF Typed, DocTyped, SaidAgrees
  \* A step that changes neither the words nor, but for silencing it, the memory.
  <2>1. ASSUME Pending(g, i)' = Pending(g, i),
               ctrls'[g].memory[i] = ctrls[g].memory[i] \/ ~ctrls'[g].memory[i].notified,
               \/ said'[g][i] \in {"lost", "ended"}
               \/ said'[g][i] = "none" /\ ~ctrls'[g].memory[i].notified /\ Pending(g, i) = {}
               \/ said'[g][i] = said[g][i] /\ (ctrls'[g].memory[i] = ctrls[g].memory[i] \/ ~ctrls[g].memory[i].notified)
        PROVE  FitsAt(g, i)'
    BY <1>q, <2>1, <2>t, StillFits
  <2>2. ASSUME Pending(g, i)' = Pending(g, i), ctrls'[g].memory = ctrls[g].memory,
               \A w \in requests : About(w, g, i) => ~Send(w)
        PROVE  FitsAt(g, i)'
    <3>1. Calm(g, i) => ~ctrls'[g].memory[i].notified /\ Pending(g, i) = {}
      <4>1. g \notin InFlight => Pending(g, i) = {}  BY DEF InFlight, Pending, About
      <4>2. Persist => Pending(g, i) = {}  BY DEF Persist, Pending
      <4>3. Restart => Pending(g, i)' = {}  BY DEF Restart, Pending
      <4> QED  BY <2>2, <4>1, <4>2, <4>3 DEF Calm
    <3> QED  BY <1>g, <2>1, <2>2, <3>1, SaidSoftens
  <2>3. ASSUME requests' = requests, (pc' = "persist") <=> (pc = "persist") PROVE Pending(g, i)' = Pending(g, i)
    BY <2>3 DEF Pending
  <2>4. ASSUME UNCHANGED <<requests, ctrls>>, (pc' = "persist") <=> (pc = "persist"), pc # "send" PROVE FitsAt(g, i)'
    BY <2>2, <2>3, <2>4 DEF Send
  <2>5. ASSUME NEW h \in Here, NEW c, NEW rules, Ruled(h, c), c.memory = OnlyOf(rules, ctrls[h].memory),
               UNCHANGED <<requests, pc>>
        PROVE  FitsAt(g, i)'
    <3>1. ctrls'[g] = IF g = h THEN c ELSE ctrls[g]  BY <2>5 DEF Ruled, Set
    <3>2. said'[g][i] = IF g = h /\ i \in Hushed(h, c.memory) THEN Removed(h) ELSE said[g][i]
      BY <1>g, <2>5 DEF Ruled, Note, Typed, HistoryTyped
    <3>3. CASE g = h
      <4>1. c.memory[i] = ctrls[g].memory[i] \/ c.memory[i] = Fresh  BY <2>5, <3>3 DEF OnlyOf
      <4>2. ~Fresh.notified  BY DEF Fresh
      <4>3. Removed(g) = "ended" \/ (Removed(g) = "none" /\ Pending(g, i) = {})
        BY DEF Removed, InFlight, Pending, About
      <4> QED  BY <2>1, <2>3, <2>5, <3>1, <3>2, <3>3, <4>1, <4>2, <4>3 DEF Hushed
    <3>4. CASE g # h  BY <2>1, <2>3, <2>5, <3>1, <3>2, <3>4
    <3> QED  BY <3>3, <3>4
  <2>6. CASE Requests
    <3>1. UNCHANGED <<requests, pc>>
      BY <2>6 DEF Requests, Register, ChangePreset, PutRules, Ruled, DeleteController, RotateController,
         ClearHousehold, DropHousehold, FoundHousehold, Park, Resume
    <3>2. \A w \in requests : ~Send(w)  BY <1>q, <3>1 DEF Send
    <3>3. ASSUME ctrls'[g] = ctrls[g] PROVE FitsAt(g, i)'  BY <2>2, <2>3, <3>1, <3>2, <3>3
    <3>4. ASSUME NEW h \in Guids, NEW p, Register(h, p) PROVE FitsAt(g, i)'
      <4>1. g # h  BY <3>4 DEF Register, Newcomers, Unknown
      <4> QED  BY <3>3, <3>4, <4>1 DEF Register, Set
    <3>5. ASSUME NEW h \in Here, NEW p, ChangePreset(h, p) PROVE FitsAt(g, i)'
      <4> DEFINE rules == ReconcileSeed(ctrls[h].rules, p)
                 c == [WithRules(ctrls[h], rules) EXCEPT !.preset = p]
      <4>1. ctrls[h] \in Registered  BY DEF Typed, DocTyped, Tidy
      <4>2. c.memory = OnlyOf(rules, ctrls[h].memory)
        <5> HIDE DEF rules
        <5> QED  BY <4>1 DEF WithRules, Registered
      <4>3. Ruled(h, c)  BY <3>5 DEF ChangePreset
      <4> HIDE DEF c, rules
      <4> QED  BY <2>5, <3>1, <4>2, <4>3
    <3>6. ASSUME NEW h \in Here, NEW rules, PutRules(h, rules) PROVE FitsAt(g, i)'
      <4>1. ctrls[h] \in Registered  BY DEF Typed, DocTyped, Tidy
      <4>2. WithRules(ctrls[h], rules).memory = OnlyOf(rules, ctrls[h].memory)  BY <4>1 DEF WithRules, Registered
      <4> QED  BY <2>5, <3>1, <3>6, <4>2 DEF PutRules
    <3>7. ASSUME NEW h \in Guids, DeleteController(h) PROVE FitsAt(g, i)'
      <4>1. ctrls'[g] = ctrls[g]  BY <3>7 DEF DeleteController, Here, Restrict
      <4> QED  BY <3>3, <4>1
    <3>8. ASSUME NEW k \in Guids, NEW h \in Guids, RotateController(k, h) PROVE FitsAt(g, i)'
      <4>1. g # h  BY <3>8 DEF RotateController, Newcomers, Unknown
      <4>2. ctrls'[g] = ctrls[g]  BY <3>8, <4>1 DEF RotateController, Here
      <4> QED  BY <3>3, <4>2
    <3>9. CASE ClearHousehold \/ DropHousehold
      BY <3>9 DEF ClearHousehold, DropHousehold, Here, NoControllers
    <3>10. CASE FoundHousehold \/ Park \/ Resume  BY <3>3, <3>10 DEF FoundHousehold, Park, Resume
    <3>11. ASSUME NEW h, NEW p, ChangePreset(h, p) PROVE h \in Here  BY <3>11 DEF ChangePreset
    <3> QED  BY <2>6, <3>4, <3>5, <3>6, <3>7, <3>8, <3>9, <3>10, <3>11 DEF Requests
  <2>7. CASE Tick
    <3>1. requests = {} /\ requests' = {} /\ UNCHANGED ctrls /\ pc # "send"  BY <2>7 DEF Tick, InHand
    <3>2. Pending(g, i) = {} /\ Pending(g, i)' = {}  BY <3>1 DEF Pending
    <3> QED  BY <2>2, <3>1, <3>2
  <2>8. ASSUME NEW h \in Guids, PollController(h) PROVE FitsAt(g, i)'
    <3>1. requests = {} /\ pc' = "persist" /\ UNCHANGED ctrls  BY <2>8 DEF PollController, InHand
    <3>2. Pending(g, i) = {} /\ Pending(g, i)' = {}  BY <3>1 DEF Pending
    <3> QED  BY <2>2, <3>1, <3>2
  <2>9. CASE Persist
    <3>1. pc = "persist" /\ requests' = requests /\ pc' # "persist"  BY <2>9 DEF Persist, Goes
    <3>2. Pending(g, i) = {} /\ Pending(g, i)' = {w \in requests : About(w, g, i)}  BY <3>1 DEF Pending
    <3>3. \A w \in requests : w.guid = job.guid  BY <3>1 DEF InHand
    <3>4. Agrees(ctrls[g].memory[i], said[g][i])  BY <2>t, <3>2 DEF Fits
    <3>5. CASE g = job.guid
      <4> DEFINE m == Merged(ctrls[g].rules)
                 J == job.memory[i]
      <4>1. ctrls'[g].memory = m
        <5>1. ctrls' = [ctrls EXCEPT ![g].memory = m, ![g].since = job.since]  BY <2>9, <3>5 DEF Persist
        <5>2. ctrls[g] \in Registered  BY <2>t DEF Tidy
        <5> HIDE DEF m
        <5> QED  BY <5>1, <5>2 DEF Registered, Here
      <4>2. said'[g][i] = IF i \in Over(g, m) /\ \A w \in requests : w.rule # i THEN "none" ELSE said[g][i]
        <5>1. said' = Note(g, Over(g, m) \ {w.rule : w \in requests}, "none")  BY <2>9, <3>5 DEF Persist
        <5> HIDE DEF m
        <5> QED  BY <1>g, <5>1 DEF Note, Typed, HistoryTyped
      <4>3. m[i] = J \/ (m[i] = Fresh /\ ctrls[g].memory[i] = Fresh)
        <5>1. ctrls[g].memory = OnlyOf(ctrls[g].rules, ctrls[g].memory)  BY <2>t DEF Tidy
        <5>2. ctrls[g].memory[i] = IF \E r \in ctrls[g].rules : r.id = i THEN ctrls[g].memory[i] ELSE Fresh
          BY <5>1 DEF OnlyOf
        <5> QED  BY <5>2 DEF Merged, OnlyOf
      <4>4. Pending(g, i)' = {w \in requests : w.rule = i}  BY <3>2, <3>3, <3>5 DEF About
      <4>5. ~Fresh.notified  BY DEF Fresh
      <4>6. /\ \A w \in requests : w.rule = i => WordFits(w, said[g][i]) /\ MemoryFits(w, J)
            /\ (\A w \in requests : w.rule # i) /\ J.notified => Agrees(J, said[g][i])
        <5>1. LET mine == {w \in requests : w.rule = i}
              IN /\ \A w \in mine : WordFits(w, said[g][i]) /\ MemoryFits(w, J)
                 /\ mine = {} /\ J.notified => Agrees(J, said[g][i])
          BY <3>1, <3>5 DEF JobAgrees
        <5> HIDE DEF J
        <5> QED  BY <5>1
      <4> HIDE DEF m, J
      <4>7. CASE \A w \in requests : w.rule # i
        <5>1. Agrees(m[i], said'[g][i])
          <6>1. CASE m[i].notified
            BY <4>2, <4>3, <4>5, <4>6, <4>7, <6>1 DEF Over
          <6>2. CASE ~m[i].notified /\ ctrls[g].memory[i].notified
            BY <4>2, <4>7, <6>2 DEF Over, Agrees
          <6>3. CASE ~m[i].notified /\ ~ctrls[g].memory[i].notified
            BY <3>4, <4>2, <6>3 DEF Agrees
          <6> QED  BY <6>1, <6>2, <6>3
        <5> QED  BY <4>1, <4>4, <4>7, <5>1 DEF Fits
      <4>8. CASE \E w \in requests : w.rule = i
        <5>1. said'[g][i] = said[g][i]  BY <4>2, <4>8
        <5>2. m[i] = Fresh /\ ctrls[g].memory[i] = Fresh => Agrees(m[i], said[g][i])  BY <3>4
        <5> QED  BY <4>1, <4>3, <4>4, <4>5, <4>6, <4>8, <5>1, <5>2 DEF Fits
      <4> QED  BY <4>7, <4>8
    <3>6. CASE g # job.guid
      <4>1. Pending(g, i)' = Pending(g, i)  BY <3>2, <3>3, <3>6 DEF About
      <4>2. ctrls'[g].memory = ctrls[g].memory  BY <2>9, <3>6 DEF Persist, Here
      <4> QED  BY <2>2, <3>1, <4>1, <4>2 DEF Send
    <3> QED  BY <3>5, <3>6
  <2>10. CASE PersistFails
    <3>1. pc = "persist" /\ requests' = {} /\ UNCHANGED ctrls  BY <2>10 DEF PersistFails, SaidUnpersisted
    <3>2. Pending(g, i)' = Pending(g, i)  BY <3>1 DEF Pending
    <3> QED  BY <2>2, <3>1, <3>2 DEF Send
  <2>11. ASSUME NEW w \in requests, Send(w) \/ SendFails(w) PROVE FitsAt(g, i)'
    <3>1. pc = "send" /\ pc' # "persist" /\ requests' = requests \ {w} /\ UNCHANGED ctrls
      BY <2>11 DEF Send, SendFails, Goes
    <3>2. Pending(g, i) = {x \in requests : About(x, g, i)} /\ Pending(g, i)' = Pending(g, i) \ {w}
      BY <3>1 DEF Pending
    <3>3. CASE About(w, g, i)
      <4>1. Pending(g, i) = {w} /\ Pending(g, i)' = {}  BY <1>q, <3>2, <3>3
      <4>2. MemoryFits(w, ctrls[g].memory[i]) \/ (~ctrls[g].memory[i].notified /\ Agrees(ctrls[g].memory[i], said[g][i]))
        BY <2>t, <4>1 DEF Fits
      <4>3. ASSUME NEW what PROVE NoteWord(w, what)[g][i] = what
        BY <1>g, <3>3 DEF About, NoteWord, Note, Typed, HistoryTyped
      <4>4. CASE SendFails(w)
        <5>1. said'[g][i] = "lost"  BY <4>3, <4>4 DEF SendFails
        <5> QED  BY <4>1, <5>1 DEF Fits, Agrees
      <4>5. CASE Send(w)
        <5> DEFINE word == IF w.transition = "recover" THEN "recover" ELSE w.severity
                   what == IF Stands(w) THEN word ELSE "none"
                   n == NoteWord(w, what)
                   q == Append(outbox, w)
        <5>1. said' = n \/ said' = [n EXCEPT ![q[1].guid][q[1].rule] = "lost"]  BY <4>5 DEF Send
        <5>2. n \in [Guids -> [Ids -> Sayings]] /\ n[g][i] = what
          <6>1. what \in Sayings /\ said \in [Guids -> [Ids -> Sayings]]
            BY DEF Typed, TickTyped, HistoryTyped, Word, Sayings
          <6> HIDE DEF what
          <6> QED  BY <4>3, <6>1, NoteTyped DEF NoteWord
        <5> HIDE DEF n, q
        <5>3. said'[g][i] \in {what, "lost"}  BY <1>g, <5>1, <5>2
        <5>4. Agrees(ctrls[g].memory[i], what)
          BY <3>3, <4>2 DEF Stands, About, MemoryFits, Agrees
        <5> HIDE DEF what
        <5> QED  BY <3>1, <4>1, <5>3, <5>4 DEF Fits, Agrees
      <4> QED  BY <2>11, <4>4, <4>5
    <3>4. CASE ~About(w, g, i)
      <4>1. Pending(g, i)' = Pending(g, i)  BY <3>2, <3>4
      <4>2. \A x \in requests : Send(x) => x = w  BY <3>1 DEF Send
      <4> QED  BY <2>2, <3>1, <3>4, <4>1, <4>2
    <3> QED  BY <3>3, <3>4
  <2>12. CASE NothingToSend \/ Unavailable \/ PopFails
    <3>1. pc \in {"look", "post", "pop"} /\ pc' # "persist" /\ UNCHANGED <<requests, ctrls>>
      BY <2>12 DEF NothingToSend, Unavailable, PopFails, DrainEnds, Goes
    <3> QED  BY <2>4, <3>1
  <2>13. CASE DropStale \/ Post \/ Rejected \/ Pop \/ \E h \in Guids, j \in Ids : Delivered(h, j)
    <3>1. pc \in {"look", "post", "pop"} /\ pc' # "persist" /\ UNCHANGED <<requests, ctrls>>
      BY <2>13 DEF DropStale, Post, Rejected, Pop, Delivered
    <3> QED  BY <2>4, <3>1
  <2>14. CASE Restart
    <3> DEFINE c == Reconciled(ctrls[g])
    <3>1. ctrls'[g] = c  BY <2>14 DEF Restart, Here
    <3>2. c.memory[i] = ctrls[g].memory[i] \/ c.memory[i] = Fresh
      <4>1. ctrls[g] \in Registered  BY <2>t DEF Tidy
      <4>2. c.memory = OnlyOf(ReconcileSeed(ctrls[g].rules, ctrls[g].preset), ctrls[g].memory)
        BY <4>1 DEF Reconciled, WithRules, Registered
      <4> QED  BY <4>2 DEF OnlyOf
    <3>3. said'[g][i] = IF i \in Over(g, c.memory) THEN "none"
                        ELSE IF pc \notin {"idle", "persist"} /\ \E w \in requests : w.guid = g /\ w.rule = i THEN "lost"
                        ELSE said[g][i]
      BY <1>g, <2>14 DEF Restart
    <3>4. Pending(g, i)' = {}  BY <2>14 DEF Restart, Pending
    <3> HIDE DEF c
    <3>5. CASE Pending(g, i) = {}
      <4>1. ~Fresh.notified  BY DEF Fresh
      <4>2. CASE i \in Over(g, c.memory)  BY <2>1, <3>1, <3>2, <3>3, <3>4, <3>5, <4>1, <4>2 DEF Over
      <4>3. CASE i \notin Over(g, c.memory) /\ c.memory[i] = ctrls[g].memory[i]
        BY <2>1, <3>1, <3>3, <3>4, <3>5, <4>3
      <4>4. CASE i \notin Over(g, c.memory) /\ c.memory[i] = Fresh
        BY <2>1, <3>1, <3>3, <3>4, <3>5, <4>1, <4>4 DEF Over
      <4> QED  BY <3>2, <4>2, <4>3, <4>4
    <3>6. CASE Pending(g, i) # {}
      <4>1. pc \notin {"idle", "persist"} /\ \E w \in requests : w.guid = g /\ w.rule = i
        BY <3>6 DEF Pending, About, InHand
      <4>2. said'[g][i] = "lost" \/ (said'[g][i] = "none" /\ ~c.memory[i].notified)  BY <3>3, <4>1 DEF Over
      <4> QED  BY <3>1, <3>4, <4>2 DEF Fits, Agrees
    <3> QED  BY <3>5, <3>6
  <2>15. ASSUME NEW h \in Guids, LongSilence(h) PROVE FitsAt(g, i)'
    <3>1. /\ ctrls' = [ctrls EXCEPT ![h].since = IF @ = "never" THEN @ ELSE "long"]
          /\ UNCHANGED <<requests, pc>>
      BY <2>15 DEF LongSilence
    <3>2. ctrls'[g].memory = ctrls[g].memory  BY <2>t, <3>1 DEF Here, Tidy, Registered
    <3>3. \A w \in requests : ~Send(w)  BY <3>1 DEF Send
    <3> QED  BY <2>2, <2>3, <3>1, <3>2, <3>3
  <2>16. ASSUME UNCHANGED <<requests, pc, ctrls>> PROVE FitsAt(g, i)'
    <3>1. \A w \in requests : ~Send(w)  BY <2>16 DEF Send
    <3> QED  BY <2>2, <2>3, <2>16, <3>1
  <2>17. CASE Poller  BY <2>7, <2>8, <2>9, <2>10, <2>11, <2>12, <2>13, <2>17 DEF Poller
  <2>18. CASE World  BY <2>14, <2>15, <2>16, <2>18 DEF World, Turn, Cooled, HourPasses
  <2>19. CASE UNCHANGED vars  BY <2>16, <2>19
  <2> QED  BY <2>6, <2>17, <2>18, <2>19 DEF Next
<1> QED  BY <1>1, <1>2

LEMMA InitAgrees == Init => EInv
<1> SUFFICES ASSUME Init PROVE EInv  OBVIOUS
<1>1. PICK p \in Presets : \E rules \in {s \in RuleSets[p] : OneEach(s)} :
         ctrls = [g \in {First} |-> [NewController(p) EXCEPT !.rules = rules]]
  BY DEF Init
<1>2. PICK rules \in {s \in RuleSets[p] : OneEach(s)} : ctrls = [g \in {First} |-> [NewController(p) EXCEPT !.rules = rules]]
  BY <1>1
<1>3. Here = {First} /\ ctrls[First].rules = rules /\ ctrls[First].memory = Untouched /\ OneEach(rules)
  BY <1>2 DEF Here, NewController
<1>4. /\ pc = "idle" /\ outbox = <<>> /\ requests = {} /\ tick = NoControllers /\ job = NoJob
      /\ owner = [g \in Guids |-> IF g = First THEN 1 ELSE 0] /\ said = [g \in Guids |-> [i \in Ids |-> "none"]]
  BY DEF Init
<1>5. InFlight = {NoGuid} /\ DOMAIN tick = {}  BY <1>4 DEF InFlight, NoControllers, NoJob
<1>6. Newcomers  BY <1>3, <1>4, <1>5, GuidAssumption, FirstAssumption DEF Newcomers, Unknown
<1>7. InHand  BY <1>4 DEF InHand
<1>8. SetsFit
  <2>1. StaleMemory(Untouched)  BY DEF StaleMemory, Untouched, Fresh, Ids
  <2>2. job.memory = Untouched  BY <1>4 DEF NoJob
  <2> QED  BY <1>3, <1>5, <2>1, <2>2 DEF SetsFit, RuleSetsFit, Here
<1>9. SaidAgrees
  <2>0. \A i \in Ids : ~ctrls[First].memory[i].notified  BY <1>3 DEF Untouched, Fresh
  <2>1. \A g \in Here, i \in Ids : said[g][i] = "none" /\ Pending(g, i) = {}  BY <1>3, <1>4, FirstAssumption DEF Pending
  <2> QED  BY <1>3, <2>0, <2>1 DEF SaidAgrees, Fits, Agrees
<1>10. TickAgrees /\ JobAgrees  BY <1>4, <1>5 DEF TickAgrees, JobAgrees
<1> QED  BY <1>6, <1>7, <1>8, <1>9, <1>10 DEF EInv

LEMMA AgreesStep ==
  ASSUME IdsKeepTheirKind, IInv, EInv, [Next]_vars
  PROVE  EInv'
<1>1. Typed /\ Newcomers /\ InHand /\ SetsFit /\ SaidAgrees /\ TickAgrees /\ JobAgrees  BY DEF IInv, EInv
<1>2. Newcomers' /\ InHand' /\ SetsFit'  BY <1>1, NewcomersStep, HandStep, SetsStep
<1>3. TickAgrees' /\ JobAgrees' /\ SaidAgrees'  BY <1>1, TickAgreesStep, JobAgreesStep, SaidAgreesStep
<1> QED  BY <1>2, <1>3 DEF EInv

LEMMA AgreesInvariant == ASSUME IdsKeepTheirKind PROVE Spec => []EInv
<1>1. IInv /\ EInv /\ [Next]_vars => EInv'  BY AgreesStep
<1> QED  BY InitAgrees, <1>1, Invariance, PTL DEF Spec

\* An alarm is entered once, and what is repeated or called off had been entered
\* with that severity and not been called off since, unless that word was lost
\* or a tick that had read the alarm speaks of a rule removed since: whatever
\* requests, failed writes and restarts come between the poll that decides, the
\* write that remembers and the one that queues.  As long as no id changes the
\* kind of rule it names: the memory a rule is judged by is kept for its id.
THEOREM EachSaidOnce == ASSUME IdsKeepTheirKind PROVE Spec => []SaidOnce
<1>1. EInv /\ Typed => SaidOnce
  <2> SUFFICES ASSUME EInv, Typed, pc = "send", NEW w \in requests, w.guid \in Here
               PROVE  WordFits(w, said[w.guid][w.rule])
    BY DEF SaidOnce, WordFits
  <2>1. w.rule \in Ids  BY DEF Typed, TickTyped, Word
  <2>2. w \in Pending(w.guid, w.rule)  BY DEF Pending, About
  <2> QED  BY <2>1, <2>2 DEF EInv, SaidAgrees, Fits
<1>2. IInv => Typed  BY DEF IInv
<1> QED  BY AgreesInvariant, Invariance, <1>1, <1>2, PTL

\* A rule that is removed and added again starts afresh, unless a tick was under
\* way that had read its alarm: the merge restores no memory of a rule the
\* document no longer has, and what is latched was entered since, or is about
\* to be.
THEOREM NothingLatched == ASSUME IdsKeepTheirKind PROVE Spec => []NoResidue
<1>1. IInv /\ EInv => NoResidue
  <2> SUFFICES ASSUME IInv, EInv, NEW g \in Here PROVE
        /\ ctrls[g].memory = OnlyOf(ctrls[g].rules, ctrls[g].memory)
        /\ \A i \in Ids : ctrls[g].memory[i].notified /\ said[g][i] = "none" =>
              pc # "persist" /\ \E w \in requests : w.guid = g /\ w.rule = i /\ w.transition = "enter"
    BY DEF NoResidue
  <2>1. ctrls[g].memory = OnlyOf(ctrls[g].rules, ctrls[g].memory)  BY DEF IInv, Typed, DocTyped, Tidy
  <2>2. ASSUME NEW i \in Ids, ctrls[g].memory[i].notified, said[g][i] = "none"
        PROVE  pc # "persist" /\ \E w \in requests : w.guid = g /\ w.rule = i /\ w.transition = "enter"
    <3>1. ctrls[g].memory[i].last \in Alarms
      <4>1. ctrls[g].memory \in [Ids -> Memory]  BY DEF IInv, Typed, DocTyped, Tidy, Registered
      <4> QED  BY <2>2, <4>1 DEF Memory
    <3>2. Fits(Pending(g, i), ctrls[g].memory[i], "none")  BY <2>2 DEF EInv, SaidAgrees
    <3>3. ~Agrees(ctrls[g].memory[i], "none")  BY <2>2, <3>1 DEF Agrees, Alarms
    <3>4. PICK w \in Pending(g, i) : WordFits(w, "none")  BY <3>2, <3>3 DEF Fits
    <3>5. pc # "persist" /\ w \in requests /\ About(w, g, i)  BY DEF Pending
    <3>6. w.severity # "none"  BY <3>5 DEF IInv, Typed, TickTyped, Word, Alarms
    <3>7. w.transition = "enter"  BY <3>4, <3>6 DEF WordFits
    <3> QED  BY <3>5, <3>7 DEF About
  <2> QED  BY <2>1, <2>2
<1> QED  BY AgreesInvariant, Invariance, <1>1, PTL

-----------------------------------------------------------------------------
(* What the user was told.                                                 *)

\* The last word in the queue about a rule calls its alarm off; or there is
\* none, and the user was told of no alarm.
Ends(g, i, k) ==
    /\ k \in 0..Len(outbox)
    /\ \A l \in DOMAIN outbox : l > k => ~About(outbox[l], g, i)
    /\ IF k = 0 THEN ~told[g][i] ELSE About(outbox[k], g, i) /\ outbox[k].transition = "recover"
CallsOff == \A g \in Here, i \in Ids : said[g][i] = "recover" => \E k \in 0..Len(outbox) : Ends(g, i, k)

\* What is being delivered is first in the queue, unless the queue went with
\* the household; and a word that calls off has done so once it is delivered.
HeadFirst ==
    /\ pc \in {"post", "pop"} => IF outbox = <<>> THEN head.guid \notin Here ELSE head = outbox[1]
    /\ pc = "pop" /\ head.guid \in Here /\ head.transition = "recover" /\ said[head.guid][head.rule] = "recover"
         => ~told[head.guid][head.rule]

\* With one controller to a household, its words are the last in the queue.
Single ==
    /\ pc # "persist" => job.guid = NoGuid
    /\ \A g, h \in Here : g = h
    /\ \A g, h \in InFlight \ {NoGuid} : g = h
    /\ \A k \in DOMAIN outbox : outbox[k].guid \in Here =>
         /\ \A l \in DOMAIN outbox : k < l => outbox[l].guid = outbox[k].guid
         /\ InFlight \subseteq {outbox[k].guid, NoGuid}

CInv == CallsOff /\ HeadFirst /\ Single

\* One step of the queue: at most one word leaves it, at its front, at most one
\* joins it, at its end, and those between keep their order.
SameWord(v, w) == v.guid = w.guid /\ v.rule = w.rule /\ v.transition = w.transition
Shifts(d, n) ==
    /\ Len(outbox') = Len(outbox) - d + n
    /\ \A k \in 1..(Len(outbox) - d) : SameWord(outbox'[k], outbox[k + d])
    /\ d = 1 => outbox # <<>> /\ (DropStale \/ Pop \/ \E w \in requests : Send(w) /\ Len(Append(outbox, w)) > OutboxLimit)
    /\ n = 1 => \E w \in requests : Send(w) /\ outbox'[Len(outbox')] = w
    /\ n = 0 => \A w \in requests : ~Send(w)

LEMMA QueueShifts ==
  ASSUME Typed, [Next]_vars, ~DropHousehold
  PROVE  \E d, n \in {0, 1} : Shifts(d, n)
<1> USE DEF doc, world, poller, ghost, vars
<1> DEFINE Good == \E d, n \in {0, 1} : Shifts(d, n)
<1>t. outbox \in Seq(Word) /\ Len(outbox) \in Nat /\ Len(outbox) <= OutboxLimit /\ OutboxLimit \in Nat \ {0}
      /\ requests \subseteq Word
  <2>1. outbox \in Seq(Word) /\ Len(outbox) <= OutboxLimit /\ OutboxLimit \in Nat \ {0} /\ requests \subseteq Word
    BY LimitAssumption DEF Typed, QueueTyped, TickTyped
  <2> QED  BY <2>1
<1>1. ASSUME outbox' = outbox, \A w \in requests : ~Send(w) PROVE Good
  <2>1. Shifts(0, 0)  BY <1>1, <1>t DEF Shifts, SameWord
  <2> QED  BY <2>1
<1>2. ASSUME outbox' = Tail(outbox), outbox # <<>>, DropStale \/ Pop, \A w \in requests : ~Send(w) PROVE Good
  <2>0. outbox' = Tail(outbox) /\ outbox # <<>>  BY <1>2
  <2>1. outbox' \in Seq(Word) /\ Len(outbox') = Len(outbox) - 1
        /\ \A k \in 1..Len(outbox') : outbox'[k] = outbox[k + 1]
    BY <1>t, <2>0
  <2>2. Len(outbox') = Len(outbox) - 1 + 0  BY <1>t, <2>1
  <2>3. \A k \in 1..(Len(outbox) - 1) : SameWord(outbox'[k], outbox[k + 1])  BY <2>1 DEF SameWord
  <2>4. Shifts(1, 0)
    <3>1. DropStale \/ Pop \/ \E w \in requests : Send(w) /\ Len(Append(outbox, w)) > OutboxLimit  BY <1>2
    <3>2. \A w \in requests : ~Send(w)  BY <1>2
    <3>3. outbox # <<>>  BY <2>0
    <3>4. ~(0 = 1)  OBVIOUS
    <3> QED  BY <2>2, <2>3, <3>1, <3>2, <3>3, <3>4, Zenon DEF Shifts
  <2> QED  BY <2>4
<1>3. ASSUME NEW w \in requests, Send(w) PROVE Good
  <2> DEFINE p == Append(outbox, w)
  <2>1. outbox' = Capped(p) /\ w \in Word  BY <1>3, <1>t DEF Send
  <2>2. /\ Len(p) = Len(outbox) + 1 /\ p \in Seq(Word)
        /\ \A k \in 1..Len(outbox) : p[k] = outbox[k]
        /\ p[Len(outbox) + 1] = w
    BY <1>t, <2>1
  <2>3. CASE Len(p) <= OutboxLimit
    <3>1. outbox' = p  BY <2>1, <2>3 DEF Capped
    <3> HIDE DEF p
    <3>2. Len(outbox') = Len(outbox) - 0 + 1  BY <1>t, <2>2, <3>1
    <3>3. \A k \in 1..(Len(outbox) - 0) : SameWord(outbox'[k], outbox[k + 0])  BY <1>t, <2>2, <3>1 DEF SameWord
    <3>4. outbox'[Len(outbox')] = w  BY <1>t, <2>2, <3>1, <3>2
    <3>5. Shifts(0, 1)  BY <1>3, <3>2, <3>3, <3>4 DEF Shifts
    <3> QED  BY <3>5
  <2>4. CASE ~(Len(p) <= OutboxLimit)
    <3>1. outbox' = SubSeq(p, Len(p) - OutboxLimit + 1, Len(p))  BY <2>1, <2>4 DEF Capped
    <3>2. Len(p) = OutboxLimit + 1 /\ Len(outbox) = OutboxLimit  BY <1>t, <2>2, <2>4
    <3>3. outbox' = SubSeq(p, 2, OutboxLimit + 1)  BY <1>t, <3>1, <3>2
    <3>4. Len(p) > OutboxLimit  BY <1>t, <3>2
    <3>5. \E v \in requests : Send(v) /\ Len(Append(outbox, v)) > OutboxLimit  BY <1>3, <3>4
    <3> HIDE DEF p
    <3>6. Len(outbox') = OutboxLimit /\ \A k \in 1..OutboxLimit : outbox'[k] = p[k + 1]
      BY <1>t, <2>2, <3>2, <3>3
    <3>7. outbox # <<>>  BY <1>t, <3>2
    <3>8. Shifts(1, 1)
      <4>1. Len(outbox') = Len(outbox) - 1 + 1  BY <1>t, <3>2, <3>6
      <4>2. \A k \in 1..(Len(outbox) - 1) : SameWord(outbox'[k], outbox[k + 1])
        BY <1>t, <2>2, <3>2, <3>6 DEF SameWord
      <4>3. outbox'[Len(outbox')] = w  BY <1>t, <2>2, <3>2, <3>6
      <4> QED  BY <1>3, <3>5, <3>7, <4>1, <4>2, <4>3 DEF Shifts
    <3> QED  BY <3>8
  <2> QED  BY <2>3, <2>4
<1>4. CASE DropStale \/ Pop
  <2>1. \A w \in requests : ~Send(w)  BY <1>4 DEF DropStale, Pop, Send
  <2> QED  BY <1>1, <1>2, <1>4, <2>1 DEF DropStale, Pop
<1>5. CASE HourPasses
  <2>1. outbox' = [k \in DOMAIN outbox |-> [outbox[k] EXCEPT !.old = TRUE]] /\ pc = "idle"  BY <1>5 DEF HourPasses
  <2>2. DOMAIN outbox = 1..Len(outbox) /\ \A k \in 1..Len(outbox) : outbox[k] \in Word  BY <1>t
  <2>3. \A w \in Word : [w EXCEPT !.old = TRUE] \in Word /\ SameWord([w EXCEPT !.old = TRUE], w)  BY DEF Word, SameWord
  <2>4. outbox' \in [1..Len(outbox) -> Word]  BY <2>1, <2>2, <2>3
  <2>5. Len(outbox') = Len(outbox)  BY <1>t, <2>4
  <2>6. \A k \in 1..Len(outbox) : SameWord(outbox'[k], outbox[k])  BY <2>1, <2>2, <2>3
  <2>7. \A w \in requests : ~Send(w)  BY <2>1 DEF Send
  <2>8. Shifts(0, 0)  BY <1>t, <2>5, <2>6, <2>7 DEF Shifts
  <2> QED  BY <2>8
<1>6. ASSUME UNCHANGED <<outbox, pc>> \/ (outbox' = outbox /\ pc # "send") PROVE Good
  <2>1. \A w \in requests : ~Send(w)  BY <1>6 DEF Send
  <2> QED  BY <1>1, <1>6, <2>1
<1>7. ASSUME NEW w \in requests, SendFails(w), ~\E v \in requests : Send(v) PROVE Good
  BY <1>1, <1>7 DEF SendFails
<1>8. CASE Requests
  BY <1>6, <1>8 DEF Requests, Register, ChangePreset, PutRules, Ruled, DeleteController, RotateController,
     ClearHousehold, FoundHousehold, Park, Resume
<1>9. CASE Poller
  BY <1>3, <1>4, <1>6, <1>7, <1>9 DEF Poller, Tick, PollController, Persist, PersistFails, NothingToSend,
     Post, Rejected, Unavailable, PopFails, Delivered
<1>10. CASE World
  <2>1. CASE Restart
    <3>1. outbox' = outbox  BY <2>1 DEF Restart
    <3>2. CASE \E w \in requests : Send(w)  BY <1>3, <3>2
    <3>3. CASE ~\E w \in requests : Send(w)  BY <1>1, <3>1, <3>3
    <3> QED  BY <3>2, <3>3
  <2> QED  BY <1>5, <1>6, <1>10, <2>1 DEF World, Turn, Cooled, LongSilence
<1>11. CASE UNCHANGED vars  BY <1>6, <1>11
<1> QED  BY <1>8, <1>9, <1>10, <1>11 DEF Next

\* A rule's word that is queued calls off if it is said to; one that is pushed
\* out of the queue is lost.
LEMMA SendSays ==
  ASSUME Typed, NEW w \in requests, Send(w), NEW g \in Here, NEW i \in Ids
  PROVE  /\ About(w, g, i) /\ said'[g][i] = "recover" => w.transition = "recover"
         /\ outbox # <<>> /\ Len(Append(outbox, w)) > OutboxLimit /\ About(outbox[1], g, i) => said'[g][i] = "lost"
<1> DEFINE word == IF w.transition = "recover" THEN "recover" ELSE w.severity
           what == IF Stands(w) THEN word ELSE "none"
           n == NoteWord(w, what)
           q == Append(outbox, w)
           kept == Capped(q)
<1>1. said' = IF Len(kept) < Len(q) /\ q[1].guid \in Here THEN [n EXCEPT ![q[1].guid][q[1].rule] = "lost"] ELSE n
  BY DEF Send
<1>2. /\ said \in [Guids -> [Ids -> Sayings]] /\ g \in Guids /\ w \in Word /\ w.severity \in Alarms
      /\ outbox \in Seq(Word) /\ OutboxLimit \in Nat \ {0}
  BY LimitAssumption DEF Typed, DocTyped, QueueTyped, TickTyped, HistoryTyped, Sayings, Word
<1>3. n \in [Guids -> [Ids -> Sayings]] /\ (About(w, g, i) => n[g][i] = what)
  <2>1. what \in Sayings  BY <1>2 DEF Sayings
  <2> HIDE DEF what
  <2>2. n \in [Guids -> [Ids -> Sayings]]  BY <1>2, <2>1, NoteTyped DEF NoteWord
  <2>3. About(w, g, i) => n[g][i] = what  BY <1>2 DEF About, NoteWord, Note
  <2> QED  BY <2>2, <2>3
<1> HIDE DEF n
<1>4. said'[g][i] \in {n[g][i], "lost"}
  <2> HIDE DEF q, kept
  <2> QED  BY <1>1, <1>2, <1>3
<1>5. About(w, g, i) /\ said'[g][i] = "recover" => w.transition = "recover"
  BY <1>2, <1>3, <1>4 DEF Alarms
<1>6. ASSUME outbox # <<>>, Len(q) > OutboxLimit, About(outbox[1], g, i) PROVE said'[g][i] = "lost"
  <2>1. Len(outbox) \in Nat /\ Len(q) = Len(outbox) + 1 /\ q[1] = outbox[1]  BY <1>2, <1>6
  <2>2. Len(kept) < Len(q)
    <3>1. Len(kept) <= OutboxLimit  BY <1>2, CappedQueue
    <3>2. Len(kept) \in Nat
      <4>1. kept \in Seq(Word)  BY <1>2, CappedQueue
      <4> HIDE DEF kept
      <4> QED  BY <4>1
    <3> HIDE DEF kept, q
    <3> QED  BY <1>2, <1>6, <2>1, <3>1, <3>2
  <2> HIDE DEF q, kept
  <2> QED  BY <1>1, <1>2, <1>3, <1>6, <2>1, <2>2 DEF About
<1> QED  BY <1>5, <1>6

\* The user learns of an alarm when a word that does not call off is taken.
LEMMA ToldStep ==
  ASSUME Typed, Newcomers, [Next]_vars, NEW g \in Here \cap Here', NEW i \in Ids, told'[g][i]
  PROVE  told[g][i] \/ (pc = "post" /\ About(head, g, i) /\ head.transition # "recover")
<1> DEFINE Good == told[g][i] \/ (pc = "post" /\ About(head, g, i) /\ head.transition # "recover")
<1> USE DEF doc, world, poller, ghost, vars
<1>t. told \in [Guids -> [Ids -> BOOLEAN]] /\ g \in Guids  BY DEF Typed, DocTyped, HistoryTyped
<1>1. ASSUME told' = told PROVE Good  BY <1>1
<1>2. ASSUME NEW gs, Forget(gs) PROVE Good  BY <1>t, <1>2 DEF Forget
<1>3. ASSUME NEW k \in Guids, NEW h \in Guids, RotateController(k, h) PROVE Good
  <2>1. g # h  BY <1>3 DEF RotateController, Newcomers, Unknown
  <2>2. g # k
    <3>1. Here' = (Here \ {k}) \cup {h}  BY <1>3 DEF RotateController, Here
    <3> QED  BY <2>1, <3>1
  <2> QED  BY <1>3, <1>t, <2>1, <2>2 DEF RotateController
<1>4. ASSUME NEW h \in Guids, NEW j \in Ids, Delivered(h, j) PROVE Good
  <2> DEFINE b == h \in Here /\ head.transition # "recover"
  <2>1. told' = [told EXCEPT ![h][j] = b] /\ pc = "post" /\ head.guid = h /\ head.rule = j  BY <1>4 DEF Delivered
  <2> HIDE DEF b
  <2>2. told'[g][i] = IF g = h /\ i = j THEN b ELSE told[g][i]  BY <1>t, <2>1
  <2> QED  BY <2>1, <2>2 DEF b, About
<1>5. CASE Requests
  BY <1>1, <1>2, <1>3, <1>5 DEF Requests, Register, ChangePreset, PutRules, Ruled, DeleteController, ClearHousehold,
     DropHousehold, FoundHousehold, Park, Resume
<1>6. CASE Poller
  BY <1>1, <1>4, <1>6 DEF Poller, Tick, PollController, Persist, PersistFails, Send, SendFails, NothingToSend, DropStale,
     Post, Rejected, Unavailable, Pop, PopFails
<1>7. CASE World  BY <1>1, <1>7 DEF World, Restart, Turn, Cooled, LongSilence, HourPasses
<1>8. CASE UNCHANGED vars  BY <1>1, <1>8
<1> QED  BY <1>5, <1>6, <1>7, <1>8 DEF Next

\* The job is no controller's once it is persisted.
LEMMA JobStep ==
  ASSUME Typed, [Next]_vars, pc # "persist" => job.guid = NoGuid
  PROVE  pc' # "persist" => job'.guid = NoGuid
<1> USE DEF doc, world, poller, ghost, vars
<1> SUFFICES ASSUME pc' # "persist" PROVE job'.guid = NoGuid  OBVIOUS
<1>1. CASE job' = job /\ pc # "persist"  BY <1>1
<1>2. CASE job' = NoJob  BY <1>2 DEF NoJob
<1>3. CASE UNCHANGED <<job, pc>>  BY <1>3
<1>4. CASE Requests
  BY <1>3, <1>4 DEF Requests, Register, ChangePreset, PutRules, Ruled, DeleteController, RotateController,
     ClearHousehold, DropHousehold, FoundHousehold, Park, Resume
<1>5. CASE Poller
  BY <1>1, <1>2, <1>3, <1>5 DEF Poller, Tick, PollController, Persist, PersistFails, Send, SendFails, DrainEnds,
     NothingToSend, DropStale, Post, Rejected, Unavailable, Pop, PopFails, Delivered
<1>6. CASE World  BY <1>2, <1>3, <1>6 DEF World, Restart, Turn, Cooled, LongSilence, HourPasses
<1>7. CASE UNCHANGED vars  BY <1>3, <1>7
<1> QED  BY <1>4, <1>5, <1>6, <1>7 DEF Next

\* A household whose plan allows one controller has one.
LEMMA OnlyOneStep ==
  ASSUME Quota = 1, Typed, \A g, h \in Here : g = h, [Next]_vars
  PROVE  \A g, h \in Here' : g = h
<1> USE DEF doc, world, poller, ghost, vars
<1>1. CASE Here' \subseteq Here  BY <1>1
<1>2. ASSUME NEW h \in Guids, NEW p, Register(h, p) PROVE \A g, k \in Here' : g = k
  <2>1. Here' = Here \cup {h} /\ Cardinality(Here) < 1  BY <1>2 DEF Register, Set, Here
  <2>2. Here = {}
    <3> SUFFICES ASSUME NEW g \in Here PROVE FALSE  OBVIOUS
    <3>1. Here = {g}  OBVIOUS
    <3>2. Cardinality(Here) = 1  BY <3>1, FS_Singleton
    <3> QED  BY <2>1, <3>2
  <2> QED  BY <2>1, <2>2
<1>3. ASSUME NEW g \in Guids, NEW h \in Guids, RotateController(g, h) PROVE \A k, l \in Here' : k = l
  <2>1. g \in Here /\ Here' = (Here \ {g}) \cup {h}  BY <1>3 DEF RotateController, Here
  <2> QED  BY <2>1
<1>4. CASE (\A g \in Guids, p \in Added : ~Register(g, p)) /\ \A g, h \in Guids : ~RotateController(g, h)
  <2>1. ctrls \in [Here -> Tidy]  BY DEF Typed, DocTyped
  <2>2. ASSUME NEW g \in Here, NEW c, Ruled(g, c) PROVE Here' \subseteq Here
    BY <2>2 DEF Ruled, Set, Here
  <2>3. CASE UNCHANGED ctrls  BY <1>1, <2>3 DEF Here
  <2>4. CASE Requests
    <3>1. CASE \E g \in Guids : DeleteController(g)
      <4>1. Here' \subseteq Here  BY <3>1 DEF DeleteController, Restrict, Here
      <4> QED  BY <1>1, <4>1
    <3>2. CASE ClearHousehold \/ DropHousehold
      <4>1. Here' \subseteq Here  BY <3>2 DEF ClearHousehold, DropHousehold, NoControllers, Here
      <4> QED  BY <1>1, <4>1
    <3>3. CASE (\E g \in Guids, p \in Added : ChangePreset(g, p)) \/ \E g \in Here : \E rules \in RuleSets[ctrls[g].preset] : PutRules(g, rules)
      <4>1. Here' \subseteq Here  BY <2>2, <3>3 DEF ChangePreset, PutRules
      <4> QED  BY <1>1, <4>1
    <3> QED  BY <1>4, <2>3, <2>4, <3>1, <3>2, <3>3 DEF Requests, FoundHousehold, Park, Resume
  <2>5. CASE Persist \/ Restart \/ \E g \in Guids : LongSilence(g)
    <3>1. Here' \subseteq Here
      <4>1. CASE Persist  BY <2>1, <4>1 DEF Persist, Here
      <4>2. CASE Restart  BY <4>2 DEF Restart, Here
      <4>3. CASE \E g \in Guids : LongSilence(g)  BY <4>3 DEF LongSilence, Here
      <4> QED  BY <2>5, <4>1, <4>2, <4>3
    <3> QED  BY <1>1, <3>1
  <2>6. CASE Poller
    BY <2>3, <2>5, <2>6 DEF Poller, Tick, PollController, PersistFails, Send, SendFails, DrainEnds, NothingToSend,
       DropStale, Post, Rejected, Unavailable, Pop, PopFails, Delivered
  <2>7. CASE World  BY <2>3, <2>5, <2>7 DEF World, Turn, Cooled, HourPasses
  <2>8. CASE UNCHANGED vars  BY <2>3, <2>8
  <2> QED  BY <2>4, <2>6, <2>7, <2>8 DEF Next
<1> QED  BY <1>2, <1>3, <1>4

\* Words and jobs are of the household's one controller, or of one that is gone.
LEMMA SingleStep ==
  ASSUME Quota = 1, Typed, Newcomers, InHand, Single, [Next]_vars
  PROVE  Single'
<1>1. \A g, h \in Here' : g = h  BY OnlyOneStep DEF Single
<1>2. pc' # "persist" => job'.guid = NoGuid  BY JobStep DEF Single
<1>3. Tick => InFlight' \subseteq Here \cup {NoGuid}
  <2> SUFFICES ASSUME Tick PROVE InFlight' \subseteq Here \cup {NoGuid}  OBVIOUS
  <2>1. tick' = ctrls /\ UNCHANGED <<requests, job>> /\ requests = {} /\ pc = "idle"  BY DEF Tick, InHand
  <2>2. job.guid = NoGuid  BY <2>1 DEF Single
  <2> QED  BY <2>1, <2>2 DEF InFlight, Here
<1>4. ~Tick => InFlight' \subseteq InFlight \cup {NoGuid}  BY TickStep
<1>5. \A g, h \in InFlight' \ {NoGuid} : g = h  BY <1>3, <1>4 DEF Single
<1>6. ASSUME NEW k \in DOMAIN outbox', outbox'[k].guid \in Here'
      PROVE  /\ \A l \in DOMAIN outbox' : k < l => outbox'[l].guid = outbox'[k].guid
             /\ InFlight' \subseteq {outbox'[k].guid, NoGuid}
  <2> DEFINE g == outbox'[k].guid
  <2>1. ~DropHousehold
    <3>1. DropHousehold => Here' = {}  BY DEF DropHousehold, Here, NoControllers
    <3> QED  BY <1>6, <3>1
  <2>2. PICK d \in {0, 1}, n \in {0, 1} : Shifts(d, n)  BY <2>1, QueueShifts
  <2>3. /\ DOMAIN outbox = 1..Len(outbox) /\ DOMAIN outbox' = 1..Len(outbox')
        /\ Len(outbox) \in Nat /\ Len(outbox') \in Nat
    BY QueueStep DEF Typed, QueueTyped
  <2>4. g \in Guids /\ g # NoGuid /\ \A w \in requests : w.guid \in InFlight \ {NoGuid}
    BY <1>6, Arrivals, GuidAssumption DEF InFlight, Typed, TickTyped, Word
  <2>5. g \in Here
    <3>1. (\E j \in DOMAIN outbox : g = outbox[j].guid) \/ (\E w \in requests : g = w.guid)  BY QueueStep
    <3>2. g \in Here \/ owner[g] = 0  BY <1>6, Arrivals
    <3> QED  BY <2>4, <3>1, <3>2 DEF Newcomers, Unknown, InFlight
  \* The words that were queued before, and the one that joins them.
  <2>6. \A l \in 1..Len(outbox') : \/ l + d \in DOMAIN outbox /\ outbox'[l].guid = outbox[l + d].guid
                                   \/ l = Len(outbox') /\ \E w \in requests : Send(w) /\ outbox'[l] = w
    <3> SUFFICES ASSUME NEW l \in 1..Len(outbox')
                 PROVE  \/ l + d \in DOMAIN outbox /\ outbox'[l].guid = outbox[l + d].guid
                        \/ l = Len(outbox') /\ \E w \in requests : Send(w) /\ outbox'[l] = w
      OBVIOUS
    <3>1. Len(outbox') = Len(outbox) - d + n  BY <2>2 DEF Shifts
    <3>2. CASE l <= Len(outbox) - d
      <4>1. l \in 1..(Len(outbox) - d) /\ l + d \in DOMAIN outbox  BY <2>3, <3>2
      <4> QED  BY <2>2, <4>1 DEF Shifts, SameWord
    <3>3. CASE ~(l <= Len(outbox) - d)
      <4>1. l = Len(outbox') /\ n = 1  BY <2>3, <3>1, <3>3
      <4> QED  BY <2>2, <4>1 DEF Shifts
    <3> QED  BY <3>2, <3>3
  <2>7. (\E w \in requests : Send(w)) => InFlight' \subseteq InFlight \cup {NoGuid}
    <3>1. ASSUME NEW w \in requests, Send(w), Tick PROVE FALSE  BY <3>1 DEF Send, Tick
    <3> QED  BY <1>4, <3>1
  <2>8. CASE k + d \in DOMAIN outbox /\ g = outbox[k + d].guid
    <3>1. \A l \in DOMAIN outbox : k + d < l => outbox[l].guid = g  BY <2>5, <2>8 DEF Single
    <3>2. InFlight \subseteq {g, NoGuid}  BY <2>5, <2>8 DEF Single
    <3>3. InFlight' \subseteq {g, NoGuid}  BY <1>3, <1>4, <2>5, <3>2 DEF Single
    <3>4. ASSUME NEW l \in DOMAIN outbox', k < l PROVE outbox'[l].guid = g
      <4>1. CASE l + d \in DOMAIN outbox /\ outbox'[l].guid = outbox[l + d].guid
        <5>1. k + d < l + d  BY <1>6, <2>3, <3>4
        <5> QED  BY <3>1, <4>1, <5>1
      <4>2. CASE \E w \in requests : outbox'[l] = w  BY <2>4, <3>2, <4>2
      <4> QED  BY <2>3, <2>6, <3>4, <4>1, <4>2
    <3> QED  BY <3>3, <3>4
  <2>9. CASE k = Len(outbox') /\ \E w \in requests : Send(w) /\ outbox'[k] = w
    <3>1. \A l \in DOMAIN outbox' : ~(k < l)  BY <2>3, <2>9
    <3>2. g \in InFlight \ {NoGuid}  BY <2>4, <2>9
    <3>3. InFlight' \subseteq {g, NoGuid}  BY <2>7, <2>9, <3>2 DEF Single
    <3> QED  BY <3>1, <3>3
  <2> QED  BY <1>6, <2>3, <2>6, <2>8, <2>9
<1> QED  BY <1>1, <1>2, <1>5, <1>6 DEF Single

\* What is delivered is what is popped.
LEMMA HeadFirstStep ==
  ASSUME Typed, Newcomers, InHand, HeadFirst, [Next]_vars
  PROVE  HeadFirst'
<1>1. ASSUME pc' \in {"post", "pop"}
      PROVE  IF outbox' = <<>> THEN head'.guid \notin Here' ELSE head' = outbox'[1]
  <2>1. CASE outbox # <<>> /\ head' = outbox[1] /\ outbox' = outbox  BY <2>1
  <2>2. CASE pc \in {"post", "pop"} /\ head' = head /\ outbox' = outbox
    <3>1. head.guid \notin Here => head.guid \notin Here'
      <4>1. ASSUME head.guid \notin Here, head.guid \in Here' PROVE FALSE
        <5>1. head.guid \in Guids /\ owner[head.guid] = 0  BY <4>1, Arrivals
        <5> QED  BY <2>2, <5>1 DEF Newcomers, Unknown
      <4> QED  BY <4>1
    <3> QED  BY <2>2, <3>1 DEF HeadFirst
  <2>3. CASE DropHousehold
    <3>1. Here' = {} /\ outbox' = <<>>  BY <2>3 DEF DropHousehold, OutboxAfterDrop, Here, NoControllers
    <3> QED  BY <3>1
  <2> QED  BY <1>1, <2>1, <2>2, <2>3, HeadStep
<1>2. ASSUME pc' = "pop", head'.guid \in Here', head'.transition = "recover",
             said'[head'.guid][head'.rule] = "recover", told'[head'.guid][head'.rule]
      PROVE  FALSE
  <2> DEFINE g == head.guid
             i == head.rule
  <2>1. /\ pc \in {"post", "pop"} /\ head' = head
        /\ pc = "pop" \/ Rejected \/ \E h \in Guids, j \in Ids : Delivered(h, j)
    BY <1>2, HeadStep
  <2>2. g \in Here'  BY <1>2, <2>1
  <2>3. g \in Guids /\ g \in Here  BY <2>1, <2>2, Arrivals DEF Newcomers, Unknown
  <2>4. i \in Ids
    <3>1. head \in Word
      <4>1. head.transition = "recover"  BY <1>2, <2>1
      <4>2. head \in Word \cup {NoWord}  BY DEF Typed, HeadTyped
      <4> QED  BY <4>1, <4>2 DEF NoWord
    <3> QED  BY <3>1 DEF Word
  <2>5. told'[g][i] /\ said'[g][i] = "recover"  BY <1>2, <2>1
  <2>6. said[g][i] = "recover"
    <3>1. \A w \in requests : ~Send(w)  BY <1>2 DEF Send
    <3>2. \/ said'[g][i] \in {said[g][i], "lost", "ended"}
          \/ said'[g][i] = "none"
          \/ \E w \in requests : Send(w) /\ About(w, g, i) /\ g \in Here
      BY <2>3, <2>4, SaidSoftens
    <3> QED  BY <2>5, <3>1, <3>2
  <2>7. told[g][i]  BY <1>2, <2>1, <2>2, <2>3, <2>4, <2>5, ToldStep
  <2>8. CASE pc = "pop"  BY <1>2, <2>1, <2>3, <2>6, <2>7, <2>8 DEF HeadFirst
  <2>9. CASE Rejected
    <3>1. said'[g][i] = "lost"
      <4>1. said' = NoteWord(head, "lost")  BY <2>9 DEF Rejected
      <4> QED  BY <2>3, <2>4, <4>1 DEF NoteWord, Note, Typed, HistoryTyped
    <3> QED  BY <2>5, <3>1
  <2>10. ASSUME NEW h \in Guids, NEW j \in Ids, Delivered(h, j) PROVE FALSE
    <3>1. told' = [told EXCEPT ![g][i] = g \in Here /\ head.transition # "recover"]  BY <2>10 DEF Delivered
    <3>2. ~(g \in Here /\ head.transition # "recover")  BY <1>2, <2>1
    <3>3. told \in [Guids -> [Ids -> BOOLEAN]]  BY DEF Typed, HistoryTyped
    <3>4. ~told'[g][i]  BY <2>3, <2>4, <3>1, <3>2, <3>3
    <3> QED  BY <2>5, <3>4
  <2> QED  BY <2>1, <2>8, <2>9, <2>10
<1> QED  BY <1>1, <1>2 DEF HeadFirst

\* Where an alarm was called off, the last word in the queue about it says so,
\* or the user had not been told.
LEMMA CallsOffStep ==
  ASSUME Typed, Newcomers, InHand, HeadFirst, Single, CallsOff, [Next]_vars
  PROVE  CallsOff'
<1> SUFFICES ASSUME NEW g \in Here', NEW i \in Ids, said'[g][i] = "recover"
             PROVE  \E k \in 0..Len(outbox') : Ends(g, i, k)'
  BY DEF CallsOff
<1>1. ~DropHousehold
  <2>1. DropHousehold => Here' = {}  BY DEF DropHousehold, Here, NoControllers
  <2> QED  BY <2>1
<1>2. PICK d \in {0, 1}, n \in {0, 1} : Shifts(d, n)  BY <1>1, QueueShifts
<1>3. /\ DOMAIN outbox = 1..Len(outbox) /\ DOMAIN outbox' = 1..Len(outbox')
      /\ Len(outbox) \in Nat /\ Len(outbox') \in Nat /\ Len(outbox') = Len(outbox) - d + n
      /\ outbox # <<>> => Len(outbox) >= 1
  <2>1. outbox \in Seq(Word) /\ outbox' \in Seq(Word)  BY QueueStep DEF Typed, QueueTyped
  <2>2. Len(outbox') = Len(outbox) - d + n  BY <1>2 DEF Shifts
  <2> QED  BY <2>1, <2>2
<1>4. g \in Guids /\ g \in Here
  <2>1. g \in Guids /\ (g \in Here \/ owner[g] = 0)  BY Arrivals
  <2>2. Unknown(g) => said'[g][i] # "recover"
    <3>1. Unknown(g) => g \notin Here /\ said[g][i] \in {"none", "ended", "lost"}  BY DEF Unknown
    <3> QED  BY <2>1, <3>1, SaidSoftens
  <2> QED  BY <2>1, <2>2 DEF Newcomers
\* The word that calls the alarm off is queued in this step.
<1>5. ASSUME NEW w \in requests, Send(w), About(w, g, i) PROVE \E k \in 0..Len(outbox') : Ends(g, i, k)'
  <2>1. w.transition = "recover"  BY <1>4, <1>5, SendSays
  <2>2. n = 1  BY <1>2, <1>5 DEF Shifts
  <2>3. Len(outbox') >= 1
    <3>1. d = 1 => Len(outbox) >= 1  BY <1>2, <1>3 DEF Shifts
    <3> QED  BY <1>3, <2>2, <3>1
  <2>4. outbox'[Len(outbox')] = w
    <3>1. PICK v \in requests : Send(v) /\ outbox'[Len(outbox')] = v  BY <1>2, <2>2 DEF Shifts
    <3>2. requests' = requests \ {v} /\ requests' = requests \ {w}  BY <1>5, <3>1 DEF Send
    <3>3. v = w  BY <3>2
    <3> QED  BY <3>1, <3>3
  <2>5. Ends(g, i, Len(outbox))'  BY <1>3, <1>5, <2>1, <2>3, <2>4 DEF Ends, About
  <2> QED  BY <1>3, <2>5
\* It was called off before.
<1>6. ASSUME \A w \in requests : Send(w) => ~About(w, g, i) PROVE \E k \in 0..Len(outbox') : Ends(g, i, k)'
  <2>1. said[g][i] = "recover"  BY <1>4, <1>6, SaidSoftens
  <2>2. PICK k \in 0..Len(outbox) : Ends(g, i, k)  BY <1>4, <2>1 DEF CallsOff
  <2>3. \A l \in DOMAIN outbox : l > k => ~About(outbox[l], g, i)  BY <2>2 DEF Ends
  \* No other word about the rule joins or overtakes it.
  <2>4. ASSUME NEW l \in DOMAIN outbox', l + d > k PROVE ~About(outbox'[l], g, i)
    <3>1. CASE l <= Len(outbox) - d
      <4>1. l \in 1..(Len(outbox) - d) /\ l + d \in DOMAIN outbox  BY <1>3, <2>4, <3>1
      <4>2. SameWord(outbox'[l], outbox[l + d])  BY <1>2, <4>1 DEF Shifts
      <4> QED  BY <2>3, <2>4, <4>1, <4>2 DEF SameWord, About
    <3>2. CASE ~(l <= Len(outbox) - d)
      <4>1. l = Len(outbox') /\ n = 1  BY <1>3, <2>4, <3>2
      <4> QED  BY <1>2, <1>6, <4>1 DEF Shifts
    <3> QED  BY <3>1, <3>2
  \* The word stays in the queue...
  <2>5. CASE k > d
    <3>1. k - d \in 1..(Len(outbox) - d) /\ k - d \in 0..Len(outbox') /\ k - d # 0 /\ k - d + d = k
      BY <1>3, <2>2, <2>5
    <3>2. SameWord(outbox'[k - d], outbox[k])
      <4>1. SameWord(outbox'[k - d], outbox[k - d + d])  BY <1>2, <3>1 DEF Shifts
      <4> QED  BY <3>1, <4>1
    <3>3. About(outbox[k], g, i) /\ outbox[k].transition = "recover"  BY <2>2, <2>5 DEF Ends
    <3>4. \A l \in DOMAIN outbox' : l > k - d => ~About(outbox'[l], g, i)  BY <1>3, <2>2, <2>4
    <3>5. Ends(g, i, k - d)'  BY <3>1, <3>2, <3>3, <3>4 DEF Ends, SameWord, About
    <3> QED  BY <3>1, <3>5
  \* ...or the user needs none.
  <2>6. CASE ~(k > d)
    <3>1. ~told[g][i]
      <4>1. CASE k = 0  BY <2>2, <4>1 DEF Ends
      <4>2. CASE k = 1 /\ d = 1
        <5>1. About(outbox[1], g, i) /\ outbox[1].transition = "recover"  BY <2>2, <4>2 DEF Ends
        <5>2. /\ outbox # <<>>
              /\ DropStale \/ Pop \/ \E w \in requests : Send(w) /\ Len(Append(outbox, w)) > OutboxLimit
          BY <1>2, <4>2 DEF Shifts
        <5>3. CASE DropStale
          <6>1. ~LastForRule(outbox)  BY <5>1, <5>3 DEF DropStale, StaleAlert
          <6>2. PICK l \in 2..Len(outbox) : outbox[l].rule = outbox[1].rule  BY <6>1 DEF LastForRule
          <6>3. 1 \in DOMAIN outbox /\ l \in DOMAIN outbox /\ 1 < l /\ l > k  BY <1>3, <4>2, <6>2
          <6>4. outbox[l].guid = outbox[1].guid  BY <1>4, <5>1, <6>3 DEF Single, About
          <6> QED  BY <2>3, <5>1, <6>2, <6>3, <6>4 DEF About
        <5>4. CASE Pop
          <6>1. pc = "pop"  BY <5>4 DEF Pop
          <6>2. head = outbox[1]  BY <5>2, <6>1 DEF HeadFirst
          <6> QED  BY <1>4, <2>1, <5>1, <6>1, <6>2 DEF HeadFirst, About
        <5>5. ASSUME NEW w \in requests, Send(w), Len(Append(outbox, w)) > OutboxLimit PROVE FALSE
          BY <1>4, <5>1, <5>2, <5>5, SendSays
        <5> QED  BY <5>2, <5>3, <5>4, <5>5
      <4> QED  BY <2>2, <2>6, <4>1, <4>2
    <3>2. ~told'[g][i]
      <4>1. ASSUME told'[g][i], pc = "post", About(head, g, i), head.transition # "recover" PROVE FALSE
        <5>1. outbox # <<>> /\ head = outbox[1]  BY <1>4, <4>1 DEF HeadFirst, About
        <5>2. 1 \in DOMAIN outbox  BY <1>3, <5>1
        <5>3. CASE k = 0  BY <2>3, <4>1, <5>1, <5>2, <5>3
        <5>4. CASE k = 1  BY <2>2, <4>1, <5>1, <5>4 DEF Ends
        <5> QED  BY <2>2, <2>6, <5>3, <5>4
      <4> QED  BY <1>4, <3>1, <4>1, ToldStep
    <3>3. \A l \in DOMAIN outbox' : l > 0 => ~About(outbox'[l], g, i)  BY <1>3, <2>2, <2>4, <2>6
    <3>4. Ends(g, i, 0)'  BY <1>3, <3>2, <3>3 DEF Ends
    <3> QED  BY <1>3, <3>4
  <2> QED  BY <2>5, <2>6
<1> QED  BY <1>5, <1>6

LEMMA InitCalls == Init => CInv
<1> SUFFICES ASSUME Init PROVE CInv  OBVIOUS
<1>1. pc = "idle" /\ outbox = <<>> /\ requests = {} /\ tick = NoControllers /\ job = NoJob
  BY DEF Init
<1>2. Here = {First}
  <2>1. \E c : ctrls = [g \in {First} |-> c]  BY DEF Init
  <2> QED  BY <2>1 DEF Here
<1>3. \A i \in Ids : said[First][i] = "none"  BY FirstAssumption DEF Init
<1>4. InFlight = {NoGuid} /\ job.guid = NoGuid  BY <1>1 DEF InFlight, NoControllers, NoJob
<1>5. CallsOff  BY <1>2, <1>3 DEF CallsOff
<1>6. HeadFirst  BY <1>1 DEF HeadFirst
<1>7. Single  BY <1>1, <1>2, <1>4 DEF Single
<1> QED  BY <1>5, <1>6, <1>7 DEF CInv

\* With one controller to a household, an alarm the user was pushed and that
\* has been called off is on its way to be called off with the user too: the
\* word is with the tick or in the queue, whatever stale words are dropped
\* from it, unless it was lost to a restart, a failed write, the queue's limit
\* or the cloud's refusal.  With two controllers it is not so: a word of the
\* other one about the same default rule lets it be dropped.
THEOREM AlarmsAreCalledOff == ASSUME IdsKeepTheirKind, Quota = 1 PROVE Spec => []NoFalseAlarm
<1>1. IInv /\ EInv /\ CInv /\ [Next]_vars => CInv'
  <2> SUFFICES ASSUME IInv, EInv, CInv, [Next]_vars PROVE CInv'  OBVIOUS
  <2>1. Typed /\ Newcomers /\ InHand /\ CallsOff /\ HeadFirst /\ Single  BY DEF IInv, EInv, CInv
  <2> QED  BY <2>1, SingleStep, HeadFirstStep, CallsOffStep DEF CInv
<1>2. Spec => []CInv  BY InitCalls, <1>1, Invariance, AgreesInvariant, PTL DEF Spec
<1>3. Typed /\ EInv /\ CInv => NoFalseAlarm
  <2> SUFFICES ASSUME Typed, EInv, CInv, NEW g \in Here, NEW i \in Ids,
                      told[g][i], ~ctrls[g].memory[i].notified, said[g][i] \notin {"lost", "none", "ended"}
               PROVE  \/ \E w \in requests : w.guid = g /\ w.rule = i /\ w.transition = "recover"
                      \/ \E k \in DOMAIN outbox :
                           outbox[k].guid = g /\ outbox[k].rule = i /\ outbox[k].transition = "recover"
    BY DEF NoFalseAlarm
  <2>1. Fits(Pending(g, i), ctrls[g].memory[i], said[g][i])  BY DEF EInv, SaidAgrees
  <2>2. CASE Agrees(ctrls[g].memory[i], said[g][i])
    <3>1. said[g][i] = "recover"  BY <2>2 DEF Agrees
    <3>2. PICK k \in 0..Len(outbox) : Ends(g, i, k)  BY <3>1 DEF CInv, CallsOff
    <3>3. k # 0 /\ About(outbox[k], g, i) /\ outbox[k].transition = "recover"  BY <3>2 DEF Ends
    <3>4. k \in DOMAIN outbox  BY <3>2, <3>3 DEF Typed, QueueTyped
    <3> QED  BY <3>3, <3>4 DEF About
  <2>3. CASE ~Agrees(ctrls[g].memory[i], said[g][i])
    <3>1. PICK w \in Pending(g, i) : MemoryFits(w, ctrls[g].memory[i])  BY <2>1, <2>3 DEF Fits
    <3>2. w \in requests /\ About(w, g, i) /\ w.transition = "recover"  BY <3>1 DEF Pending, MemoryFits
    <3> QED  BY <3>2 DEF About
  <2> QED  BY <2>2, <2>3
<1>4. IInv => Typed  BY DEF IInv
<1> QED  BY <1>2, <1>3, <1>4, Invariance, AgreesInvariant, PTL

-----------------------------------------------------------------------------
(* What grading and seeding promise.                                       *)

\* A band that follows from a controller's configuration is in order, grades
\* nothing outside the controller's limits as better than bad, and its
\* setpoint as ok when it is within them and the rule brings the tolerance
\* (bandsFromControl, Banded.SeverityAt).
THEOREM ControlGrades ==
  ASSUME NEW cc \in [unbanded : BOOLEAN, min : Int, max : Int, target : Int,
                     hasOk : BOOLEAN, okLow : Int, okHigh : Int],
         NEW tol \in Int, FromControl(cc, tol) # NoBand
  PROVE  /\ Ordered(FromControl(cc, tol))
         /\ \A v \in Int : v < cc.min \/ cc.max <= v => SeverityAt(FromControl(cc, tol), v) = "bad"
         /\ ~cc.hasOk /\ cc.min <= cc.target /\ cc.target < cc.max
              => SeverityAt(FromControl(cc, tol), cc.target) = "ok"
<1> DEFINE band == Band(cc.min, AtLeast(cc.min, OkLow(cc, tol)), AtMost(cc.max, OkHigh(cc, tol)), cc.max)
<1>1. FromControl(cc, tol) = band /\ Ordered(band) /\ (cc.hasOk \/ tol > 0)  BY DEF FromControl
<1>2. /\ band.min = cc.min /\ band.max = cc.max
      /\ band.okMin = AtLeast(cc.min, OkLow(cc, tol)) /\ band.okMax = AtMost(cc.max, OkHigh(cc, tol))
  BY DEF Band
<1>3. OkLow(cc, tol) \in Int /\ OkHigh(cc, tol) \in Int  BY DEF OkLow, OkHigh
<1>4. AtLeast(cc.min, OkLow(cc, tol)) \in Int /\ AtMost(cc.max, OkHigh(cc, tol)) \in Int
  BY <1>3 DEF AtLeast, AtMost
<1> HIDE DEF band
<1>5. ASSUME NEW v \in Int, v < cc.min \/ cc.max <= v PROVE SeverityAt(band, v) = "bad"
  BY <1>1, <1>2, <1>4, <1>5 DEF SeverityAt, Ordered
<1>6. ASSUME ~cc.hasOk, cc.min <= cc.target, cc.target < cc.max PROVE SeverityAt(band, cc.target) = "ok"
  <2>1. OkLow(cc, tol) = cc.target - tol /\ OkHigh(cc, tol) = cc.target + tol /\ tol > 0
    BY <1>1, <1>6 DEF OkLow, OkHigh
  <2>2. band.okMin <= cc.target /\ cc.target < band.okMax  BY <1>2, <1>6, <2>1 DEF AtLeast, AtMost
  <2> QED  BY <1>1, <1>2, <1>4, <1>6, <2>2 DEF SeverityAt, Ordered
<1> QED  BY <1>1, <1>5, <1>6

\* Bringing a rule set in line with a preset leaves every app's rule as it is,
\* a rule for every measured type, no default for another, and a watchdog; and
\* nothing to do for the next time (ReconcileSeed, which every start repeats).
THEOREM SeedSettles ==
  ASSUME NEW rules, NEW preset \in Presets
  PROVE  LET seeded == ReconcileSeed(rules, preset)
         IN /\ \A r \in rules : r.source # "default" => r \in seeded
            /\ \A r \in seeded \ rules : r.source = "default"
            /\ \A t \in Measures[preset] : Covers(seeded, t)
            /\ ~\E r \in seeded : Inapplicable(r, preset)
            /\ \E r \in seeded : r.kind = "stale"
            /\ ReconcileSeed(seeded, preset) = seeded
<1> DEFINE kept   == {r \in rules : ~Inapplicable(r, preset)}
           bands  == {DefaultBandRule(t) : t \in {u \in Measures[preset] : ~Covers(kept, u)}}
           watch  == IF \E r \in kept : r.kind = "stale" THEN {} ELSE {DefaultStaleRule}
           seeded == ReconcileSeed(rules, preset)
<1>1. seeded = kept \cup bands \cup watch  BY DEF ReconcileSeed
<1>2. \A r \in bands : r.kind = "band" /\ r.source = "default" /\ r.type \in Measures[preset]
  <2> SUFFICES ASSUME NEW t \in Measures[preset], NEW r, r = DefaultBandRule(t)
               PROVE  r.kind = "band" /\ r.source = "default" /\ r.type \in Measures[preset]
    OBVIOUS
  <2> QED  BY DEF DefaultBandRule
<1>3. \A r \in watch : r.kind = "stale" /\ r.source = "default"  BY DEF DefaultStaleRule
<1>4. \A t \in Measures[preset] : Covers(seeded, t)
  <2> SUFFICES ASSUME NEW t \in Measures[preset] PROVE Covers(seeded, t)  OBVIOUS
  <2>1. CASE Covers(kept, t)  BY <1>1, <2>1 DEF Covers
  <2>2. CASE ~Covers(kept, t)
    <3>1. DefaultBandRule(t) \in bands  BY <2>2
    <3>3. DefaultBandRule(t) \in seeded  BY <1>1, <3>1
    <3>2. DefaultBandRule(t).kind = "band" /\ DefaultBandRule(t).type = t  BY DEF DefaultBandRule
    <3> QED  BY <3>2, <3>3 DEF Covers
  <2> QED  BY <2>1, <2>2
<1>5. ~\E r \in seeded : Inapplicable(r, preset)  BY <1>1, <1>2, <1>3 DEF Inapplicable
<1>6. \E r \in seeded : r.kind = "stale"
  <2>1. CASE \E r \in kept : r.kind = "stale"  BY <1>1, <2>1
  <2>2. CASE ~\E r \in kept : r.kind = "stale"
    <3>1. DefaultStaleRule \in watch  BY <2>2
    <3> QED  BY <1>1, <1>3, <3>1
  <2> QED  BY <2>1, <2>2
<1>7. \A r \in rules : r.source # "default" => r \in seeded  BY <1>1 DEF Inapplicable
<1>8. \A r \in seeded \ rules : r.source = "default"  BY <1>1, <1>2, <1>3
<1> HIDE DEF seeded, kept, bands, watch
<1>9. ReconcileSeed(seeded, preset) = seeded
  <2>1. {r \in seeded : ~Inapplicable(r, preset)} = seeded  BY <1>5
  <2>2. {u \in Measures[preset] : ~Covers(seeded, u)} = {}  BY <1>4
  <2> QED  BY <1>6, <2>1, <2>2 DEF ReconcileSeed
<1> QED  BY <1>4, <1>5, <1>6, <1>7, <1>8, <1>9 DEF seeded
==============================================================================
