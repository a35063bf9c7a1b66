------------------------------- MODULE Alerts --------------------------------
(***************************************************************************)
(* From a reading to a push.  The poller's tick works from the document as *)
(* it was when the tick began: it polls one controller after the other,    *)
(* runs the alert engine on the rules and the memory it read, merges the   *)
(* memory back into whatever the document has become, and only then queues *)
(* what the rules had to say in the outbox and drains it.  Requests that   *)
(* change the rules, rotate or remove the controller and the household     *)
(* itself come in between; the process may die at any step.                *)
(***************************************************************************)
EXTENDS Bands, AlertEngine, Sequences, FiniteSets, Functions, SequencesExt

CONSTANTS
    Guids,          \* cloud identities controllers get, each once
    First,          \* the one registered at the start
    Added,          \* the presets of those registered later and of changes
    RuleSets,       \* the rule sets apps write, for each preset
    Controls,       \* what a controller's configuration says of a value
    Readings,       \* values it measures
    Tolerance,      \* OkTolerance of the rules
    Quota,          \* controllers the household's plan allows
    OutboxLimit,
    MaxHouseholds,  \* bound: foundings, the first one included
    MaxEvents       \* bound: changes of rules, controllers and household,
                    \* restarts, failed writes and rejected words, together

ASSUME FirstAssumption == First \in Guids
ASSUME AddedAssumption == Added \subseteq Presets
ASSUME RuleSetAssumption == RuleSets \in [Presets -> SUBSET SUBSET Rules]
ASSUME LimitAssumption == {Quota, OutboxLimit, MaxHouseholds} \subseteq Nat \ {0}
ASSUME BoundsAssumption == MaxEvents \in Nat

VARIABLES
    stage,     \* "paired", "cleared" (last device gone) or "none" (no token)
    founded,   \* households so far; the current one is the last
    parked,    \* TunnelParked
    ctrls,     \* state.json: the controllers, with rules and their memory
    outbox,    \* state.json: Outbox
    water,     \* what a poll of each controller would find
    cooled,    \* the cooldowns that are over since a rule last notified
    heard,     \* the poller's snapshots: how long ago the last success was
    pc,        \* where the poller is
    tick,      \* the controllers this tick has still to poll, as it read them
    job,       \* the controller being worked on
    requests,  \* what its rules have to say
    drained,   \* no drain is due at the end of this tick
    head,      \* the word being delivered
    owner,     \* history: the household each identity was registered for
    said,      \* history: the last word queued about each rule, "none" before its
               \* alarm is entered and after it has ended without a word
    told,      \* history: the last word the cloud took about a rule is an alarm
    strays,    \* history: identities whose words may outlive their household
    failing,   \* history: a delivery failed in this tick
    events

doc    == <<stage, founded, parked, ctrls, outbox>>
world  == <<water, cooled>>
poller == <<heard, pc, tick, job, requests, drained, head>>
ghost  == <<owner, said, told, strays, failing>>
vars   == <<doc, world, poller, ghost, events>>

Conditions == {Observed(NoBand, cc, Tolerance, v) : cc \in Controls, v \in Readings}
                \cup {"nothing", "down"}
Silences == {"never", "recent", "long"}
Alarms   == {"warn", "bad", "stale"}

Controller == [preset : Presets, rules : SUBSET Rules, memory : [Ids -> RuleState], since : Silences]
Word == [guid : Guids, rule : Ids, transition : {"enter", "renotify", "recover"},
         severity : Alarms, old : BOOLEAN]
NoGuid == "none"
ASSUME GuidAssumption == NoGuid \notin Guids
Untouched == [i \in Ids |-> Fresh]
NoWord == [transition |-> "none"]
NoJob  == [guid |-> NoGuid, memory |-> Untouched, since |-> "never"]
NoControllers == [g \in {} |-> NoJob]

Here     == DOMAIN ctrls
Token    == IF stage = "none" THEN 0 ELSE founded
Set(g, c) == [h \in Here \cup {g} |-> IF h = g THEN c ELSE ctrls[h]]
InFlight == DOMAIN tick \cup {w.guid : w \in requests} \cup {job.guid}

Event == events < MaxEvents /\ events' = events + 1
Free  == UNCHANGED events

\* Bookkeeping: rules whose alarm ends without a word...
Forget(gs) ==
    /\ said' = [g \in Guids |-> IF g \in gs THEN [i \in Ids |-> "none"] ELSE said[g]]
    /\ told' = [g \in Guids |-> IF g \in gs THEN [i \in Ids |-> FALSE] ELSE told[g]]
    /\ water' = [g \in Guids |-> IF g \in gs THEN "nothing" ELSE water[g]]
    /\ cooled' = [g \in Guids |-> IF g \in gs THEN {} ELSE cooled[g]]
Hushed(g, memory) == {i \in Ids : ctrls[g].memory[i].notified /\ ~memory[i].notified}
Note(g, is, what) == [said EXCEPT ![g] = [i \in Ids |-> IF i \in is THEN what ELSE @[i]]]

\* ...or is "ended" with its rule while the poller still has it in hand, until
\* the poll is persisted.
Removed(g) == IF g \in InFlight THEN "ended" ELSE "none"
Over(g, memory) == {i \in Ids : ~memory[i].notified /\ (ctrls[g].memory[i].notified \/ said[g][i] = "ended")}

-----------------------------------------------------------------------------
(* Requests.  Each is one Update of the document.                          *)

NewController(preset) ==
    [preset |-> preset, rules |-> ReconcileSeed({}, preset), memory |-> Untouched, since |-> "never"]

\* PUT /v1/controllers, a new address.
Register(g, preset) ==
    /\ Free
    /\ stage = "paired" /\ owner[g] = 0 /\ Cardinality(Here) < Quota
    /\ ctrls' = Set(g, NewController(preset))
    /\ owner' = [owner EXCEPT ![g] = founded]
    /\ UNCHANGED <<stage, founded, parked, outbox, world, poller, said, told, strays, failing>>

\* A controller with other rules: memory of rules that are gone goes too.
WithRules(c, rules) == [c EXCEPT !.rules = rules, !.memory = OnlyOf(rules, @)]
Ruled(g, c) ==
    /\ ctrls' = Set(g, c)
    /\ said' = Note(g, Hushed(g, c.memory), Removed(g))
    /\ UNCHANGED <<stage, founded, parked, outbox, world, poller, owner, told, strays, failing>>

\* PUT /v1/controllers on a known address, with another preset.
ChangePreset(g, preset) ==
    /\ Event
    /\ stage = "paired" /\ g \in Here /\ preset # ctrls[g].preset
    /\ Ruled(g, [WithRules(ctrls[g], ReconcileSeed(ctrls[g].rules, preset)) EXCEPT !.preset = preset])

\* PUT /v1/controllers/{guid}/alert-rules: a full replacement, in which no two
\* rules share an id (ValidateRules).
OneEach(rules) == \A r, s \in rules : r.id = s.id => r = s
PutRules(g, rules) ==
    /\ Event
    /\ stage = "paired" /\ rules # ctrls[g].rules
    /\ OneEach(rules)
    /\ Ruled(g, WithRules(ctrls[g], rules))

DeleteController(g) ==
    /\ Event
    /\ stage = "paired" /\ g \in Here
    /\ ctrls' = Restrict(ctrls, Here \ {g})
    /\ Forget({g})
    /\ UNCHANGED <<stage, founded, parked, outbox, poller, owner, strays, failing>>

\* POST /v1/controllers/{guid}/rotate: everything but the identity stays.
RotateController(g, h) ==
    /\ Event
    /\ stage = "paired" /\ g \in Here /\ owner[h] = 0
    /\ ctrls' = [k \in (Here \ {g}) \cup {h} |-> IF k = h THEN ctrls[g] ELSE ctrls[k]]
    /\ owner' = [owner EXCEPT ![h] = founded]
    /\ said' = [said EXCEPT ![g] = said[h], ![h] = [i \in Ids |-> "lost"]]
    /\ told' = [told EXCEPT ![g] = told[h]]
    /\ water' = [water EXCEPT ![g] = water[h], ![h] = water[g]]
    /\ cooled' = [cooled EXCEPT ![g] = cooled[h], ![h] = cooled[g]]
    /\ UNCHANGED <<stage, founded, parked, outbox, poller, strays, failing>>

\* The last device is revoked: the controllers go, token and outbox stay.
ClearHousehold ==
    /\ Event
    /\ stage = "paired" /\ stage' = "cleared"
    /\ ctrls' = NoControllers /\ Forget(Here)
    /\ UNCHANGED <<founded, parked, outbox, poller, owner, strays, failing>>

\* Mut...: mutated forms of the operator that follows, for mutation checks.
MutOutboxKept == outbox
OutboxAfterDrop == <<>>

\* DropHouseholdIf with ResetHousehold.
DropHousehold ==
    /\ Event
    /\ stage # "none" /\ stage' = "none"
    /\ parked' = FALSE /\ ctrls' = NoControllers /\ outbox' = OutboxAfterDrop
    /\ Forget(Here)
    /\ strays' = strays \cup (InFlight \cap Guids)
    /\ UNCHANGED <<founded, poller, owner, failing>>

\* pairFirst: a new token.  It leaves the outbox alone.
FoundHousehold ==
    /\ Free
    /\ stage # "paired" /\ stage' = "paired"
    /\ founded < MaxHouseholds /\ founded' = founded + 1
    /\ parked' = FALSE
    /\ strays' = strays \cup (InFlight \cap Guids) \cup {outbox[k].guid : k \in DOMAIN outbox}
    /\ UNCHANGED <<ctrls, outbox, world, poller, owner, said, told, failing>>

\* The lifecycle watcher parks and resumes the cloud calls.
Park ==
    /\ Event
    /\ stage # "none" /\ ~parked /\ parked' = TRUE
    /\ UNCHANGED <<stage, founded, ctrls, outbox, world, poller, ghost>>

Resume ==
    /\ Free
    /\ parked /\ parked' = FALSE
    /\ UNCHANGED <<stage, founded, ctrls, outbox, world, poller, ghost>>

-----------------------------------------------------------------------------
(* The poller's tick.                                                      *)

\* Where the tick goes on, with what it has still to say and to poll.  Once
\* nothing is left it drains, unless something it said has drained already.
Goes(words, left, done) ==
    /\ pc' = IF words # {} THEN "send" ELSE IF left # {} THEN "poll"
             ELSE IF done THEN "idle" ELSE "look"
    /\ drained' = (done \/ (words = {} /\ left = {}))

Tick ==
    /\ Free
    /\ pc = "idle"
    /\ tick' = ctrls
    /\ heard' = [g \in Guids |-> IF g \in Here THEN heard[g] ELSE "never"]
    /\ Goes({}, Here, FALSE)
    /\ failing' = FALSE
    /\ UNCHANGED <<doc, world, job, requests, head, owner, said, told, strays>>

\* One poll, and what the rules as the tick read them make of it.
PollController(g) ==
    LET up      == water[g] # "down"
        silence == IF up THEN "recent" ELSE heard[g]
        rules   == tick[g].rules
        memory  == tick[g].memory
        out     == [r \in rules |-> Step(r, memory[r.id], water[g], silence, r.id \in cooled[g])]
        talking == {r \in rules : out[r].says # Silent}
    IN /\ Free
       /\ pc = "poll" /\ g \in DOMAIN tick
       /\ heard' = [heard EXCEPT ![g] = silence]
       /\ job' = [guid |-> g, since |-> silence,
                  memory |-> [i \in Ids |-> IF \E r \in rules : r.id = i
                                              THEN out[CHOOSE r \in rules : r.id = i].memory
                                              ELSE memory[i]]]
       /\ requests' = {[guid |-> g, rule |-> r.id, transition |-> out[r].says.transition,
                        severity |-> out[r].says.severity, old |-> FALSE] : r \in talking}
       /\ tick' = Restrict(tick, DOMAIN tick \ {g})
       /\ pc' = "persist"
       /\ UNCHANGED <<doc, world, drained, head, ghost>>

\* Mut...: mutated forms of the operator that follows, for mutation checks.
MutWholesale(rules) == job.memory
Merged(rules) == OnlyOf(rules, job.memory)

\* The memory is merged into the controller the document now has, if any.
Persist ==
    /\ Free
    /\ pc = "persist"
    /\ LET g == job.guid
           memory == Merged(ctrls[g].rules)
       IN IF g \in Here
            THEN /\ ctrls' = [ctrls EXCEPT ![g].memory = memory, ![g].since = job.since]
                 /\ cooled' = [cooled EXCEPT ![g] =
                      {i \in @ : memory[i].notified /\ \A w \in requests : w.rule # i}]
                 /\ said' = Note(g, Over(g, memory) \ {w.rule : w \in requests}, "none")
            ELSE UNCHANGED <<cooled, ctrls, said>>
    /\ Goes(requests, DOMAIN tick, drained \/ requests # {})
    /\ job' = NoJob
    /\ UNCHANGED <<stage, founded, parked, outbox, water, heard, tick, requests, head, owner, told, strays, failing>>

\* Mut...: mutated forms of the operator that follows, for mutation checks.
MutSaidAnyway == requests
SaidUnpersisted == {}

\* The write fails: the poll is as if it had not been, and nothing is said.
PersistFails ==
    /\ Event
    /\ pc = "persist"
    /\ requests' = SaidUnpersisted
    /\ Goes(SaidUnpersisted, DOMAIN tick, drained)
    /\ job' = NoJob
    /\ UNCHANGED <<doc, world, heard, tick, head, ghost>>

\* Bookkeeping: a word stands for its rule as long as the rule still has the
\* alarm it is about.
Stands(w) == w.transition = "recover" \/ ctrls[w.guid].memory[w.rule].notified
NoteWord(w, what) == IF w.guid \in Here THEN Note(w.guid, {w.rule}, what) ELSE said

\* Mut...: mutated forms of the operator that follows, for mutation checks.
MutUncapped(q) == q
Capped(q) == IF Len(q) <= OutboxLimit THEN q ELSE SubSeq(q, Len(q) - OutboxLimit + 1, Len(q))

\* SendAlert queues the word and drains the whole queue.
Send(w) ==
    LET q == Append(outbox, w)
        kept == Capped(q)
        word == IF w.transition = "recover" THEN "recover" ELSE w.severity
        noted == NoteWord(w, IF Stands(w) THEN word ELSE "none")
    IN /\ Free
       /\ pc = "send" /\ w \in requests
       /\ outbox' = kept
       /\ requests' = requests \ {w}
       /\ said' = IF Len(kept) < Len(q) /\ q[1].guid \in Here
                    THEN [noted EXCEPT ![q[1].guid][q[1].rule] = "lost"] ELSE noted
       /\ pc' = "look" /\ drained' = TRUE
       /\ UNCHANGED <<stage, founded, parked, ctrls, world, heard, tick, job, head, owner, told, strays, failing>>

\* The write fails: the word is lost, its memory stays.
SendFails(w) ==
    /\ Event
    /\ pc = "send" /\ w \in requests
    /\ requests' = requests \ {w}
    /\ said' = NoteWord(w, "lost")
    /\ Goes(requests \ {w}, DOMAIN tick, TRUE)
    /\ UNCHANGED <<doc, world, heard, tick, job, head, owner, told, strays, failing>>

-----------------------------------------------------------------------------
(* Drain.                                                                  *)

DrainEnds ==
    /\ Goes(requests, DOMAIN tick, TRUE)
    /\ UNCHANGED <<world, heard, tick, job, requests, owner, said, strays>>

\* Mut...: mutated forms of the operator that follows, for mutation checks.
MutDropsRecoveries(q) == q[1].old
LastForRule(q) == \A k \in 2..Len(q) : q[k].rule # q[1].rule
StaleAlert(q) == q[1].old /\ ~(q[1].transition = "recover" /\ LastForRule(q))

NothingToSend ==
    /\ Free
    /\ pc = "look" /\ (outbox = <<>> \/ parked)
    /\ DrainEnds
    /\ UNCHANGED <<doc, head, told, failing>>

DropStale ==
    /\ Free
    /\ pc = "look" /\ outbox # <<>> /\ ~parked /\ StaleAlert(outbox)
    /\ outbox' = Tail(outbox)
    /\ UNCHANGED <<stage, founded, parked, ctrls, world, poller, ghost>>

Post ==
    /\ Free
    /\ pc = "look" /\ outbox # <<>> /\ ~parked /\ ~StaleAlert(outbox)
    /\ head' = outbox[1] /\ pc' = "post"
    /\ UNCHANGED <<doc, world, heard, tick, job, requests, drained, ghost>>

\* The cloud takes the word (or has it already)...
Delivered(g, i) ==
    /\ Free
    /\ pc = "post" /\ head.guid = g /\ head.rule = i
    /\ told' = [told EXCEPT ![g][i] = g \in Here /\ head.transition # "recover"]
    /\ pc' = "pop"
    /\ UNCHANGED <<doc, world, heard, tick, job, requests, drained, head, owner, said, strays, failing>>

\* ...refuses it for good...
Rejected ==
    /\ Event
    /\ pc = "post" /\ pc' = "pop"
    /\ said' = NoteWord(head, "lost")
    /\ UNCHANGED <<doc, world, heard, tick, job, requests, drained, head, owner, told, strays, failing>>

\* ...or does not answer, or answers 401, 403 or 5xx.
Unavailable ==
    /\ Free
    /\ pc = "post" /\ head' = NoWord
    /\ DrainEnds
    /\ failing' = TRUE
    /\ UNCHANGED <<doc, told>>

\* popOutboxHead: whatever is first by now.
Pop ==
    /\ Free
    /\ pc = "pop" /\ pc' = "look"
    /\ outbox' = IF outbox = <<>> THEN outbox ELSE Tail(outbox)
    /\ head' = NoWord
    /\ UNCHANGED <<stage, founded, parked, ctrls, world, heard, tick, job, requests, drained, ghost>>

PopFails ==
    /\ Event
    /\ pc = "pop" \/ (pc = "look" /\ outbox # <<>> /\ ~parked /\ StaleAlert(outbox))
    /\ head' = NoWord
    /\ DrainEnds
    /\ UNCHANGED <<doc, told, failing>>

-----------------------------------------------------------------------------
(* The process and the world.  The water and the time only matter to a     *)
(* poll, so they move on between two ticks.                                *)

Reconciled(c) == WithRules(c, ReconcileSeed(c.rules, c.preset))

\* The process dies and comes back: the tick is gone, with what it had
\* persisted but not yet queued; the default rules are reconciled.
Restart ==
    /\ Event
    /\ ctrls' = [g \in Here |-> Reconciled(ctrls[g])]
    /\ said' = [g \in Guids |-> [i \in Ids |->
          IF g \in Here /\ i \in Over(g, Reconciled(ctrls[g]).memory) THEN "none"
          ELSE IF pc \notin {"idle", "persist"} /\ \E w \in requests : w.guid = g /\ w.rule = i THEN "lost"
          ELSE said[g][i]]]
    /\ heard' = [g \in Guids |-> IF g \in Here THEN ctrls[g].since ELSE "never"]
    /\ pc' = "idle" /\ tick' = NoControllers /\ job' = NoJob /\ requests' = {} /\ drained' = TRUE /\ head' = NoWord
    /\ failing' = FALSE
    /\ UNCHANGED <<stage, founded, parked, outbox, world, owner, told, strays>>

\* The water changes, or the controller falls silent.
Turn(g, condition) ==
    /\ Free
    /\ pc = "idle" /\ g \in Here /\ condition # water[g]
    /\ water' = [water EXCEPT ![g] = condition]
    /\ UNCHANGED <<cooled, doc, poller, ghost>>

\* A rule's cooldown ends.
Cooled(g, i) ==
    /\ Free
    /\ g \in Here /\ ctrls[g].memory[i].notified /\ i \notin cooled[g]
    /\ cooled' = [cooled EXCEPT ![g] = @ \cup {i}]
    /\ UNCHANGED <<doc, water, poller, ghost>>

\* stale_after_seconds pass without a successful poll, where a rule counts
\* them.
LongSilence(g) ==
    /\ Free
    /\ g \in Here /\ heard[g] = "recent"
    /\ \E r \in ctrls[g].rules : r.kind = "stale" /\ r.enabled
    /\ heard' = [heard EXCEPT ![g] = "long"]
    /\ ctrls' = [ctrls EXCEPT ![g].since = IF @ = "never" THEN @ ELSE "long"]
    /\ UNCHANGED <<stage, founded, parked, outbox, world, pc, tick, job, requests, drained, head, ghost>>

\* alertStaleness passes between two ticks.
HourPasses ==
    /\ Free
    /\ pc = "idle" /\ \E k \in DOMAIN outbox : ~outbox[k].old
    /\ outbox' = [k \in DOMAIN outbox |-> [outbox[k] EXCEPT !.old = TRUE]]
    /\ UNCHANGED <<stage, founded, parked, ctrls, world, poller, ghost>>

-----------------------------------------------------------------------------
Init ==
    /\ stage = "paired" /\ founded = 1 /\ parked = FALSE
    /\ \E p \in Presets : \E rules \in {s \in RuleSets[p] : OneEach(s)} :
          ctrls = [g \in {First} |-> [NewController(p) EXCEPT !.rules = rules]]
    /\ outbox = <<>>
    /\ water = [g \in Guids |-> "nothing"]
    /\ cooled = [g \in Guids |-> {}]
    /\ heard = [g \in Guids |-> "never"]
    /\ pc = "idle" /\ tick = NoControllers /\ job = NoJob /\ requests = {} /\ drained = TRUE /\ head = NoWord
    /\ owner = [g \in Guids |-> IF g = First THEN 1 ELSE 0]
    /\ said = [g \in Guids |-> [i \in Ids |-> "none"]]
    /\ told = [g \in Guids |-> [i \in Ids |-> FALSE]]
    /\ strays = {} /\ failing = FALSE
    /\ events = 0

Requests ==
    \/ \E g \in Guids, p \in Added : Register(g, p)
    \/ \E g \in Guids, p \in Added : ChangePreset(g, p)
    \/ \E g \in Here : \E rules \in RuleSets[ctrls[g].preset] : PutRules(g, rules)
    \/ \E g \in Guids : DeleteController(g)
    \/ \E g, h \in Guids : RotateController(g, h)
    \/ ClearHousehold \/ DropHousehold \/ FoundHousehold \/ Park \/ Resume

Poller ==
    \/ Tick \/ \E g \in Guids : PollController(g)
    \/ Persist \/ PersistFails
    \/ \E w \in requests : Send(w) \/ SendFails(w)
    \/ NothingToSend \/ DropStale \/ Post \/ Rejected \/ Unavailable \/ Pop \/ PopFails
    \/ \E g \in Guids, i \in Ids : Delivered(g, i)

World ==
    \/ Restart
    \/ \E g \in Guids, c \in Conditions : Turn(g, c)
    \/ \E g \in Guids, i \in Ids : Cooled(g, i)
    \/ \E g \in Guids : LongSilence(g)
    \/ HourPasses

Next == Requests \/ Poller \/ World
Spec == Init /\ [][Next]_vars

\* The tick goes on at its own pace whatever the writes and the cloud do, and
\* time passes.
Fairness ==
    /\ WF_vars(Tick \/ Persist \/ NothingToSend \/ DropStale \/ Post \/ Unavailable \/ Pop
               \/ (\E g \in Guids : PollController(g) \/ \E i \in Ids : Delivered(g, i))
               \/ (\E w \in requests : Send(w)))
    /\ \A g \in Guids : WF_vars(LongSilence(g)) /\ \A i \in Ids : WF_vars(Cooled(g, i))

FairSpec == Spec /\ Fairness

-----------------------------------------------------------------------------
(* Properties.                                                             *)

\* Every variable has a value of its kind, and the outbox keeps its limit.
TypeOK ==
    /\ stage \in {"paired", "cleared", "none"} /\ founded \in 1..MaxHouseholds /\ parked \in BOOLEAN
    /\ Here \subseteq Guids /\ \A g \in Here : ctrls[g] \in Controller
    /\ outbox \in Seq(Word) /\ Len(outbox) <= OutboxLimit
    /\ water \in [Guids -> Conditions] /\ heard \in [Guids -> Silences]
    /\ cooled \in [Guids -> SUBSET Ids]
    /\ pc \in {"idle", "poll", "persist", "send", "look", "post", "pop"}
    /\ DOMAIN tick \subseteq Guids /\ \A g \in DOMAIN tick : tick[g] \in Controller
    /\ job \in [guid : Guids \cup {NoGuid}, memory : [Ids -> RuleState], since : Silences]
    /\ requests \subseteq Word /\ drained \in BOOLEAN /\ head \in Word \cup {NoWord}
    /\ owner \in [Guids -> 0..MaxHouseholds] /\ strays \subseteq Guids /\ failing \in BOOLEAN
    /\ said \in [Guids -> [Ids -> Alarms \cup {"none", "ended", "recover", "lost"}]]
    /\ told \in [Guids -> [Ids -> BOOLEAN]]
    /\ events \in 0..MaxEvents

\* No memory outlives its rule, and no alarm is latched that was not entered,
\* or is about to be, since the last one ended: a rule that is removed and added
\* again starts afresh, unless a tick was under way that had read its alarm.
NoResidue ==
    \A g \in Here :
        /\ ctrls[g].memory = OnlyOf(ctrls[g].rules, ctrls[g].memory)
        /\ \A i \in Ids : ctrls[g].memory[i].notified /\ said[g][i] = "none" =>
              pc # "persist" /\ \E w \in requests : w.guid = g /\ w.rule = i /\ w.transition = "enter"

\* An alarm the user was pushed and that the engine has since called off is
\* on its way to be called off with the user too, unless that word was lost
\* to a restart, a failed write, the queue's limit or the cloud's refusal.
NoFalseAlarm ==
    \A g \in Here, i \in Ids :
        /\ told[g][i] /\ ~ctrls[g].memory[i].notified
        /\ said[g][i] \notin {"lost", "none", "ended"}
        => \/ \E w \in requests : w.guid = g /\ w.rule = i /\ w.transition = "recover"
           \/ \E k \in DOMAIN outbox :
                outbox[k].guid = g /\ outbox[k].rule = i /\ outbox[k].transition = "recover"

\* What is about to be queued follows from what was queued last about the rule,
\* unless that was lost: an alarm is entered once, and what is repeated or called
\* off had been entered with that severity and not been called off since.  Only a
\* tick that had read an alarm whose rule was then removed may still speak of it.
SaidOnce ==
    pc = "send" => \A w \in requests : w.guid \in Here =>
        LET before == said[w.guid][w.rule]
        IN IF w.transition = "enter" THEN before # w.severity
           ELSE before \in {w.severity, "lost", "ended"}

\* The queue holds words about the household's own controllers.  A household
\* that is dropped leaves at most those of the tick that was under way; only
\* a founding over an identity that was never dropped inherits more.
QueueOfOwn ==
    \A k \in DOMAIN outbox : owner[outbox[k].guid] = Token \/ outbox[k].guid \in strays

Lasting(g, i) ==
    /\ g \in Here /\ stage = "paired" /\ ~parked /\ ~failing
    /\ \E r \in ctrls[g].rules :
        /\ r.id = i /\ r.enabled
        /\ IF r.kind = "band" THEN water[g] \in r.notify
           ELSE water[g] = "down" /\ heard[g] # "never" /\ ctrls[g].since # "never"

\* A condition that lasts is pushed, and pushed again whenever its cooldown is
\* over, once the cloud answers: however many of its words went stale in the
\* queue or were lost before.
ToldAgain ==
    \A g \in Guids, i \in Ids :
        <>[]Lasting(g, i) => []<>(pc = "pop" /\ head.guid = g /\ head.rule = i)
==============================================================================
