----------------------------- MODULE Lifecycle ------------------------------
(***************************************************************************)
(* The lifecycle watcher.  When the tunnel stays down it asks the control  *)
(* plane about the household and parks the tunnel, resumes it or forgets   *)
(* the household.  The question is put with the credentials of a snapshot  *)
(* and the answer may find a relay that was set up again meanwhile.        *)
(*                                                                         *)
(* Time is counted in ticks much longer than a question takes.  What the   *)
(* code keeps as an instant is here the time left until it or since it.    *)
(***************************************************************************)
EXTENDS Naturals, Sequences

CONSTANTS
    Strikes,                \* unknownStrikes
    Spacing,                \* unknownSpacing
    Grace,                  \* downGrace
    ActiveMin, ActiveMax,   \* activeBackoffMin, activeBackoffMax
    NoSignalMax,            \* noSignalBackoffMax
    ParkMin, ParkMax,       \* parkedBackoffMin, parkedBackoffMax
    UnknownMax,             \* unknownParkedBackoffMax
    ProbeFirst, ProbeEvery, \* idleProbeFirstWithin, idleProbeEvery
    MaxToken,               \* bound: households set up one after the other
    MaxChanges              \* bound: changes of the cloud's mind, of the controllers, faults

ASSUME StrikesAssumption == Strikes \in Nat \ {0}
ASSUME PacingAssumption ==
    /\ {Spacing, Grace, NoSignalMax, ProbeFirst, ProbeEvery, MaxChanges} \subseteq Nat
    /\ {ActiveMin, ParkMin} \subseteq Nat \ {0}
    /\ ActiveMax \in Nat /\ ParkMax \in Nat /\ UnknownMax \in Nat
    /\ ActiveMin <= ActiveMax /\ ActiveMin <= NoSignalMax
    /\ ParkMin <= ParkMax /\ ParkMin <= UnknownMax
ASSUME TokenAssumption == MaxToken \in Nat \ {0}

NoToken   == 0
Tokens    == 1..MaxToken
Suspended == {"lapsed", "revoked"}                \* LifecycleSuspended, with its reason
Standings == {"active", "deleted"} \cup Suspended
Answers   == Standings \cup {"unknown", "no signal"}

VARIABLES
    token,     \* state.json: Cloud.FrpcToken
    life,      \* state.json: Cloud.Lifecycle and its reason, "ok" when empty
    ctrl,      \* state.json: a controller is registered, so there is a tunnel
    link,      \* the tunnel is connected
    standing,  \* the cloud: how each household stands
    forgets,   \* the cloud: it does not recognise tokens at the moment
    kick,      \* the kick channel holds a kick
    wanted,    \* probePending
    down,      \* downSince: 0 while up, else 1 + how long it has been down
    wait,      \* nextAsk: how long until the next question
    backoff,
    strikes,   \* the counted 401 answers, each as the token it was about
    since,     \* how long ago the last of them was
    probeIn,   \* nextIdleProbe: 0 not scheduled, 1 due, else 1 + how long until it
    ask,       \* the question in flight
    said,      \* history: the answers the cloud has given about each household
    changes

doc   == <<token, life, ctrl>>
cloud == <<standing, forgets>>
pace  == <<down, wait, backoff, strikes, since>>
vars  == <<token, life, ctrl, link, standing, forgets, kick, wanted, down, wait, backoff,
           strikes, since, probeIn, ask, said, changes>>

Enrolled  == token # NoToken
Parked    == Enrolled /\ life # "ok"
HasTunnel == ctrl
Idle      == [pc |-> "idle"]
Least(a, b) == IF a < b THEN a ELSE b

-----------------------------------------------------------------------------
(* Pacing.                                                                 *)

ResetPacing == down' = 0 /\ wait' = 0 /\ backoff' = 0 /\ strikes' = <<>> /\ since' = 0

Stepped(b, lo, hi) == IF b < lo THEN lo ELSE Least(2 * b, hi)

\* schedule: the next question one backoff step out, from b.
Schedule(b, lo, hi) == backoff' = Stepped(b, lo, hi) /\ wait' = Stepped(b, lo, hi)

\* Mut...: mutated forms of the operator that follows, for mutation checks.
MutOneCap(l) == ParkMax
ParkedCap(l) == IF l = "unknown" THEN UnknownMax ELSE ParkMax

-----------------------------------------------------------------------------
(* Step: whether to ask.                                                   *)

Question(probe) == ask' = [pc |-> "asking", tok |-> token, life |-> life, probe |-> probe]

\* askProbe: one question, no strikes; the next idle probe moves out.
AskProbe == Question(TRUE) /\ probeIn' = ProbeEvery + 1
Ask      == Question(FALSE) /\ UNCHANGED probeIn
NoAsk    == UNCHANGED <<ask, probeIn>>

StepUnenrolled == ~Enrolled /\ ResetPacing /\ NoAsk

\* A probe is not put while the relay is parked: the parked question is.
ProbeWanted == wanted /\ ~Parked
StepProbe == Enrolled /\ ProbeWanted /\ AskProbe /\ UNCHANGED pace

MutOnlyKicked(kicked) == kicked
ParkedDue(kicked) == kicked \/ wait = 0
StepParked(kicked) ==
    /\ Parked
    /\ IF ParkedDue(kicked) THEN Ask ELSE NoAsk
    /\ UNCHANGED pace

\* Nothing to watch: an idle probe is scheduled once, and asked when due.
MutNeverProbes == FALSE
ProbeDue == probeIn = 1
StepIdle ==
    /\ Enrolled /\ ~wanted /\ ~Parked /\ ~HasTunnel
    /\ ResetPacing
    /\ \/ probeIn = 0 /\ probeIn' \in 1..(ProbeFirst + 1) /\ UNCHANGED ask
       \/ probeIn # 0 /\ IF ProbeDue THEN AskProbe ELSE NoAsk

Watching == Enrolled /\ ~wanted /\ ~Parked /\ HasTunnel

StepConnected == Watching /\ link /\ ResetPacing /\ NoAsk

StepDown ==
    /\ Watching /\ ~link
    /\ down' = IF down = 0 THEN 1 ELSE down
    /\ IF down' > Grace /\ wait = 0 THEN Ask ELSE NoAsk
    /\ UNCHANGED <<wait, backoff, strikes, since>>

\* One step on the ticker or on a kick.
Step(kicked) ==
    /\ ask = Idle
    /\ kicked => kick
    /\ kick' = (kick /\ ~kicked)
    /\ wanted' = FALSE
    /\ \/ StepUnenrolled \/ StepProbe \/ StepParked(kicked)
       \/ StepIdle \/ StepConnected \/ StepDown
    /\ UNCHANGED <<doc, link, cloud, said, changes>>

-----------------------------------------------------------------------------
(* The answer.                                                             *)

Answer(ans) ==
    /\ ask.pc = "asking"
    /\ ask' = [ask EXCEPT !.pc = ans]
    /\ said' = [said EXCEPT ![ask.tok] = @ \cup {ans}]
    /\ UNCHANGED <<doc, link, cloud, kick, wanted, pace, probeIn, changes>>

CloudAnswers == ask.pc = "asking" /\ Answer(IF forgets THEN "unknown" ELSE standing[ask.tok])
NoSignal == Answer("no signal")

WasParked == ask.life # "ok"

\* UpdateIfToken: is the answer about the household the relay has?  A change of
\* the document that cannot be persisted is undone.
MutAnyHousehold == TRUE
SameHousehold == token = ask.tok

Applied   == SameHousehold /\ UNCHANGED changes
Failed    == SameHousehold /\ changes < MaxChanges /\ changes' = changes + 1 /\ UNCHANGED <<doc, link>>
Discarded == ~SameHousehold /\ UNCHANGED <<doc, link, changes>>
Stays     == UNCHANGED <<doc, link, changes>>

Marks(d, list, age) == down' = d /\ strikes' = list /\ since' = age

\* park: the strikes and their age are kept, unless the answer is discarded.
\* The caller then schedules with the backoff started over, whatever came of it.
Park(l, marks, age) ==
    /\ \/ Applied /\ life' = l /\ link' = FALSE /\ UNCHANGED <<token, ctrl>> /\ Marks(down, marks, age)
       \/ Failed    /\ Marks(down, marks, age)
       \/ Discarded /\ Marks(0, <<>>, 0)
    /\ Schedule(0, ParkMin, ParkMax)

OnActive ==
    /\ ask.pc = "active" /\ ~ask.probe
    /\ \/ /\ WasParked
          /\ \/ Applied /\ life' = "ok" /\ UNCHANGED <<token, ctrl, link>> /\ ResetPacing
             \/ Failed /\ strikes' = <<>> /\ since' = 0 /\ UNCHANGED <<down, wait, backoff>>
             \/ Discarded /\ ResetPacing
       \/ /\ ~WasParked /\ Stays /\ strikes' = <<>> /\ since' = 0 /\ down' = down
          /\ Schedule(backoff, ActiveMin, ActiveMax)

\* The strikes go with any positive answer; a reason that is new starts the
\* backoff over.
OnSuspended ==
    /\ ask.pc \in Suspended
    /\ \/ ask.probe /\ Park(ask.pc, strikes, since)
       \/ ~ask.probe /\ ask.life # ask.pc /\ Park(ask.pc, <<>>, 0)
       \/ /\ ~ask.probe /\ ask.life = ask.pc
          /\ Stays /\ strikes' = <<>> /\ since' = 0 /\ down' = down
          /\ Schedule(backoff, ParkMin, ParkMax)

OnDeleted ==
    /\ ask.pc = "deleted"
    /\ \/ Applied /\ token' = NoToken /\ life' = "ok" /\ ctrl' = FALSE /\ link' = FALSE /\ ResetPacing
       \/ Failed /\ UNCHANGED pace
       \/ Discarded /\ ResetPacing

OnNoSignal ==
    /\ ask.pc = "no signal" /\ ~ask.probe /\ Stays
    /\ IF WasParked THEN Schedule(backoff, ParkMin, ParkedCap(ask.life))
                    ELSE Schedule(backoff, ActiveMin, NoSignalMax)
    /\ UNCHANGED <<down, strikes, since>>

\* onUnknown: refusals that are far enough apart are strikes; enough of them
\* park the tunnel.  More than that many are not told apart.
Apart   == strikes = <<>> \/ since >= Spacing
Counted == IF Apart /\ Len(strikes) < Strikes THEN Append(strikes, ask.tok) ELSE strikes
Age     == IF Apart THEN 0 ELSE since

OnUnknown ==
    /\ ask.pc = "unknown" /\ ~ask.probe
    /\ \/ /\ ~WasParked /\ Len(Counted) >= Strikes
          /\ Park("unknown", Counted, Age)
       \/ /\ Stays /\ Marks(down, Counted, Age)
          /\ \/ WasParked /\ Schedule(backoff, ParkMin, ParkedCap(ask.life))
             \/ ~WasParked /\ Len(Counted) < Strikes /\ wait' = Spacing /\ backoff' = backoff

\* A probe acts on "deleted" and "suspended" only.
OnIgnored == ask.pc \in {"active", "unknown", "no signal"} /\ ask.probe /\ Stays /\ UNCHANGED pace

Act ==
    /\ \/ OnActive \/ OnSuspended \/ OnDeleted \/ OnNoSignal \/ OnUnknown \/ OnIgnored
    /\ ask' = Idle
    /\ UNCHANGED <<cloud, kick, wanted, probeIn, said>>

-----------------------------------------------------------------------------
(* The rest of the relay, the cloud, the network and time.                 *)

memory == <<kick, wanted, pace, probeIn, ask>>

\* The LAN API kicks while the relay is parked; the updater's 401 is a probe.
Kick  == Parked /\ kick' = TRUE /\ UNCHANGED <<doc, link, cloud, wanted, pace, probeIn, ask, said, changes>>
Probe == /\ Enrolled /\ forgets /\ kick' = TRUE /\ wanted' = TRUE
         /\ UNCHANGED <<doc, link, cloud, pace, probeIn, ask, said, changes>>

\* A household is set up, with a token never used before; it keeps the
\* controllers, which only a reset clears.
SetUp ==
    \E t \in Tokens :
        /\ standing[t] = "none" /\ \A u \in 1..(t - 1) : standing[u] # "none"
        /\ token' = t /\ life' = "ok" /\ link' = FALSE
        /\ standing' = [standing EXCEPT ![t] = "active"]
        /\ UNCHANGED <<ctrl, forgets, memory, said, changes>>

Reset == /\ Enrolled /\ token' = NoToken /\ life' = "ok" /\ ctrl' = FALSE /\ link' = FALSE
         /\ UNCHANGED <<cloud, memory, said, changes>>

World ==
    /\ changes < MaxChanges /\ changes' = changes + 1
    /\ \/ /\ Enrolled /\ ctrl' = ~ctrl /\ link' = FALSE
          /\ UNCHANGED <<token, life, cloud, memory>>
       \/ /\ \E t \in Tokens, s \in Standings :
                 /\ standing[t] \notin {"none", "deleted", s}
                 /\ standing' = [standing EXCEPT ![t] = s]
          /\ UNCHANGED <<doc, link, forgets, memory>>
       \/ forgets' = ~forgets /\ UNCHANGED <<doc, link, standing, memory>>
       \/ /\ ResetPacing /\ kick' = FALSE /\ wanted' = FALSE /\ probeIn' = 0   \* a restart
          /\ ask' = Idle /\ link' = FALSE
          /\ UNCHANGED <<doc, cloud>>
    /\ UNCHANGED said

LinkUp   == /\ Enrolled /\ ctrl /\ ~Parked /\ ~forgets /\ standing[token] = "active"
            /\ link' = TRUE /\ UNCHANGED <<doc, cloud, memory, said, changes>>
LinkDown == link /\ link' = FALSE /\ UNCHANGED <<doc, cloud, memory, said, changes>>

\* A tick of time; no question is in flight for that long.
Sooner(n, least) == IF n > least THEN n - 1 ELSE n
Tick ==
    /\ ask = Idle
    /\ wait' = Sooner(wait, 0) /\ probeIn' = Sooner(probeIn, 1)
    /\ down' = IF down = 0 THEN 0 ELSE Least(down + 1, Grace + 1)
    /\ since' = IF strikes = <<>> THEN 0 ELSE Least(since + 1, Spacing)
    /\ UNCHANGED <<doc, link, cloud, kick, wanted, backoff, strikes, ask, said, changes>>

Init ==
    /\ token = NoToken /\ life = "ok" /\ ctrl = FALSE /\ link = FALSE
    /\ standing = [t \in Tokens |-> "none"] /\ forgets = FALSE
    /\ kick = FALSE /\ wanted = FALSE
    /\ down = 0 /\ wait = 0 /\ backoff = 0 /\ strikes = <<>> /\ since = 0 /\ probeIn = 0
    /\ ask = Idle /\ said = [t \in Tokens |-> {}] /\ changes = 0

Next ==
    \/ Step(FALSE) \/ Step(TRUE) \/ CloudAnswers \/ NoSignal \/ Act
    \/ Kick \/ Probe \/ SetUp \/ Reset \/ World \/ LinkUp \/ LinkDown \/ Tick

Spec == Init /\ [][Next]_vars

\* The ticker keeps stepping, an answer is acted on, time passes, and the cloud
\* is not out of reach for ever.
FairSpec ==
    /\ Spec
    /\ WF_vars(Step(FALSE)) /\ WF_vars(Act) /\ SF_vars(Tick)
    /\ SF_vars(CloudAnswers) /\ WF_vars(NoSignal)

-----------------------------------------------------------------------------
TypeOK ==
    /\ token \in {NoToken} \cup Tokens
    /\ life \in {"ok", "unknown"} \cup Suspended
    /\ {ctrl, link, forgets, kick, wanted} \subseteq BOOLEAN
    /\ standing \in [Tokens -> Standings \cup {"none"}]
    /\ down \in 0..(Grace + 1) /\ since \in 0..Spacing /\ probeIn \in 0..(ProbeEvery + 1)
    /\ {wait, backoff} \subseteq Nat
    /\ strikes \in Seq(Tokens) /\ Len(strikes) <= Strikes
    /\ said \in [Tokens -> SUBSET Answers]
    /\ \/ ask = Idle
       \/ /\ ask.pc \in Answers \cup {"asking"} /\ ask.tok \in Tokens
          /\ ask.probe \in BOOLEAN /\ (ask.probe => ask.life = "ok")
    /\ changes \in 0..MaxChanges

\* The watcher parks, resumes or forgets a household only if the cloud said so
\* of that household, however late the answer comes and whatever was set up in
\* between (ask, UpdateIfToken, DropHouseholdIf).
ActsOnOwnAnswer ==
    [][ /\ token' = token /\ Parked /\ life' = "ok" => "active" \in said[token]
        /\ token' = token /\ life' # life /\ life' # "ok" => life' \in said[token]
        /\ Enrolled /\ token' = NoToken /\ ask.pc # "idle" /\ ask' = Idle
              => "deleted" \in said[token] ]_vars

\* A relay parked because the cloud did not recognise it asks again within the
\* shorter of the two caps, so that it comes back soon after the cloud's data
\* is repaired (unknownParkedBackoffMax, parkedCap).
UnknownAsksSoon == life = "unknown" => wait <= UnknownMax

\* A parked household that is in good standing again is resumed without
\* anybody opening the app (Step on the ticker, parkedCap, resume).
ParkedResumes ==
    <>[](Enrolled /\ ~forgets /\ standing[token] = "active") => <>[](life = "ok")

\* A household deleted in the cloud does not stay on the relay: a relay with no
\* tunnel to lose, or a parked one, finds out as well (idleProbeDue, drop).
DeletedIsForgotten ==
    ~<>[](Enrolled /\ ~forgets /\ ~link /\ standing[token] = "deleted")
=============================================================================
