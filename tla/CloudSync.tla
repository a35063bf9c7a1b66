----------------------------- MODULE CloudSync ------------------------------
(***************************************************************************)
(* Keeping the control plane's controller rows current.  A change to what  *)
(* the cloud holds of a controller is flagged in the document and pushed   *)
(* by SyncControllers: a single-flight pass that the poller's tick and one *)
(* goroutine per change run.  A pass works from a snapshot, clears a flag  *)
(* only if the controller's revision is still the one it sent, and nothing *)
(* but its own lock orders it with the requests that change or rotate the  *)
(* controllers.                                                            *)
(***************************************************************************)
EXTENDS Naturals, FiniteSets, Functions

CONSTANTS
    Controllers,  \* the registered controllers
    Values,       \* what the cloud holds of one: preset, address and label
    First,        \* the value they were all registered with
    Refused,      \* values the control plane rejects for good
    Kicks,        \* the goroutines kickCloudSync starts
    MaxChanges,   \* bound: changes, over all controllers
    MaxRotations, \* bound: rotations, over all controllers
    MaxRounds,    \* maxSyncRounds (4 in the code)
    MaxFaults     \* bound: parkings and restarts

ASSUME FirstAssumption == First \in Values \ Refused
ASSUME RoundsAssumption == MaxRounds \in Nat \ {0}
ASSUME BoundsAssumption == MaxChanges \in Nat /\ MaxRotations \in Nat /\ MaxFaults \in Nat

Poller  == "poller"
Callers == Kicks \cup {Poller}
NoOne   == "nobody"
ASSUME KicksAssumption == NoOne \notin Kicks

VARIABLES
    cfg,      \* state.json: each controller's value
    rev,      \* state.json: its ConfigRev
    pending,  \* state.json: its CloudSyncPending
    guid,     \* state.json: which of its successive GUIDs the relay holds
    parked,   \* state.json: TunnelParked
    row,      \* the cloud's row of each controller, with the revision it stems from
    live,     \* the cloud: which of its successive GUIDs is not revoked
    rotating, \* controllers whose rotation waits for its local half
    mu,       \* syncMu: the caller that holds it
    rerun,    \* syncRerun
    call,     \* the SyncControllers calls in flight
    faults

doc   == <<cfg, rev, pending, guid, parked>>
cloud == <<row, live>>
vars  == <<cfg, rev, pending, guid, parked, row, live, rotating, mu, rerun, call, faults>>

Guids == 1..(MaxRotations + 1)
Total(f) == FoldFunction(LAMBDA m, n : m + n, 0, f)

Idle == [pc |-> "idle"]

\* A call moves on, keeping what its pass knows.
Goes(p, pc) == call' = [call EXCEPT ![p].pc = pc]

-----------------------------------------------------------------------------
(* The requests.                                                           *)

\* PUT /v1/controllers on a known address: the new value, the flag and the
\* revision in one Update, then a goroutine that syncs.  controllerMu keeps it
\* apart from a rotation.
PutController(c, v, k) ==
    /\ rotating = {}
    /\ v # cfg[c] /\ Total(rev) < MaxChanges
    /\ cfg' = [cfg EXCEPT ![c] = v]
    /\ rev' = [rev EXCEPT ![c] = @ + 1]
    /\ pending' = [pending EXCEPT ![c] = TRUE]
    /\ call[k] = Idle
    /\ call' = [call EXCEPT ![k] = [pc |-> "try"]]
    /\ UNCHANGED <<guid, parked, cloud, rotating, mu, rerun, faults>>

\* Rotation, the cloud's half: the row moves to a fresh GUID as it is.
RotateInCloud(c) ==
    /\ rotating = {}
    /\ live[c] = guid[c] /\ Total(live) < Cardinality(Controllers) + MaxRotations
    /\ live' = [live EXCEPT ![c] = @ + 1]
    /\ rotating' = {c}
    /\ UNCHANGED <<doc, row, mu, rerun, call, faults>>

\* The local half: the controller takes the GUID and keeps the rest.
RotateHere(c) ==
    /\ c \in rotating
    /\ guid' = [guid EXCEPT ![c] = live[c]]
    /\ rotating' = {}
    /\ UNCHANGED <<cfg, rev, pending, parked, cloud, mu, rerun, call, faults>>

\* The local half cannot be persisted: the old GUID stays, and it is dead.
RotateFails ==
    /\ rotating # {} /\ rotating' = {}
    /\ faults < MaxFaults /\ faults' = faults + 1
    /\ UNCHANGED <<doc, cloud, mu, rerun, call>>

\* The poller's tick.
PollTick ==
    /\ call[Poller] = Idle
    /\ call' = [call EXCEPT ![Poller] = [pc |-> "try"]]
    /\ UNCHANGED <<doc, cloud, rotating, mu, rerun, faults>>

-----------------------------------------------------------------------------
(* SyncControllers.                                                        *)

\* Mut...: mutated forms of the operator that follows, for mutation checks.
MutNoSingleFlight == TRUE
LockFree == mu = NoOne

Start(p) ==
    /\ call[p].pc = "try"
    /\ IF LockFree
         THEN mu' = p /\ call' = [call EXCEPT ![p] = [pc |-> "round", round |-> 1]]
         ELSE mu' = mu /\ call' = [call EXCEPT ![p] = [pc |-> "refused"]]
    /\ UNCHANGED <<doc, cloud, rotating, rerun, faults>>

\* TryLock failed: the running pass is asked for a rerun.
AskRerun(p) ==
    /\ call[p].pc = "refused"
    /\ rerun' = TRUE
    /\ call' = [call EXCEPT ![p] = Idle]
    /\ UNCHANGED <<doc, cloud, rotating, mu, faults>>

Flagged == {c \in Controllers : pending[c]}

\* A round's snapshot: every flagged controller, as it is now.
BeginRound(p) ==
    /\ call[p].pc = "round"
    /\ call' = [call EXCEPT ![p] =
          IF parked \/ Flagged = {}
            THEN [pc |-> "leave"]
            ELSE [pc |-> "send", round |-> call[p].round, got |-> FALSE,
                  todo |-> {[c |-> c, val |-> cfg[c], rev |-> rev[c], guid |-> guid[c]] : c \in Flagged}]]
    /\ UNCHANGED <<doc, cloud, rotating, mu, rerun, faults>>

\* PUT /controllers/{guid}: the cloud knows the GUID and takes the value...
Reaches(item) == live[item.c] = item.guid /\ item.val \notin Refused
Sent(item) == row' = [row EXCEPT ![item.c] = [val |-> item.val, rev |-> item.rev]]
Answered(p, item) ==
    call' = [call EXCEPT ![p] = [pc |-> "answered", round |-> @.round, got |-> @.got,
                                 todo |-> @.todo \ {item}, item |-> item]]

Accepted(p) ==
    /\ call[p].pc = "send"
    /\ \E item \in call[p].todo : Reaches(item) /\ Sent(item) /\ Answered(p, item)
    /\ UNCHANGED <<doc, live, rotating, mu, rerun, faults>>

\* ... or answers that it never will, which ends the entry just the same ...
Rejected(p) ==
    /\ call[p].pc = "send"
    /\ \E item \in call[p].todo : ~Reaches(item) /\ Answered(p, item)
    /\ UNCHANGED <<doc, cloud, rotating, mu, rerun, faults>>

\* ... or the answer is lost, with or without the request.
Unanswered(p) ==
    /\ call[p].pc = "send"
    /\ \E item \in call[p].todo :
          /\ (Reaches(item) /\ Sent(item)) \/ UNCHANGED row
          /\ call' = [call EXCEPT ![p].todo = @ \ {item}]
    /\ UNCHANGED <<doc, live, rotating, mu, rerun, faults>>

\* The clear, guarded by the GUID and the revision that were sent.
MutAnyRev(item) == guid[item.c] = item.guid
Unchanged(item) == guid[item.c] = item.guid /\ rev[item.c] = item.rev

Clear(p) ==
    /\ call[p].pc = "answered"
    /\ pending' = [pending EXCEPT ![call[p].item.c] = @ /\ ~Unchanged(call[p].item)]
    /\ call' = [call EXCEPT ![p] = [pc |-> "send", round |-> @.round, got |-> TRUE, todo |-> @.todo]]
    /\ UNCHANGED <<cfg, rev, guid, parked, cloud, rotating, mu, rerun, faults>>

\* The clear cannot be persisted: the pass is over.
ClearFails(p) ==
    /\ call[p].pc = "answered"
    /\ call' = [call EXCEPT ![p] = [pc |-> "leave"]]
    /\ UNCHANGED <<doc, cloud, rotating, mu, rerun, faults>>

\* Another round as long as one gets something done.
RoundsLeft(round) == round < MaxRounds
EndRound(p) ==
    /\ call[p].pc = "send" /\ call[p].todo = {}
    /\ call' = [call EXCEPT ![p] = IF @.got /\ RoundsLeft(@.round)
                                     THEN [pc |-> "round", round |-> @.round + 1]
                                     ELSE [pc |-> "leave"]]
    /\ UNCHANGED <<doc, cloud, rotating, mu, rerun, faults>>

MutHeldWhenParked == IF parked THEN mu ELSE NoOne
Freed == NoOne
Unlock(p) ==
    /\ call[p].pc = "leave"
    /\ mu' = Freed
    /\ Goes(p, "unlocked")
    /\ UNCHANGED <<doc, cloud, rotating, rerun, faults>>

\* syncRerun.Swap(false): a rerun is one more call.
Swap(p) ==
    /\ call[p].pc = "unlocked"
    /\ rerun' = FALSE
    /\ call' = [call EXCEPT ![p] = IF rerun THEN [pc |-> "try"] ELSE Idle]
    /\ UNCHANGED <<doc, cloud, rotating, mu, faults>>

Works(p) == \/ Start(p) \/ AskRerun(p) \/ BeginRound(p) \/ Accepted(p) \/ Rejected(p)
            \/ Clear(p) \/ EndRound(p) \/ Unlock(p) \/ Swap(p)
Fails(p) == Unanswered(p) \/ ClearFails(p)

-----------------------------------------------------------------------------
(* The world around it.                                                    *)

Fault == faults < MaxFaults /\ faults' = faults + 1

\* The lifecycle watcher parks and resumes.
Park ==
    /\ ~parked /\ parked' = TRUE
    /\ Fault
    /\ UNCHANGED <<cfg, rev, pending, guid, cloud, rotating, mu, rerun, call>>

Resume ==
    /\ parked /\ parked' = FALSE
    /\ UNCHANGED <<cfg, rev, pending, guid, cloud, rotating, mu, rerun, call, faults>>

\* A restart: the document survives, calls and the rotation in flight do not.
Restart ==
    /\ Fault
    /\ rotating' = {}
    /\ mu' = NoOne /\ rerun' = FALSE
    /\ call' = [p \in Callers |-> Idle]
    /\ UNCHANGED <<doc, cloud>>

Init ==
    /\ cfg = [c \in Controllers |-> First]
    /\ rev = [c \in Controllers |-> 0]
    /\ pending = [c \in Controllers |-> FALSE]
    /\ guid = [c \in Controllers |-> 1]
    /\ parked = FALSE
    /\ row = [c \in Controllers |-> [val |-> First, rev |-> 0]]
    /\ live = [c \in Controllers |-> 1]
    /\ rotating = {}
    /\ mu = NoOne /\ rerun = FALSE
    /\ call = [p \in Callers |-> Idle]
    /\ faults = 0

Next == \/ \E c \in Controllers : \/ \E v \in Values, k \in Kicks : PutController(c, v, k)
                                  \/ RotateInCloud(c) \/ RotateHere(c)
        \/ RotateFails \/ PollTick
        \/ \E p \in Callers : Works(p) \/ Fails(p)
        \/ Park \/ Resume \/ Restart

Spec == Init /\ [][Next]_vars

\* The poller ticks for ever, goroutines run, the cloud answers and the card
\* takes a write sooner or later, and a parked relay is resumed.
FairSpec ==
    /\ Spec
    /\ WF_vars(PollTick) /\ WF_vars(Resume)
    /\ \A c \in Controllers : WF_vars(RotateHere(c))
    /\ \A p \in Callers : /\ WF_vars(Works(p))
                          /\ SF_vars(Accepted(p) \/ Rejected(p)) /\ SF_vars(Clear(p))

-----------------------------------------------------------------------------
(* Properties.                                                             *)

Items == [c : Controllers, val : Values, rev : 0..MaxChanges, guid : Guids]
Calls == [pc : {"idle", "try", "refused", "leave", "unlocked"}]
         \cup [pc : {"round"}, round : 1..MaxRounds]
         \cup [pc : {"send"}, round : 1..MaxRounds, got : BOOLEAN, todo : SUBSET Items]
         \cup [pc : {"answered"}, round : 1..MaxRounds, got : BOOLEAN, todo : SUBSET Items, item : Items]
\* Every variable has its type; the items of a pass are checked one by one.
TypeOK ==
    /\ cfg \in [Controllers -> Values] /\ rev \in [Controllers -> 0..MaxChanges]
    /\ pending \in [Controllers -> BOOLEAN] /\ parked \in BOOLEAN
    /\ guid \in [Controllers -> Guids] /\ live \in [Controllers -> Guids]
    /\ row \in [Controllers -> [val : Values, rev : 0..MaxChanges]]
    /\ rotating \subseteq Controllers
    /\ mu \in Callers \cup {NoOne} /\ rerun \in BOOLEAN
    /\ call \in [Callers -> Calls]
    /\ faults \in 0..MaxFaults

\* A controller that is not flagged is known to the cloud as it is, or the
\* cloud has refused what it is: no interleaving of changes, passes, ticks,
\* lost answers and restarts clears a flag whose change never arrived.
Known(c) == row[c].val = cfg[c] \/ cfg[c] \in Refused
CurrentUnlessRotated == \A c \in Controllers : live[c] = 1 /\ ~pending[c] => Known(c)

\* The cloud never goes back to an older value of a controller: passes that
\* overlap would let a stale one be the last to arrive.
RowNeverOlder == [][\A c \in Controllers : row'[c].rev >= row[c].rev]_vars

\* Once the changes stop, the flags go.
FlagsSettle == <>[](\A c \in Controllers : ~pending[c])
=============================================================================
