------------------------------ MODULE Removals ------------------------------
(***************************************************************************)
(* The durable queue of device removals the cloud must still be told of.   *)
(* A revoke queues its entry in the Update that revokes the device and     *)
(* makes one attempt of its own; the poller's tick retries; a new founding *)
(* flushes what is left under the old cloud identity and then discards it. *)
(* Passes run under removalMu, on a snapshot, while revokes, the cap and   *)
(* resets change the queue under them.                                     *)
(***************************************************************************)
EXTENDS Naturals, Sequences, FiniteSets, SequencesExt

CONSTANTS
    Devices,      \* the devices paired at first
    Founder,      \* the device that founds the next household
    Legacy,       \* devices whose entry was queued before entries were marked
    Limit,        \* PendingRemovalLimit (50 in the code)
    MaxFaults     \* bound: holds, resets, failed writes and restarts

ASSUME LimitAssumption == Limit \in Nat \ {0}
ASSUME FaultAssumption == MaxFaults \in Nat
ASSUME DeviceAssumption == Founder \notin Devices /\ Legacy \subseteq Devices
ASSUME LegacyAssumption == IsFiniteSet(Legacy) /\ Cardinality(Legacy) <= Limit

All      == Devices \cup {Founder}
Poller   == "poller"
Flusher  == "pairFirst"
Callers  == All \cup {Poller, Flusher}   \* a revoke's attempt is named by its device
NoOne    == "nobody"
NoToken  == 0
Tokens   == {1, 2}
Unmarked == 0

VARIABLES
    token,   \* state.json: Cloud.FrpcToken
    dev,     \* state.json: Devices
    queue,   \* state.json: PendingDeviceRemovals
    held,    \* state.json: removalsHeld
    mu,      \* removalMu: the caller that holds it
    rerun,   \* removalRerun
    call,    \* the passes and attempts in flight
    first,   \* the founding in flight
    home,    \* history: the identity each device was revoked under
    told,    \* the cloud: the removals it heard of, and under which identity
    fate,    \* history: what became of each removal
    faults

doc   == <<token, dev, queue, held>>
ghost == <<home, fate>>
vars  == <<token, dev, queue, held, mu, rerun, call, first, home, told, fate, faults>>

Idle == [pc |-> "idle"]
Goes(p, to) == call' = [call EXCEPT ![p] = to]

Queued(q) == {q[i].d : i \in 1..Len(q)}
Entry(d) == [d |-> d, id |-> token, due |-> TRUE, old |-> FALSE]

\* What persist leaves of the queue: the newest entries.
\* Mut...: mutated forms of the operator that follows, for mutation checks.
MutUncapped(q) == q
Newest(q) == IF Len(q) > Limit THEN SubSeq(q, Len(q) - Limit + 1, Len(q)) ELSE q

\* Entries that leave the queue, each for the reason why.
Fate(ds, why) == fate' = [d \in All |-> IF d \in ds THEN why ELSE fate[d]]

-----------------------------------------------------------------------------
(* Revoking a device.                                                      *)

\* deleteDevice's Update, and the attempt that follows it.
Revoke(d) ==
    /\ dev[d] = "active"
    /\ dev' = [dev EXCEPT ![d] = "revoked"]
    /\ call[d] = Idle /\ Goes(d, [pc |-> "try"])
    /\ IF token = NoToken \/ d \in Queued(queue)
         THEN UNCHANGED <<queue, home, fate>>
         ELSE /\ queue' = Newest(Append(queue, Entry(d)))
              /\ home' = [home EXCEPT ![d] = token]
              /\ fate' = [e \in All |-> IF e = d THEN "owed"
                                        ELSE IF e \in Queued(queue) \ Queued(queue') THEN "capped"
                                        ELSE fate[e]]
    /\ UNCHANGED <<token, held, mu, rerun, first, told, faults>>

PollTick ==
    /\ call[Poller] = Idle /\ Goes(Poller, [pc |-> "try"])
    /\ UNCHANGED <<doc, mu, rerun, first, ghost, told, faults>>

-----------------------------------------------------------------------------
(* A pass.                                                                 *)

\* Where a device's entry is in the queue: the first one that names it.
Place(q, d) == CHOOSE i \in 1..Len(q) : q[i].d = d /\ \A j \in 1..(i - 1) : q[j].d # d

\* Which of the queue a caller sends: a revoke its own entry, the others all.
Selected(p) == IF p \notin All THEN queue
               ELSE IF p \in Queued(queue) THEN <<queue[Place(queue, p)]>> ELSE <<>>

\* TryLock and the snapshot; the flush waits for the lock, the others leave
\* the running pass a rerun request.
Start(p) ==
    /\ call[p].pc = "try" /\ mu = NoOne
    /\ mu' = p
    /\ Goes(p, IF token = NoToken \/ (held /\ p # Flusher)
                 THEN [pc |-> "leave"]
                 ELSE [pc |-> "pass", tok |-> token, todo |-> Selected(p)])
    /\ UNCHANGED <<doc, rerun, first, ghost, told, faults>>

Refused(p) ==
    /\ call[p].pc = "try" /\ mu # NoOne /\ p # Flusher
    /\ Goes(p, [pc |-> "refused"])
    /\ UNCHANGED <<doc, mu, rerun, first, ghost, told, faults>>

AskRerun(p) ==
    /\ call[p].pc = "refused"
    /\ rerun' = TRUE
    /\ Goes(p, Idle)
    /\ UNCHANGED <<doc, mu, first, ghost, told, faults>>

At(p, pc) == call[p].pc = pc /\ call[p].todo # <<>>
Entries(p) == Head(call[p].todo)
Skips(p) == ~Entries(p).due /\ p # Flusher
Hopeless(e, tok) == e.old \/ e.id \notin {Unmarked, tok}

Settling(p, what) == Goes(p, [pc |-> "settle", tok |-> call[p].tok, todo |-> call[p].todo, what |-> what])

\* The next entry is dropped unsent, or not due yet ...
Drop(p) ==
    /\ At(p, "pass") /\ Hopeless(Entries(p), call[p].tok)
    /\ Settling(p, "expired")
    /\ UNCHANGED <<doc, mu, rerun, first, ghost, told, faults>>

Skip(p) ==
    /\ At(p, "pass") /\ ~Hopeless(Entries(p), call[p].tok) /\ Skips(p)
    /\ Goes(p, [call[p] EXCEPT !.todo = Tail(@)])
    /\ UNCHANGED <<doc, mu, rerun, first, ghost, told, faults>>

\* ... or sent, with the credentials of the snapshot.
MutCurrentToken(p) == token
Bearer(p) == call[p].tok
Sends(p) == At(p, "pass") /\ ~Hopeless(Entries(p), call[p].tok) /\ ~Skips(p)
Hears(p) == told' = told \cup {[d |-> Entries(p).d, tok |-> Bearer(p)]}

Answered(p) ==
    /\ Sends(p)
    /\ \/ Hears(p) /\ Settling(p, "reported")
       \/ told' = told /\ Settling(p, "refused")
    /\ UNCHANGED <<doc, mu, rerun, first, ghost, faults>>

Unanswered(p) ==
    /\ Sends(p)
    /\ Hears(p) \/ told' = told
    /\ Settling(p, "retry")
    /\ UNCHANGED <<doc, mu, rerun, first, ghost, faults>>

\* settleRemoval, on the queue as it is now.
MutByPosition(q, d) == IF q = <<>> THEN q ELSE Tail(q)
Without(q, d) == IF d \in Queued(q) THEN RemoveAt(q, Place(q, d)) ELSE q
Later(q, d) == IF d \in Queued(q) THEN [q EXCEPT ![Place(q, d)].due = FALSE] ELSE q

Settle(p) ==
    /\ call[p].pc = "settle"
    /\ LET d == Entries(p).d IN
         IF call[p].what = "retry"
           THEN queue' = Later(queue, d) /\ fate' = fate
           ELSE queue' = Without(queue, d) /\ Fate(Queued(queue) \cap {d}, call[p].what)
    /\ Goes(p, [pc |-> "pass", tok |-> call[p].tok, todo |-> Tail(call[p].todo)])
    /\ UNCHANGED <<token, dev, held, mu, rerun, first, home, told, faults>>

\* The pass is over: nothing left, or out of time ...
Leave(p) ==
    /\ call[p].pc = "pass"
    /\ Goes(p, [pc |-> "leave"])
    /\ UNCHANGED <<doc, mu, rerun, first, ghost, told, faults>>

\* ... or a settle that could not be persisted.
SettleFails(p) ==
    /\ call[p].pc = "settle"
    /\ Goes(p, [pc |-> "leave"])
    /\ faults < MaxFaults /\ faults' = faults + 1
    /\ UNCHANGED <<doc, mu, rerun, first, ghost, told>>

MutKeptWhileHeld == IF held THEN mu ELSE NoOne
Freed == NoOne

\* Only the poller's pass looks at the rerun request, once it has let go.
Unlock(p) ==
    /\ call[p].pc = "leave"
    /\ mu' = Freed
    /\ Goes(p, IF p = Poller THEN [pc |-> "unlocked"] ELSE Idle)
    /\ UNCHANGED <<doc, rerun, first, ghost, told, faults>>

Swap ==
    /\ call[Poller].pc = "unlocked"
    /\ rerun' = FALSE
    /\ Goes(Poller, IF rerun THEN [pc |-> "try"] ELSE Idle)
    /\ UNCHANGED <<doc, mu, first, ghost, told, faults>>

Pass(p) == \/ Start(p) \/ Refused(p) \/ AskRerun(p) \/ Drop(p) \/ Skip(p)
           \/ Answered(p) \/ Settle(p) \/ Leave(p) \/ Unlock(p)

-----------------------------------------------------------------------------
(* A new founding.                                                         *)

\* pairFirst, on a relay without devices, once the redeem has succeeded.
BeginFirst ==
    /\ first = "idle" /\ token # 2
    /\ \A d \in All : dev[d] # "active"
    /\ IF queue # <<>> THEN first' = "flushing" /\ Goes(Flusher, [pc |-> "try"])
                       ELSE first' = "flushed" /\ call' = call
    /\ UNCHANGED <<doc, mu, rerun, ghost, told, faults>>

\* The flush is over, or its deadline passed while another pass ran.
EndFlush ==
    /\ first = "flushing" /\ first' = "flushed"
    /\ \/ call[Flusher] = Idle /\ call' = call
       \/ call[Flusher].pc = "try" /\ Goes(Flusher, Idle)
    /\ UNCHANGED <<doc, mu, rerun, ghost, told, faults>>

\* pairFirst's Update: the new identity, and the rest of the queue goes.
CommitFirst ==
    /\ first = "flushed" /\ first' = "idle"
    /\ token' = 2
    /\ dev' = [dev EXCEPT ![Founder] = "active"]
    /\ held' = FALSE
    /\ queue' = <<>>
    /\ Fate(Queued(queue), "discarded")
    /\ UNCHANGED <<mu, rerun, call, home, told, faults>>

-----------------------------------------------------------------------------
(* The world around it.                                                    *)

Fault == faults < MaxFaults /\ faults' = faults + 1

\* The watcher parks and resumes.
Hold ==
    /\ ~held /\ token # NoToken /\ held' = TRUE /\ Fault
    /\ UNCHANGED <<token, dev, queue, mu, rerun, call, first, ghost, told>>

Release ==
    /\ held /\ held' = FALSE
    /\ UNCHANGED <<token, dev, queue, mu, rerun, call, first, ghost, told, faults>>

\* A household reset: the queue goes with the identity it belongs to.
DropHousehold ==
    /\ token # NoToken /\ token' = NoToken /\ Fault
    /\ dev' = [d \in All |-> "absent"]
    /\ held' = FALSE
    /\ queue' = <<>>
    /\ Fate(Queued(queue), "discarded")
    /\ UNCHANGED <<mu, rerun, call, first, home, told>>

\* Time: a backoff is over, an entry has been waiting for RemovalMaxAge.
BackoffOver ==
    /\ \E i \in 1..Len(queue) : ~queue[i].due /\ queue' = [queue EXCEPT ![i].due = TRUE]
    /\ UNCHANGED <<token, dev, held, mu, rerun, call, first, ghost, told, faults>>

Age ==
    /\ \E i \in 1..Len(queue) : ~queue[i].old /\ queue' = [queue EXCEPT ![i].old = TRUE]
    /\ Fault
    /\ UNCHANGED <<token, dev, held, mu, rerun, call, first, ghost, told>>

Restart ==
    /\ Fault
    /\ call' = [p \in Callers |-> Idle]
    /\ mu' = NoOne /\ rerun' = FALSE /\ first' = "idle"
    /\ UNCHANGED <<doc, ghost, told>>

Init ==
    /\ token = 1 /\ held = FALSE
    /\ dev = [d \in All |-> IF d \in Legacy THEN "revoked" ELSE IF d = Founder THEN "absent" ELSE "active"]
    /\ \E order \in Bijection(1..Cardinality(Legacy), Legacy) :
         queue = [i \in 1..Cardinality(Legacy) |->
                    [d |-> order[i], id |-> Unmarked, due |-> TRUE, old |-> FALSE]]
    /\ fate = [d \in All |-> IF d \in Legacy THEN "owed" ELSE "none"]
    /\ home = [d \in All |-> 1]
    /\ mu = NoOne /\ rerun = FALSE
    /\ call = [p \in Callers |-> Idle]
    /\ first = "idle" /\ told = {} /\ faults = 0

Next == \/ \E d \in All : Revoke(d)
        \/ PollTick \/ Swap
        \/ \E p \in Callers : Pass(p) \/ Unanswered(p) \/ SettleFails(p)
        \/ BeginFirst \/ EndFlush \/ CommitFirst
        \/ Hold \/ Release \/ DropHousehold \/ BackoffOver \/ Age \/ Restart

Spec == Init /\ [][Next]_vars

\* The poller ticks, calls run to their end, the cloud answers sooner or later,
\* backoffs end and a held queue is released.
FairSpec ==
    /\ Spec
    /\ WF_vars(PollTick) /\ WF_vars(Swap) /\ WF_vars(Release) /\ WF_vars(BackoffOver)
    /\ WF_vars(EndFlush) /\ WF_vars(CommitFirst)
    /\ \A p \in Callers : WF_vars(Pass(p))
    /\ SF_vars(Start(Poller)) /\ SF_vars(Drop(Poller) \/ Answered(Poller))

-----------------------------------------------------------------------------
(* Properties.                                                             *)

Entries4 == [d : All, id : Tokens \cup {Unmarked}, due : BOOLEAN, old : BOOLEAN]
TypeOK ==
    /\ token \in Tokens \cup {NoToken} /\ held \in BOOLEAN
    /\ dev \in [All -> {"absent", "active", "revoked"}]
    /\ \A i \in 1..Len(queue) : queue[i] \in Entries4
    /\ Len(queue) <= Limit
    /\ mu \in Callers \cup {NoOne} /\ rerun \in BOOLEAN
    /\ \A p \in Callers : call[p].pc \in {"idle", "try", "refused", "pass", "settle", "leave", "unlocked"}
    /\ first \in {"idle", "flushing", "flushed"}
    /\ told \subseteq [d : All, tok : Tokens \cup {NoToken}]
    /\ fate \in [All -> {"none", "owed", "reported", "refused", "expired", "capped", "discarded"}]

\* No removal is forgotten: a device revoked under a cloud identity is in the
\* queue until its report was answered, or it expired, overflowed the queue or
\* lost its identity; a pass that settles one entry never takes another away.
NoneForgotten == \A d \in All : fate[d] = "owed" <=> d \in Queued(queue)

\* A report goes out only under the identity its removal was queued under,
\* whatever pairing or reset lands while it waits or is on its way.
OwnIdentity == \A t \in told : t.tok = home[t.d]

\* Whatever is owed is settled in the end: again and again nothing is left in
\* the queue.
Settled == []<>(queue = <<>>)
=============================================================================
