-------------------------------- MODULE Store --------------------------------
(***************************************************************************)
(* The state document: state.json, the copy the process serves, and the    *)
(* other copies of it the disk may hold (temporary files of writes that a  *)
(* crash cut short, the backup of a version-1 document).  A write is split *)
(* at every file operation, each of which may fail or be the last one      *)
(* before the process dies or the power goes.  One caller at a time holds  *)
(* the store's mutex; what a caller decides on, it has read before.        *)
(***************************************************************************)
EXTENDS Naturals, FiniteSets

CONSTANTS
    Callers,     \* goroutines that change the document
    MaxTokens,   \* bound: cloud identities, the first one included
    MaxAgents,   \* bound: no factory reset once so many agents were minted
    MaxFaults    \* bound: operations that fail, crashes and power cuts

ASSUME BoundsAssumption == {MaxTokens, MaxAgents, MaxFaults} \subseteq Nat

Opener == "open"
ASSUME CallersAssumption == Opener \notin Callers

VARIABLES
    path,      \* state.json as the running system sees it
    safe,      \* what a power cut may leave of it
    bak,       \* state.json.v1.bak
    loose,     \* the backup's content has not reached the disk
    temps,     \* households with a .state-*.json file left behind
    gone,      \* copies whose names the disk may still hold after their removal
    proc,      \* how far the agent has come up
    mem,       \* Store.s
    wiped,     \* Store.wiped
    op,        \* what the holder of Store.mu is doing
    call,      \* what the callers hold in their hands
    tokens,    \* cloud identities handed out
    minted,    \* agent identities minted
    keys,      \* TLS keys minted
    served,    \* history: the identities and keys the relay came up with
    clean,     \* history: households whose other copies were all removed, and
               \* the removal not endangered by a power cut
    unsynced,  \* history: a directory sync has failed
    faults

disk  == <<path, safe, bak, loose, temps, gone>>
ghost == <<served, clean, unsynced>>
count == <<tokens, minted, keys>>
vars  == <<disk, proc, mem, wiped, op, call, count, ghost, faults>>

Absent  == [v |-> 0, agent |-> 0, tls |-> 0, token |-> 0, n |-> 0, roles |-> FALSE]
Torn(d) == [d EXCEPT !.v = 3]
Fresh(a) == [v |-> 2, agent |-> a, tls |-> 0, token |-> 0, n |-> 0, roles |-> TRUE]

Free == [pc |-> "free", by |-> Opener, kind |-> "open", want |-> 0, prev |-> Absent, synced |-> FALSE]
Idle == [pc |-> "idle", kind |-> "note", want |-> 0]

MuFree == op.pc = "free"
Fault  == faults < MaxFaults /\ faults' = faults + 1
NoFault == UNCHANGED faults

\* What was unlinked or renamed away, until the directory is synced: a power cut
\* may bring it back.
AllReached == [bak |-> {}, temps |-> {}]
MayReturn == gone.temps \cup {d.token : d \in gone.bak}

-----------------------------------------------------------------------------
(* The callers.                                                            *)

\* A snapshot, and the household it was about: what a guarded write is bound to.
Decide(c, k) ==
    /\ proc = "up" /\ MuFree /\ call[c] = Idle
    /\ mem.token # 0
    /\ call' = [call EXCEPT ![c] = [pc |-> "decided", kind |-> k, want |-> mem.token]]
    /\ UNCHANGED <<disk, proc, mem, wiped, op, count, ghost, faults>>

\* The check of UpdateIfToken and DropHouseholdIf before the Update.
Precheck(c) ==
    /\ MuFree /\ call[c].pc = "decided"
    /\ call' = [call EXCEPT ![c] = IF ~wiped /\ mem.token = call[c].want
                                     THEN [@ EXCEPT !.pc = "checked"] ELSE Idle]
    /\ UNCHANGED <<disk, proc, mem, wiped, op, count, ghost, faults>>

\* The check again, under the lock the write takes.
\* Mut...: mutated forms of the operator that follows, for mutation checks.
MutPrecheckedOnly(k, want) == TRUE
Applies(k, want) == k \in {"pair", "tick"} \/ mem.token = want

Changed(k) == CASE k \in {"note", "tick"} -> [mem EXCEPT !.n = 1]
                [] k = "pair" -> [mem EXCEPT !.token = tokens + 1, !.n = 0]
                [] k = "drop" -> [mem EXCEPT !.token = 0, !.n = 0]

Writing(by, k, want, next) ==
    /\ mem' = next
    /\ op' = [pc |-> "write", by |-> by, kind |-> k, want |-> want, prev |-> mem, synced |-> FALSE]

Writable == ~wiped

\* Update: the change on a copy, which becomes the document once it is on disk.
Update(c, k, want) ==
    /\ MuFree
    /\ Writable
    /\ Writing(c, IF Applies(k, want) THEN k ELSE "stale", want,
               [(IF Applies(k, want) THEN Changed(k) ELSE mem) EXCEPT !.v = 2])

UpdateBound(c) ==
    /\ call[c].pc = "checked"
    /\ \/ Update(c, call[c].kind, call[c].want) /\ UNCHANGED call
       \/ MuFree /\ ~Writable /\ call' = [call EXCEPT ![c] = Idle] /\ UNCHANGED <<op, mem>>
    /\ UNCHANGED <<disk, proc, wiped, count, ghost, faults>>

\* A poll, a setting: bound to nothing.
Tick(c) ==
    /\ proc = "up" /\ call[c] = Idle
    /\ Update(c, "tick", 0)
    /\ UNCHANGED <<disk, proc, wiped, call, count, ghost, faults>>

\* A founding replaces the cloud identity, whatever it was.
Pair(c) ==
    /\ proc = "up" /\ call[c] = Idle /\ tokens < MaxTokens
    /\ Update(c, "pair", 0)
    /\ tokens' = tokens + 1
    /\ UNCHANGED <<disk, proc, wiped, call, minted, keys, ghost, faults>>

\* A factory reset, and the sweep that follows a household's drop.
Wipe(c) ==
    /\ proc = "up" /\ call[c] = Idle /\ MuFree /\ minted < MaxAgents
    /\ op' = [Free EXCEPT !.pc = "remove", !.by = c, !.kind = "wipe"]
    /\ UNCHANGED <<disk, proc, mem, wiped, call, count, ghost, faults>>

Sweep(c) ==
    /\ call[c].pc = "sweep" /\ MuFree
    /\ op' = [Free EXCEPT !.pc = "sweepbak", !.by = c, !.kind = "drop", !.want = call[c].want]
    /\ UNCHANGED <<disk, proc, mem, wiped, call, count, ghost, faults>>

-----------------------------------------------------------------------------
(* persistLocked, one file operation after the other.                      *)

\* The caller goes on, the agent's start with its next step.
Return(then) ==
    /\ op' = Free
    /\ IF op.by = Opener
         THEN /\ proc' = IF then = "failed" THEN "down"
                         ELSE IF op.kind = "seed" THEN "ready" ELSE "read"
              /\ UNCHANGED call
         ELSE /\ call' = [call EXCEPT ![op.by] =
                            IF then = "sweep" THEN [pc |-> "sweep", kind |-> "drop", want |-> op.want] ELSE Idle]
              /\ UNCHANGED proc

\* The temporary file: created, restricted, written.
MutNoFsync == "rename"
AfterWrite == "sync"
WriteTemp ==
    /\ op.pc = "write"
    /\ op' = [op EXCEPT !.pc = AfterWrite]
    /\ UNCHANGED <<disk, proc, mem, wiped, call, count, ghost, faults>>

SyncTemp ==
    /\ op.pc = "sync"
    /\ op' = [op EXCEPT !.pc = "rename", !.synced = TRUE]
    /\ UNCHANGED <<disk, proc, mem, wiped, call, count, ghost, faults>>

\* What is left of the temporary file when a step fails or the process dies,
\* whole or not: a copy of the household's credentials.
Leftover == IF op.pc \in {"write", "sync", "rename"} THEN {mem.token} \ {0} ELSE {}

Rename ==
    /\ op.pc = "rename"
    /\ path' = mem
    /\ safe' = safe \cup {IF op.synced THEN mem ELSE Torn(mem)}
    /\ gone' = [gone EXCEPT !.temps = @ \cup Leftover]   \* the temporary file's name
    /\ op' = [op EXCEPT !.pc = "dirsync"]
    /\ UNCHANGED <<bak, loose, temps, proc, mem, wiped, call, count, ghost, faults>>

\* The directory's sync is best effort: the write is acknowledged either way.
MutSyncSkipped == safe
Reached == {path}
SyncDir ==
    /\ op.pc = "dirsync"
    /\ \/ safe' = Reached /\ gone' = AllReached /\ NoFault /\ UNCHANGED unsynced
       \/ Fault /\ unsynced' = TRUE /\ UNCHANGED <<safe, gone>>
    /\ Return(IF op.kind = "drop" THEN "sweep" ELSE "done")
    /\ UNCHANGED <<path, bak, loose, temps, mem, wiped, count, served, clean>>

\* A failure: the file is removed if it can be, memory goes back.
MutNotRolledBack == mem
RolledBack == op.prev
WriteFails ==
    /\ op.pc \in {"write", "sync", "rename"} /\ Fault
    /\ \/ gone' = [gone EXCEPT !.temps = @ \cup Leftover] /\ UNCHANGED temps
       \/ temps' = temps \cup Leftover /\ UNCHANGED gone
    /\ mem' = RolledBack
    /\ Return("failed")
    /\ UNCHANGED <<path, safe, bak, loose, wiped, count, ghost>>

-----------------------------------------------------------------------------
(* Wipe and the sweep of the other copies.                                 *)

RemoveDocument ==
    /\ op.pc = "remove"
    /\ \/ /\ path' = Absent /\ safe' = safe \cup {Absent} /\ NoFault
          /\ wiped' = TRUE
          /\ op' = [op EXCEPT !.pc = "sweepbak"]
          /\ UNCHANGED <<proc, call>>
       \/ Fault /\ Return("failed") /\ UNCHANGED <<path, safe, wiped>>
    /\ UNCHANGED <<bak, loose, temps, gone, mem, count, ghost>>

\* Neither removal below is followed by a sync of the directory.
SweepBackup ==
    /\ op.pc = "sweepbak"
    /\ \/ /\ bak' = Absent /\ loose' = FALSE /\ NoFault
          /\ gone' = [gone EXCEPT !.bak = @ \cup ({bak} \ {Absent})]
       \/ UNCHANGED <<bak, loose, gone>> /\ Fault
    /\ op' = [op EXCEPT !.pc = "sweeptemps"]
    /\ UNCHANGED <<path, safe, temps, proc, mem, wiped, call, count, ghost>>

\* The temporary files, each of which may stay.
MutTempsKept == temps
Swept == {}
SweepTemps ==
    /\ op.pc = "sweeptemps"
    /\ \/ temps' = Swept /\ NoFault
       \/ Fault /\ temps' \in SUBSET temps
    /\ gone' = [gone EXCEPT !.temps = @ \cup (temps \ temps')]
    /\ clean' = IF faults' # faults \/ bak # Absent THEN clean
                ELSE clean \cup (IF op.kind = "wipe" THEN 1..tokens ELSE {op.want})
    /\ Return("done")
    /\ UNCHANGED <<path, safe, bak, loose, mem, wiped, count, served, unsynced>>

\* The factory reset's response is out: the process ends.
Exit ==
    /\ wiped /\ MuFree /\ proc = "up"
    /\ proc' = "down"
    /\ call' = [c \in Callers |-> Idle]
    /\ UNCHANGED <<disk, mem, wiped, op, count, ghost, faults>>

-----------------------------------------------------------------------------
(* The agent's start.                                                      *)

\* Open: a first document, a migrated one, or the one that is there.
Open ==
    /\ proc = "down"
    /\ wiped' = FALSE
    /\ \/ /\ path.v = 0
          /\ minted' = minted + 1
          /\ Writing(Opener, "open", 0, Fresh(minted + 1))
          /\ proc' = "persisting"
       \/ /\ path.v = 1
          /\ mem' = [path EXCEPT !.v = 2] /\ proc' = "backup"
          /\ UNCHANGED <<op, minted>>
       \/ /\ path.v = 2
          /\ mem' = path /\ proc' = "read"
          /\ UNCHANGED <<op, minted>>
    /\ UNCHANGED <<disk, call, tokens, keys, ghost, faults>>

Migrate == Writing(Opener, "open", 0, mem) /\ proc' = "persisting"

\* backupV1: once, and never over a file that is there.
MutRefused == proc' = "down" /\ UNCHANGED <<op, mem>>
AlreadyThere == Migrate
Backup ==
    /\ proc = "backup"
    /\ IF bak # Absent
         THEN AlreadyThere /\ UNCHANGED <<bak, loose>>
         ELSE bak' = Torn(path) /\ loose' = TRUE /\ proc' = "copying" /\ UNCHANGED <<op, mem>>
    /\ UNCHANGED <<path, safe, temps, gone, wiped, call, count, ghost, faults>>

Copy ==
    /\ proc = "copying"
    /\ \/ bak' = path /\ NoFault /\ Migrate
       \/ Fault /\ proc' = "down" /\ UNCHANGED <<bak, op, mem>>
    /\ UNCHANGED <<path, safe, loose, temps, gone, wiped, call, count, ghost>>

\* inferLegacyRoles, persisted so that it never runs on these devices again.
InferRoles ==
    /\ proc = "read" /\ ~mem.roles
    /\ Writing(Opener, "open", 0, [mem EXCEPT !.roles = TRUE])
    /\ proc' = "persisting"
    /\ UNCHANGED <<disk, wiped, call, count, ghost, faults>>

\* ensureBootTLS: minted once, and on disk before anything serves.
MutServeFirst(d) == served \cup {<<d.agent, d.tls>>}
NewlyServed(d) == served
MintTLS ==
    /\ proc = "read" /\ mem.roles /\ mem.tls = 0
    /\ keys' = keys + 1
    /\ Writing(Opener, "open", 0, [mem EXCEPT !.tls = keys + 1])
    /\ served' = NewlyServed(mem')
    /\ proc' = "persisting"
    /\ UNCHANGED <<disk, wiped, call, tokens, minted, clean, unsynced, faults>>

\* The boot's housekeeping of rows and rules ends every start with a write.
Reconcile ==
    /\ proc = "read" /\ mem.roles /\ mem.tls # 0
    /\ Writing(Opener, "seed", 0, mem)
    /\ proc' = "persisting"
    /\ UNCHANGED <<disk, wiped, call, count, ghost, faults>>

Serve ==
    /\ proc = "ready"
    /\ proc' = "up"
    /\ served' = served \cup {<<mem.agent, mem.tls>>}
    /\ UNCHANGED <<disk, mem, wiped, op, call, count, clean, unsynced, faults>>

-----------------------------------------------------------------------------
(* The world around it.                                                    *)

\* The system writes back what it still holds in its caches.
WriteBack ==
    /\ safe # {path} \/ loose \/ gone # AllReached
    /\ safe' = {path} /\ loose' = FALSE /\ gone' = AllReached
    /\ UNCHANGED <<path, bak, temps, proc, mem, wiped, op, call, count, ghost, faults>>

Stopped ==
    /\ proc' = "down" /\ mem' = Absent /\ wiped' = FALSE
    /\ op' = Free /\ call' = [c \in Callers |-> Idle]

Kill ==
    /\ proc # "down" /\ Fault
    /\ temps' = temps \cup Leftover
    /\ Stopped
    /\ UNCHANGED <<path, safe, bak, loose, gone, count, ghost>>

PowerCut ==
    /\ Fault
    /\ path' \in safe /\ safe' = {path'}
    /\ bak' \in {bak} \cup gone.bak \cup (IF loose THEN {Absent, Torn(bak)} ELSE {})
    /\ \E back \in SUBSET (gone.temps \cup Leftover) : temps' = temps \cup back
    /\ loose' = FALSE /\ gone' = AllReached
    /\ Stopped
    \* A household that is back, or whose removal had not reached the disk, is to
    \* be swept again.
    /\ clean' = clean \ ({path'.token} \cup MayReturn)
    /\ UNCHANGED <<count, served, unsynced>>

\* A relay that was never started, one from before schema version 2 (and roles,
\* and stored TLS material), and one as it is today.
Household(v, tls, roles) == [v |-> v, agent |-> 1, tls |-> tls, token |-> 1, n |-> 0, roles |-> roles]
Init ==
    /\ path \in {Absent, Household(1, 0, FALSE), Household(2, 1, TRUE)}
    /\ safe = {path} /\ bak = Absent /\ loose = FALSE /\ temps = {} /\ gone = AllReached
    /\ proc = "down" /\ mem = Absent /\ wiped = FALSE
    /\ op = Free /\ call = [c \in Callers |-> Idle]
    /\ tokens = path.token /\ minted = path.agent /\ keys = path.tls
    /\ served = {} /\ clean = {} /\ unsynced = FALSE /\ faults = 0

Starting == Open \/ Backup \/ Copy \/ InferRoles \/ MintTLS \/ Reconcile \/ Serve
Persisting == WriteTemp \/ SyncTemp \/ Rename \/ SyncDir \/ WriteFails
Sweeping == RemoveDocument \/ SweepBackup \/ SweepTemps

Next == \/ \E c \in Callers : \/ \E k \in {"note", "drop"} : Decide(c, k)
                              \/ Precheck(c) \/ UpdateBound(c) \/ Tick(c) \/ Pair(c) \/ Wipe(c) \/ Sweep(c)
        \/ Persisting \/ Sweeping \/ Exit \/ Starting
        \/ WriteBack \/ Kill \/ PowerCut

Spec == Init /\ [][Next]_vars

\* The supervisor starts the process again, and the process runs.
FairSpec == Spec /\ WF_vars(Starting) /\ WF_vars(Persisting) /\ WF_vars(Sweeping) /\ WF_vars(Exit)

-----------------------------------------------------------------------------
(* Properties.                                                             *)

Docs == [v : 0..3, agent : 0..minted, tls : 0..keys, token : 0..tokens, n : {0, 1}, roles : BOOLEAN]
TypeOK ==
    /\ {path, bak, mem, op.prev} \cup safe \cup gone.bak \subseteq Docs
    /\ temps \cup gone.temps \subseteq 1..tokens
    /\ path.v # 3
    /\ proc \in {"down", "backup", "copying", "persisting", "read", "ready", "up"}
    /\ op.pc \in {"free", "write", "sync", "rename", "dirsync", "remove", "sweepbak", "sweeptemps"}
    /\ op.by \in Callers \cup {Opener} /\ op.want \in 0..tokens
    /\ \A c \in Callers : /\ call[c].pc \in {"idle", "decided", "checked", "sweep"}
                          /\ call[c].want \in 0..tokens
    /\ {wiped, loose, unsynced, op.synced} \subseteq BOOLEAN

\* Memory and disk do not drift apart: with no write under way, the document
\* the relay serves is the one a restart would read, whatever failed before.
InStep == proc = "up" /\ MuFree /\ ~wiped => mem = path

\* What an Update has acknowledged survives a power cut, unless the directory
\* could not be synced or a factory reset has removed it.
AckedSurvives == proc = "up" /\ MuFree /\ ~wiped /\ ~unsynced => safe = {path}

\* Phones pin the key the relay serves: under one agent identity it never
\* serves two, however its starts are cut short.
PinStable == ~unsynced => \A a, b \in served : a[1] = b[1] => a = b

\* Once a household's copies have been swept without an error, none is left
\* and none comes back, no backup and no temporary file: not by a write, a
\* failure, a kill or a restart, and by a power cut only if the directory has not
\* been written to the disk since (the sweep itself does not sync it).
NoStrayCopy == (temps \cup {bak.token}) \cap clean \subseteq {0}

\* A write reaches the document it was decided about and no other: it changes
\* the document only while that belongs to the household the decision was for,
\* and after a factory reset has removed it nothing writes it again before the
\* process has ended.
BoundWrite ==
    [][/\ op.kind \in {"note", "drop"} /\ path' # path /\ op.pc = "rename" => path.token = op.want
       /\ wiped /\ proc # "down" /\ proc' # "down" => path' = path]_vars

\* The promise to the other components.
AsDocument == INSTANCE Document WITH value <- path, maybe <- safe
ImplementsDocument == AsDocument!Spec

\* The relay comes up again after whatever stopped it: no crash leaves a
\* document it refuses to open.
ComesBack == []<>(proc = "up")
=============================================================================
