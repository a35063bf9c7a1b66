----------------------------- MODULE SelfUpdate -----------------------------
(***************************************************************************)
(* Self-update: two programs that share nothing but files.  The sandboxed  *)
(* agent checks for a release, stages it and commits request.json; the     *)
(* root helper, started by that file's existence, verifies the stage,      *)
(* swaps the agent binary, restarts the agent, watches for its health      *)
(* marker and rolls back.  Either process may die between any two steps,   *)
(* and the agent is the process the helper restarts.  Most of the files    *)
(* are written without a sync that makes them last: a power cut takes them *)
(* back to what had reached the disk by then, each on its own.             *)
(*                                                                         *)
(* A release is its version number; signatures and checksums hold, and     *)
(* version 1 is what the installer put there.  An outcome is the version   *)
(* it rolled back; any other is only shown, as Update.LastResult is.       *)
(***************************************************************************)
EXTENDS Integers

CONSTANTS
    MaxVersion,   \* bound: releases that exist
    MaxCrashes,   \* bound: power cuts and process deaths
    AppActive,    \* whether the app uses the update endpoints
    Faults        \* I/O errors of the helper: reading the request or the stage ("read"),
                  \* comparing the binaries ("compare"), writing the record ("record"),
                  \* the binary of a rollback ("restore") or the result ("result")

ASSUME VersionAssumption == MaxVersion \in Nat \ {0}
ASSUME CrashAssumption == MaxCrashes \in Nat
ASSUME AppAssumption == AppActive \in BOOLEAN
ASSUME FaultAssumption == Faults \subseteq {"read", "compare", "record", "restore", "result"}

Versions == 1..MaxVersion
None     == 0
Torn     == -1   \* a record that was truncated and not written
Shown    == -2   \* an outcome that changes nothing: "ok", "rejected"
Outcomes == Versions \cup {Shown}

VARIABLES
    run,        \* agent process: the version that runs
    aged,       \* agent process: its health timer has fired
    boot,       \* agent process: the start-up ingest of result.json is due
    job,        \* agent process: the version being staged
    ingest,     \* agent process: the result an ingest has read
    available,  \* state.json: Update.LastAvailable
    bad,        \* state.json: Update.BadVersion
    staging,    \* staging/: the version staged completely
    request,    \* request.json
    result,     \* result.json
    health,     \* health.json
    bin,        \* the installed agent binary
    prev,       \* the backup in previous/
    installed,  \* installed-version
    media,      \* what the disk holds of the files that are not synced
    hpc,        \* helper process: where it is
    target,     \* helper process: the requested version, None if none runs
    proven,     \* history: versions that passed a health watch here
    broken,     \* history: what I/O errors and power cuts took away so far
    crashes

agent  == <<run, aged, boot, job, ingest>>
state  == <<available, bad>>
files  == <<staging, request, result, health>>
disk   == <<bin, prev, installed, media>>
helper == <<hpc, target>>
ghosts == <<proven, broken>>
vars   == <<run, aged, boot, job, ingest, available, bad, staging, request, result,
            health, bin, prev, installed, media, hpc, target, proven, broken, crashes>>

-----------------------------------------------------------------------------
(* The agent.                                                              *)

\* A new agent process runs what is installed: nothing of the old one is left,
\* and its first act is to remove the health marker.
Starts ==
    /\ run' = bin
    /\ aged' = FALSE
    /\ boot' = TRUE
    /\ job' = None
    /\ ingest' = None
    /\ health' = None

\* isCandidate: newer than what runs, and not the version rolled back here.
Candidate(v) == v > run /\ v # bad

\* Run's loop starts after the start-up ingest; the app's requests are served
\* by other goroutines and do not wait for it.
LoopRunning == ~boot /\ ingest = None

\* check: the control plane names a release; a release newer than the bad
\* version lifts its veto.
Check(v) ==
    /\ LoopRunning \/ AppActive
    /\ available' = IF Candidate(v) THEN v ELSE None
    /\ bad' = IF Candidate(v) /\ bad # None /\ v > bad THEN None ELSE bad
    /\ UNCHANGED <<agent, files, disk, helper, ghosts, crashes>>

\* Apply, by hand or in the nightly window: one stage at a time, and none while
\* a request is on disk.
StageIsFree == job = None /\ request = None
Apply ==
    /\ LoopRunning \/ AppActive
    /\ available # None /\ Candidate(available)
    /\ StageIsFree
    /\ job' = available
    /\ staging' = None
    /\ UNCHANGED <<run, aged, boot, ingest, state, request, result, health, disk, helper, ghosts, crashes>>

\* stage: request.json is the commit point, after everything it names.  A stage
\* that fails is removed, unless it is the commit that fails.
Stage ==
    /\ job # None
    /\ staging' = job /\ request' = job
    /\ job' = None
    /\ UNCHANGED <<run, aged, boot, ingest, state, result, health, disk, helper, ghosts, crashes>>

StageFails ==
    /\ job # None
    /\ job' = None
    /\ staging' \in {staging, job}
    /\ UNCHANGED <<run, aged, boot, ingest, state, request, result, health, disk, helper, ghosts, crashes>>

\* Ten seconds after the start-up ingest: the marker names the version that
\* runs.
MarkHealthy ==
    /\ ~boot /\ ~aged
    /\ ingest = None \/ AppActive
    /\ aged' = TRUE
    /\ health' = run
    /\ UNCHANGED <<run, boot, job, ingest, state, staging, request, result, disk, helper, ghosts, crashes>>

\* ingestResult reads the file once at start-up, and whenever the app asks.
ReadResult ==
    /\ ingest = None
    /\ boot \/ AppActive
    /\ ingest' = result
    /\ boot' = FALSE
    /\ UNCHANGED <<run, aged, job, state, files, disk, helper, ghosts, crashes>>

\* It persists what it read, a rollback as the bad version, and then deletes
\* the file, whatever the file holds by then.
Poison(r) == IF r \in Versions THEN r ELSE bad
KeepResult ==
    /\ ingest # None
    /\ bad' = Poison(ingest)
    /\ result' = None
    /\ ingest' = None
    /\ UNCHANGED <<run, aged, boot, job, available, staging, request, health, disk, helper, ghosts, crashes>>

Agent == \/ \E v \in Versions : Check(v)
         \/ Apply \/ Stage \/ StageFails \/ MarkHealthy \/ ReadResult \/ KeepResult

-----------------------------------------------------------------------------
(* The helper.                                                             *)

At(from, to) == hpc = from /\ hpc' = to

\* The path unit fires on the file.  The stage is copied and verified, the
\* version must be newer than the recorded one, and a binary that an earlier,
\* interrupted attempt already installed is neither backed up nor installed.
Verified(v) == staging = v
\* Mut...: mutated forms of the operator that follows, for mutation checks.
MutNotNewer(v) == TRUE
Newer(v) == installed = None \/ (installed # Torn /\ v > installed)
MutNeverInstalled(v) == FALSE
AlreadyInstalled(v) == bin = v

\* An I/O error ends an attempt wherever it is, also one that starts over with
\* the binary of the interrupted one installed.
OnTrial == bin \notin proven
Interrupted == IF OnTrial THEN broken \cup {"attempt"} ELSE broken

Fire ==
    /\ hpc = "idle" /\ request # None
    /\ target' = request
    /\ hpc' = IF ~Verified(request) \/ ~Newer(request) THEN "rejected"
              ELSE IF AlreadyInstalled(request) THEN "swapped"
              ELSE "backup"
    /\ UNCHANGED <<agent, state, files, disk, ghosts, crashes>>

\* The stage or the record cannot be read.
Unverifiable ==
    /\ hpc = "idle" /\ request # None /\ "read" \in Faults
    /\ target' = request
    /\ hpc' = "rejected"
    /\ broken' = Interrupted
    /\ UNCHANGED <<agent, state, files, disk, proven, crashes>>

\* The hashes cannot be compared: that counts as not installed.
Incomparable ==
    /\ hpc = "idle" /\ request # None /\ "compare" \in Faults
    /\ Verified(request) /\ Newer(request)
    /\ target' = request
    /\ hpc' = "backup"
    /\ broken' = Interrupted
    /\ UNCHANGED <<agent, state, files, disk, proven, crashes>>

\* The request itself cannot be read: it goes first.
Unreadable ==
    /\ hpc = "idle" /\ request # None /\ "read" \in Faults
    /\ request' = None
    /\ hpc' = "bad_request"
    /\ broken' = Interrupted
    /\ UNCHANGED <<agent, state, staging, result, health, disk, target, proven, crashes>>

Backup ==
    /\ At("backup", "install")
    /\ prev' = bin
    /\ UNCHANGED <<agent, state, files, bin, installed, media, target, ghosts, crashes>>

Install ==
    /\ At("install", "swapped")
    /\ bin' = target
    /\ UNCHANGED <<agent, state, files, prev, installed, media, target, ghosts, crashes>>

InstallFails ==
    /\ hpc \in {"backup", "install"} /\ hpc' = "rejected"
    /\ UNCHANGED <<agent, state, files, disk, target, ghosts, crashes>>

Restart ==
    /\ At("swapped", "watching")
    /\ Starts
    /\ UNCHANGED <<state, staging, request, result, disk, target, ghosts, crashes>>

RestartFails ==
    /\ At("swapped", "unhealthy")
    /\ health' = None
    /\ UNCHANGED <<agent, state, staging, request, result, disk, target, ghosts, crashes>>

\* The watch is over: the marker of the requested version was there in time.
\* The version has proved itself, and the record is opened, which truncates it.
MarkerSeen == health = target
Healthy ==
    /\ At("watching", "recording")
    /\ MarkerSeen
    /\ proven' = proven \cup {target}
    /\ installed' = Torn
    /\ UNCHANGED <<agent, state, files, bin, prev, media, target, broken, crashes>>

\* It is written in place and not synced.  An error leaves it as it is, and is
\* only logged, as is one of opening it.
Record ==
    /\ At("recording", "healthy")
    /\ \/ installed' = target
       \/ "record" \in Faults /\ installed' = installed
    /\ UNCHANGED <<agent, state, files, bin, prev, media, target, ghosts, crashes>>

NotRecorded ==
    /\ At("watching", "healthy")
    /\ MarkerSeen /\ "record" \in Faults
    /\ proven' = proven \cup {target}
    /\ broken' = broken \cup {"record"}
    /\ UNCHANGED <<agent, state, files, disk, target, crashes>>

\* The marker did not come, or the unit failed.
Unhealthy ==
    /\ At("watching", "unhealthy")
    /\ UNCHANGED <<agent, state, files, disk, target, ghosts, crashes>>

MutNotRestored == bin
Restored == prev
Rollback ==
    /\ At("unhealthy", "restored")
    /\ bin' = Restored
    /\ UNCHANGED <<agent, state, files, prev, installed, media, target, ghosts, crashes>>

\* A backup that cannot be restored is only logged: nothing is restarted.
NotRestored ==
    /\ At("unhealthy", "rolled_back")
    /\ "restore" \in Faults
    /\ broken' = broken \cup {"restore"}
    /\ UNCHANGED <<agent, state, files, disk, target, proven, crashes>>

\* Whether the restart succeeds is only logged too.
RestartOld ==
    /\ At("restored", "rolled_back")
    /\ Starts \/ UNCHANGED <<agent, health>>
    /\ UNCHANGED <<state, staging, request, result, disk, target, ghosts, crashes>>

CleanStaging ==
    /\ At("healthy", "ok")
    /\ staging' = None
    /\ UNCHANGED <<agent, state, request, result, health, disk, target, ghosts, crashes>>

\* result.json, and last of all the request goes.
Reports(outcome) ==
    \/ result' = outcome
    \/ "result" \in Faults /\ result' = result
Finish ==
    /\ hpc \in {"ok", "rolled_back", "rejected"} /\ hpc' = "finished"
    /\ Reports(IF hpc = "rolled_back" THEN target ELSE Shown)
    /\ UNCHANGED <<agent, state, staging, request, health, disk, target, ghosts, crashes>>

MutRequestLeft == request
RequestLeft == None
RemoveRequest ==
    /\ At("finished", "idle") /\ target' = None
    /\ request' = RequestLeft
    /\ UNCHANGED <<agent, state, staging, result, health, disk, ghosts, crashes>>

BadRequest ==
    /\ At("bad_request", "idle")
    /\ Reports(Shown)
    /\ UNCHANGED <<agent, state, staging, request, health, disk, target, ghosts, crashes>>

Helper == \/ Fire \/ Unverifiable \/ Incomparable \/ Unreadable \/ Backup \/ Install \/ InstallFails
          \/ Restart \/ RestartFails \/ Healthy \/ Record \/ NotRecorded \/ Unhealthy
          \/ Rollback \/ NotRestored \/ RestartOld
          \/ CleanStaging \/ Finish \/ RemoveRequest \/ BadRequest

-----------------------------------------------------------------------------
(* The disk and crashes.                                                   *)

\* What is written there is, in its own time, on the disk.  The binary and its
\* backup are synced with their directory when they are installed.
Cached == [staging |-> staging, request |-> request, result |-> result, installed |-> installed]
WriteBack ==
    \E f \in {"staging", "request", "result", "installed"} :
        /\ media[f] # Cached[f]
        /\ media' = [media EXCEPT ![f] = Cached[f]]
        /\ UNCHANGED <<agent, state, files, bin, prev, installed, helper, ghosts, crashes>>

\* The agent process dies and systemd starts it again.
AgentDies ==
    /\ crashes < MaxCrashes /\ crashes' = crashes + 1
    /\ Starts
    /\ UNCHANGED <<state, staging, request, result, disk, helper, ghosts>>

\* The helper is killed alone: the path unit starts it over from the request.
HelperDies ==
    /\ crashes < MaxCrashes /\ crashes' = crashes + 1
    /\ hpc # "idle" /\ hpc' = "idle" /\ target' = None
    /\ UNCHANGED <<agent, state, files, disk, ghosts>>

\* The power goes: both are gone, and with them what the disk did not have yet.
Untouched == {"staging", "request", "installed"} \subseteq {f \in DOMAIN media : media[f] = Cached[f]}
RecordLost == media.installed \notin {installed, Torn}
PowerCut ==
    /\ crashes < MaxCrashes /\ crashes' = crashes + 1
    /\ Starts
    /\ hpc' = "idle" /\ target' = None
    /\ staging' = media.staging /\ request' = media.request
    /\ result' = media.result /\ installed' = media.installed
    /\ broken' = broken \cup {e \in {"attempt", "record"} :
                                 \/ e = "attempt" /\ OnTrial /\ ~Untouched
                                 \/ e = "record" /\ RecordLost}
    /\ UNCHANGED <<state, bin, prev, media, proven>>

-----------------------------------------------------------------------------
Init ==
    /\ run = 1 /\ bin = 1 /\ prev = None /\ installed = None
    /\ aged = FALSE /\ boot = TRUE /\ job = None /\ ingest = None
    /\ available = None /\ bad = None
    /\ staging = None /\ request = None /\ result = None /\ health = None
    /\ media = Cached
    /\ hpc = "idle" /\ target = None
    /\ proven = {1} /\ broken = {} /\ crashes = 0

Next == Agent \/ Helper \/ WriteBack \/ AgentDies \/ HelperDies \/ PowerCut

Spec == Init /\ [][Next]_vars

\* The helper is a process that runs to its end: every step it can take it
\* takes, unless it is killed.
FairSpec == Spec /\ WF_vars(Helper)

-----------------------------------------------------------------------------
(* Properties.                                                             *)

OnMedia == [staging : Versions \cup {None}, request : Versions \cup {None},
            result : Outcomes \cup {None}, installed : Versions \cup {None, Torn}]
TypeOK ==
    /\ run \in Versions /\ bin \in Versions
    /\ {job, available, bad, staging, request, health, prev, target} \subseteq Versions \cup {None}
    /\ installed \in Versions \cup {None, Torn}
    /\ aged \in BOOLEAN /\ boot \in BOOLEAN
    /\ {ingest, result} \subseteq Outcomes \cup {None}
    /\ media \in OnMedia
    /\ hpc \in {"idle", "backup", "install", "swapped", "watching", "recording", "healthy", "ok",
                "unhealthy", "restored", "rolled_back", "rejected", "finished", "bad_request"}
    /\ proven \subseteq Versions /\ broken \subseteq {"attempt", "record", "restore"}
    /\ crashes \in 0..MaxCrashes

\* A trial is judged unless the attempt is lost (an I/O error ends it when it
\* starts over, or a power cut takes its request, its stage or the record with
\* it) or the backup cannot be restored.
Judged == broken \cap {"attempt", "restore"} = {}

\* At every instant, so after a crash at any of them, the relay runs or can go
\* back to a version that passed a health watch on this device, as long as
\* trials are judged.
WayBack == Judged => bin \in proven \/ prev \in proven

\* The version known to work never goes back: a failed update returns to the
\* version before it, and a finished one is never undone by a request left
\* over from it.  The promise ends when a trial is not judged or the record of
\* one that passed is lost.
GoodVersion == IF bin \in proven THEN bin ELSE prev
Promise == INSTANCE KnownGood WITH good <- GoodVersion, sound <- (broken = {})
KeepsPromise == Promise!Spec

\* When no update is under way, what is installed has proved itself, as long as
\* trials are judged.
Settled == hpc = "idle" /\ request = None
SettledOnProven == Judged /\ Settled => bin \in proven

\* Every request is answered: the helper never fires on the same one for ever.
RequestAnswered == (request # None) ~> (request = None)
=============================================================================
