------------------------- MODULE SelfUpdate_proofs --------------------------
(***************************************************************************)
(* Proofs about SelfUpdate, for every number of releases and of crashes,   *)
(* with or without an app and disk faults: as long as trials are judged,   *)
(* there is a way back to a version that works, and as long as the record  *)
(* of one is kept, it only moves forward.                                  *)
(***************************************************************************)
EXTENDS SelfUpdate, TLAPS

\* A request is for a later version than the installer's, here and on the disk,
\* and no stage is written while it is there.
Asked == /\ run >= 1
         /\ job # None => request = None /\ job > 1
         /\ request # None => request > 1
         /\ media.request # None => media.request > 1
         /\ hpc \notin {"idle", "bad_request"} => target # None /\ target > 1

\* There is something to roll back to wherever a rollback may start.
BackedUp == bin # 1 \/ hpc \in {"install", "swapped", "watching", "unhealthy"} => prev # None

\* What is installed has proved itself, or it is on trial: it is the requested
\* version, which the helper would take up again where a crash left it.
Resumable(v) == request = v /\ staging = v /\ v # None /\ Newer(v)
Phase ==
    /\ prev \in proven \cup {None}
    /\ OnTrial => Resumable(bin) /\ hpc \in {"idle", "swapped", "watching", "unhealthy"}
    /\ hpc \in {"backup", "install"} => Resumable(target)
    /\ hpc \in {"swapped", "watching", "recording", "unhealthy"} => target = bin

\* The last version that proved itself is installed or in the backup, and it is
\* the one on record, unless the record is torn.
Recorded == IF installed = None THEN 1 ELSE installed
Forward ==
    /\ \A v \in proven : v <= GoodVersion
    /\ installed # Torn => Recorded = GoodVersion
    /\ hpc = "install" => prev = bin
    /\ hpc \in {"swapped", "watching", "unhealthy"} => OnTrial

IInv == TypeOK /\ Asked /\ BackedUp /\ (Judged => Phase) /\ (broken = {} => Forward)

-----------------------------------------------------------------------------

\* Versions are positive numbers, and what is not a version is not.
LEMMA Numbers == /\ Versions \subseteq Nat \ {0} /\ Versions \subseteq Int
                 /\ None = 0 /\ Torn = -1 /\ Shown = -2
                 /\ None \notin Versions /\ Torn \notin Versions
BY DEF Versions, None, Torn, Shown

\* The four files on the disk, each with its type.
LEMMA OnDisk == TypeOK =>
    /\ media.staging \in Versions \cup {None} /\ media.request \in Versions \cup {None}
    /\ media.result \in Outcomes \cup {None} /\ media.installed \in Versions \cup {None, Torn}
BY DEF TypeOK, OnMedia

\* The invariant holds at the start.
LEMMA InitInv == Init => IInv
<1> SUFFICES ASSUME Init PROVE IInv  OBVIOUS
<1>1. 1 \in Versions /\ 0 \in 0..MaxCrashes  BY VersionAssumption, CrashAssumption DEF Versions
<1>2. media = [staging |-> None, request |-> None, result |-> None, installed |-> None]
  BY DEF Init, Cached
<1>3. media \in OnMedia  BY <1>2 DEF OnMedia
<1>4. TypeOK  BY <1>1, <1>3 DEF Init, TypeOK
<1>5. Asked /\ BackedUp  BY <1>2 DEF Init, Asked, BackedUp, None
<1>6. Phase /\ Forward
  BY DEF Init, Phase, Forward, OnTrial, GoodVersion, Recorded, None
<1> QED  BY <1>4, <1>5, <1>6 DEF IInv

\* What was broken stays so, and what was proved stays proved.
LEMMA HistoryGrows == Next => broken \subseteq broken' /\ proven \subseteq proven'
<1> USE DEF agent, state, files, disk, helper, ghosts
<1>1. CASE Agent \/ WriteBack \/ AgentDies \/ HelperDies
  BY <1>1 DEF Agent, Check, Apply, Stage, StageFails, MarkHealthy, ReadResult, KeepResult,
              WriteBack, AgentDies, HelperDies
<1>2. CASE Helper
  BY <1>2 DEF Helper, Fire, Unverifiable, Incomparable, Unreadable, Interrupted, Backup, Install, InstallFails,
              Restart, RestartFails, Healthy, Record, NotRecorded, Unhealthy, Rollback, NotRestored, RestartOld,
              CleanStaging, Finish, RemoveRequest, BadRequest
<1>3. CASE PowerCut  BY <1>3 DEF PowerCut
<1> QED  BY <1>1, <1>2, <1>3 DEF Next

-----------------------------------------------------------------------------
(* Types.                                                                  *)

\* Every step leaves every variable in its type.
LEMMA TypeKept == TypeOK /\ Asked /\ BackedUp /\ Next => TypeOK'
<1> SUFFICES ASSUME TypeOK, Asked, BackedUp, Next PROVE TypeOK'  OBVIOUS
<1> USE DEF agent, state, files, disk, helper, ghosts
<1>1. CASE Apply \/ Stage \/ StageFails \/ MarkHealthy \/ ReadResult
  BY <1>1 DEF Apply, Stage, StageFails, MarkHealthy, ReadResult, TypeOK
<1>2. CASE KeepResult
  <2>1. Poison(ingest) \in Versions \cup {None}  BY DEF Poison, TypeOK
  <2> QED  BY <1>2, <2>1 DEF KeepResult, TypeOK
<1>3. ASSUME NEW v \in Versions, Check(v) PROVE TypeOK'
  BY <1>3 DEF Check, TypeOK
<1>4. CASE Fire \/ Unverifiable \/ Incomparable \/ Unreadable
  <2>1. Interrupted \subseteq {"attempt", "record", "restore"}  BY DEF Interrupted, TypeOK
  <2> QED  BY <1>4, <2>1 DEF Fire, Unverifiable, Incomparable, Unreadable, TypeOK
<1>5. CASE Backup \/ InstallFails \/ RestartFails \/ Unhealthy \/ NotRestored \/ CleanStaging
  BY <1>5 DEF Backup, InstallFails, RestartFails, Unhealthy, NotRestored, CleanStaging, At, TypeOK
<1>6. CASE Install \/ Healthy \/ Record \/ NotRecorded
  <2>1. target \in Versions  BY <1>6 DEF Install, Healthy, Record, NotRecorded, At, Asked, TypeOK
  <2> QED  BY <1>6, <2>1 DEF Install, Healthy, Record, NotRecorded, At, TypeOK
<1>7. CASE Restart \/ RestartOld
  BY <1>7 DEF Restart, RestartOld, Starts, At, TypeOK
<1>8. CASE Rollback
  <2>1. prev \in Versions  BY <1>8 DEF Rollback, At, BackedUp, TypeOK
  <2> QED  BY <1>8, <2>1 DEF Rollback, Restored, At, TypeOK
<1>9. CASE Finish \/ RemoveRequest \/ BadRequest
  <2>1. hpc = "rolled_back" => target \in Versions  BY DEF Asked, TypeOK
  <2>2. result' \in Outcomes \cup {None}
    BY <1>9, <2>1 DEF Finish, RemoveRequest, BadRequest, Reports, Outcomes, TypeOK
  <2> QED  BY <1>9, <2>2 DEF Finish, RemoveRequest, BadRequest, RequestLeft, At, TypeOK
<1>10. CASE WriteBack
  <2>1. media' \in OnMedia  BY <1>10 DEF WriteBack, Cached, TypeOK, OnMedia
  <2> QED  BY <1>10, <2>1 DEF WriteBack, TypeOK
<1>11. CASE AgentDies \/ HelperDies
  <2>1. crashes' \in 0..MaxCrashes  BY <1>11, CrashAssumption DEF AgentDies, HelperDies, TypeOK
  <2> QED  BY <1>11, <2>1 DEF AgentDies, HelperDies, Starts, TypeOK
<1>12. CASE PowerCut
  <2>1. crashes' \in 0..MaxCrashes  BY <1>12, CrashAssumption DEF PowerCut, TypeOK
  <2>2. broken' \subseteq {"attempt", "record", "restore"}  BY <1>12 DEF PowerCut, TypeOK
  <2> QED  BY <1>12, <2>1, <2>2, OnDisk DEF PowerCut, Starts, TypeOK
<1> QED  BY <1>1, <1>2, <1>3, <1>4, <1>5, <1>6, <1>7, <1>8, <1>9, <1>10, <1>11, <1>12 DEF Next, Agent, Helper

\* Every step leaves requests for later versions, and a backup to return to.
LEMMA AskedKept == TypeOK /\ Asked /\ BackedUp /\ Next => Asked' /\ BackedUp'
<1> SUFFICES ASSUME TypeOK, Asked, BackedUp, Next PROVE Asked' /\ BackedUp'  OBVIOUS
<1> USE DEF agent, state, files, disk, helper, ghosts
<1>t. /\ run \in Nat /\ bin \in Nat \ {0} /\ job \in Nat /\ available \in Nat /\ None = 0
      /\ bin # None /\ request \in Nat
  <2>1. /\ run \in Versions /\ bin \in Versions /\ job \in Versions \cup {None}
        /\ available \in Versions \cup {None} /\ request \in Versions \cup {None}
    BY DEF TypeOK
  <2> QED  BY <2>1, Numbers
<1>1. CASE Agent
  <2>1. CASE Apply  BY <2>1, <1>t DEF Apply, Candidate, StageIsFree, Asked, BackedUp
  <2>2. CASE Stage \/ StageFails \/ MarkHealthy \/ ReadResult \/ KeepResult \/ \E v \in Versions : Check(v)
    BY <2>2 DEF Stage, StageFails, MarkHealthy, ReadResult, KeepResult, Check, Asked, BackedUp
  <2> QED  BY <1>1, <2>1, <2>2 DEF Agent
<1>2. CASE Fire \/ Unverifiable \/ Incomparable \/ Unreadable
  <2>1. CASE Fire  BY <1>t, <2>1 DEF Fire, AlreadyInstalled, Asked, BackedUp
  <2>2. CASE Unverifiable \/ Incomparable \/ Unreadable
    BY <1>t, <2>2 DEF Unverifiable, Incomparable, Unreadable, Asked, BackedUp
  <2> QED  BY <1>2, <2>1, <2>2
<1>3. CASE Backup \/ Install \/ InstallFails \/ RestartFails \/ Healthy \/ Record \/ NotRecorded \/ Unhealthy
           \/ Rollback \/ NotRestored \/ CleanStaging
  BY <1>t, <1>3 DEF Backup, Install, InstallFails, RestartFails, Healthy, Record, NotRecorded, Unhealthy,
     Rollback, NotRestored, CleanStaging, At, Asked, BackedUp
<1>4. CASE Restart \/ RestartOld
  BY <1>t, <1>4 DEF Restart, RestartOld, Starts, At, Asked, BackedUp
<1>5. CASE Finish \/ RemoveRequest \/ BadRequest
  BY <1>5 DEF Finish, RemoveRequest, RequestLeft, BadRequest, At, Asked, BackedUp
<1>6. CASE WriteBack
  <2>1. media'.request \in {media.request, request}  BY <1>6 DEF WriteBack, Cached, TypeOK, OnMedia
  <2> QED  BY <1>6, <2>1 DEF WriteBack, Asked, BackedUp
<1>7. CASE AgentDies \/ HelperDies \/ PowerCut
  BY <1>t, <1>7 DEF AgentDies, HelperDies, PowerCut, Starts, Asked, BackedUp
<1> QED  BY <1>1, <1>2, <1>3, <1>4, <1>5, <1>6, <1>7 DEF Next, Helper

-----------------------------------------------------------------------------
(* The phases of an update.                                                *)

\* The agent never touches what an update under way rests on.
LEMMA AgentLeaves ==
  ASSUME TypeOK, Asked, Agent \/ WriteBack \/ AgentDies
  PROVE  /\ UNCHANGED <<bin, prev, installed, hpc, target, proven, broken>>
         /\ request # None => UNCHANGED <<request, staging>>
<1> USE DEF agent, state, files, disk, helper, ghosts
<1>1. CASE Agent
  BY <1>1 DEF Agent, Check, Apply, StageIsFree, Stage, StageFails, MarkHealthy, ReadResult, KeepResult, Asked
<1>2. CASE WriteBack \/ AgentDies  BY <1>2 DEF WriteBack, AgentDies
<1> QED  BY <1>1, <1>2

\* While trials are judged, every step keeps the phases.
LEMMA PhaseKept == TypeOK /\ Asked /\ BackedUp /\ Phase /\ Next /\ Judged' => Phase'
<1> SUFFICES ASSUME TypeOK, Asked, BackedUp, Phase, Next, Judged' PROVE Phase'  OBVIOUS
<1> USE DEF agent, state, files, disk, helper, ghosts
<1>t. bin \in Versions /\ None \notin Versions  BY Numbers DEF TypeOK
<1>j. "attempt" \notin broken' /\ "restore" \notin broken'  BY DEF Judged
<1>1. CASE Agent \/ WriteBack \/ AgentDies
  BY <1>1, AgentLeaves DEF Phase, OnTrial, Resumable, Newer
<1>2. CASE Fire
  BY <1>2, <1>t DEF Fire, Verified, AlreadyInstalled, Phase, OnTrial, Resumable, Newer
<1>3. CASE Unverifiable \/ Incomparable \/ Unreadable
  <2>1. ~OnTrial  BY <1>3, <1>j DEF Unverifiable, Incomparable, Unreadable, Interrupted
  <2> QED  BY <1>3, <2>1 DEF Unverifiable, Incomparable, Unreadable, Verified, Phase, OnTrial, Resumable, Newer
<1>4. CASE Backup
  BY <1>4, <1>t DEF Backup, At, Phase, OnTrial, Resumable, Newer
<1>5. CASE Install
  BY <1>5, <1>t DEF Install, At, Phase, OnTrial, Resumable, Newer
<1>6. CASE InstallFails \/ Restart \/ RestartFails \/ Unhealthy \/ RestartOld \/ CleanStaging
  BY <1>6 DEF InstallFails, Restart, RestartFails, Starts, Unhealthy, RestartOld, CleanStaging, At,
     Phase, OnTrial, Resumable, Newer
<1>7. CASE Healthy \/ Record \/ NotRecorded
  BY <1>7 DEF Healthy, Record, NotRecorded, At, Phase, OnTrial, Resumable, Newer
<1>8. CASE Rollback
  <2>1. prev \in proven  BY <1>8 DEF Rollback, At, BackedUp, Phase
  <2> QED  BY <1>8, <2>1 DEF Rollback, Restored, At, Phase, OnTrial
<1>9. CASE NotRestored  BY <1>9, <1>j DEF NotRestored
<1>10. CASE Finish \/ RemoveRequest \/ BadRequest
  BY <1>10 DEF Finish, RemoveRequest, BadRequest, At, Phase, OnTrial
<1>11. CASE HelperDies
  BY <1>11 DEF HelperDies, Phase, OnTrial, Resumable, Newer
<1>12. CASE PowerCut
  <2>1. OnTrial => UNCHANGED <<staging, request, installed>>
    <3> SUFFICES ASSUME OnTrial PROVE UNCHANGED <<staging, request, installed>>  OBVIOUS
    <3>1. Untouched  BY <1>12, <1>j DEF PowerCut
    <3>2. media.staging = staging /\ media.request = request /\ media.installed = installed
      BY <3>1 DEF Untouched, Cached
    <3> QED  BY <1>12, <3>2 DEF PowerCut
  <2> QED  BY <1>12, <2>1 DEF PowerCut, Phase, OnTrial, Resumable, Newer
<1> QED  BY <1>1, <1>2, <1>3, <1>4, <1>5, <1>6, <1>7, <1>8, <1>9, <1>10, <1>11, <1>12 DEF Next, Helper

\* While trials are judged, the good version is one that proved itself.
LEMMA GoodIsProven == TypeOK /\ Asked /\ BackedUp /\ Phase => GoodVersion \in proven
<1> SUFFICES ASSUME TypeOK, Asked, BackedUp, Phase PROVE GoodVersion \in proven  OBVIOUS
<1>1. CASE OnTrial
  <2>1. bin > 1  BY <1>1, Numbers DEF Phase, Resumable, Asked
  <2>2. prev # None  BY <2>1, Numbers DEF BackedUp, TypeOK
  <2> QED  BY <1>1, <2>2 DEF Phase, OnTrial, GoodVersion
<1>2. CASE ~OnTrial  BY <1>2 DEF OnTrial, GoodVersion
<1> QED  BY <1>1, <1>2

\* While nothing is broken, what the helper takes for newer is newer than every
\* version that proved itself.
LEMMA NewerIsUnproven ==
  ASSUME TypeOK, Asked, BackedUp, Phase, Forward, NEW v \in Versions, v > 1, Newer(v)
  PROVE  v > GoodVersion /\ v \notin proven /\ GoodVersion \in Nat
<1>1. GoodVersion \in Nat  BY GoodIsProven, Numbers DEF TypeOK
<1>2. v \in Nat /\ None = 0 /\ Torn = -1 /\ proven \subseteq Nat  BY Numbers DEF TypeOK
<1>3. v > GoodVersion  BY <1>1, <1>2 DEF Newer, Forward, Recorded
<1> QED  BY <1>1, <1>2, <1>3 DEF Forward

\* While nothing is broken, every step keeps the good version on record.
LEMMA ForwardKept ==
  TypeOK /\ Asked /\ BackedUp /\ Phase /\ Forward /\ Next /\ broken' = {} => Forward'
<1> SUFFICES ASSUME TypeOK, Asked, BackedUp, Phase, Forward, Next, broken' = {} PROVE Forward'  OBVIOUS
<1> USE DEF agent, state, files, disk, helper, ghosts
<1>t. /\ bin \in Versions /\ bin \in Nat /\ None \notin Versions /\ Torn \notin Versions /\ None = 0 /\ Torn = -1
      /\ proven \subseteq Nat
  BY Numbers DEF TypeOK
<1>g. GoodVersion \in proven  BY GoodIsProven
<1>r. request # None => request \in Versions /\ request > 1  BY DEF TypeOK, Asked
<1>1. CASE Agent \/ WriteBack \/ AgentDies
  BY <1>1, AgentLeaves DEF Forward, OnTrial, GoodVersion, Recorded
<1>2. CASE Fire
  <2>1. Newer(request) => request \notin proven  BY <1>2, <1>r, NewerIsUnproven DEF Fire
  <2> QED  BY <1>2, <2>1 DEF Fire, AlreadyInstalled, Forward, OnTrial, GoodVersion, Recorded
<1>3. CASE Unverifiable \/ Incomparable \/ Unreadable
  BY <1>3 DEF Unverifiable, Incomparable, Unreadable, Forward, OnTrial, GoodVersion, Recorded
<1>4. CASE Backup
  <2>1. bin \in proven  BY <1>4 DEF Backup, At, Phase, OnTrial
  <2> QED  BY <1>4, <2>1 DEF Backup, At, Forward, GoodVersion, Recorded
<1>5. CASE Install
  <2>1. bin \in proven /\ prev = bin  BY <1>5 DEF Install, At, Phase, Forward, OnTrial
  <2>2. target \notin proven
    <3>1. Newer(target) /\ target \in Versions /\ target > 1
      BY <1>5 DEF Install, At, Phase, Resumable, Asked, TypeOK
    <3> QED  BY <3>1, NewerIsUnproven
  <2> QED  BY <1>5, <2>1, <2>2 DEF Install, At, Forward, GoodVersion, Recorded, OnTrial
<1>6. CASE InstallFails \/ Restart \/ RestartFails \/ Unhealthy \/ RestartOld \/ CleanStaging
           \/ Finish \/ RemoveRequest \/ BadRequest \/ HelperDies
  BY <1>6 DEF InstallFails, Restart, RestartFails, Starts, Unhealthy, RestartOld, CleanStaging, Finish,
     RemoveRequest, BadRequest, HelperDies, At, Forward, OnTrial, GoodVersion, Recorded
<1>7. CASE Healthy
  <2>1. OnTrial /\ target = bin /\ Newer(bin)  BY <1>7 DEF Healthy, At, Phase, Forward, Resumable
  <2>2. bin > 1  BY <2>1, <1>7 DEF Healthy, At, Asked
  <2>3. bin > GoodVersion /\ GoodVersion \in Nat  BY <1>t, <2>1, <2>2, NewerIsUnproven
  <2>4. proven' = proven \cup {bin} /\ GoodVersion' = bin  BY <1>7, <2>1 DEF Healthy, GoodVersion
  <2>5. \A v \in proven' : v <= GoodVersion'  BY <1>t, <2>3, <2>4 DEF Forward
  <2> QED  BY <1>7, <2>5 DEF Healthy, At, Forward
<1>8. CASE Record
  <2>1. target = bin /\ bin \in proven  BY <1>8 DEF Record, At, Phase, OnTrial
  <2>2. GoodVersion = bin /\ GoodVersion' = bin  BY <1>8, <2>1 DEF Record, GoodVersion
  <2> QED  BY <1>8, <1>t, <2>1, <2>2 DEF Record, At, Forward, Recorded
<1>9. CASE NotRecorded \/ NotRestored
  BY <1>9 DEF NotRecorded, NotRestored
<1>10. CASE Rollback
  <2>1. OnTrial /\ prev \in proven  BY <1>10, <1>g DEF Rollback, At, Forward, OnTrial, GoodVersion
  <2> QED  BY <1>10, <2>1 DEF Rollback, Restored, At, Forward, GoodVersion, OnTrial, Recorded
<1>11. CASE PowerCut
  <2>1. UNCHANGED <<bin, prev, proven>> /\ installed' \in {installed, Torn} /\ hpc' = "idle"
    BY <1>11 DEF PowerCut, RecordLost
  <2> QED  BY <2>1 DEF Forward, GoodVersion, Recorded
<1> QED  BY <1>1, <1>2, <1>3, <1>4, <1>5, <1>6, <1>7, <1>8, <1>9, <1>10, <1>11 DEF Next, Helper

-----------------------------------------------------------------------------
(* The theorems.                                                           *)

\* The inductive invariant.
THEOREM Invariance == Spec => []IInv
<1>1. IInv /\ [Next]_vars => IInv'
  <2> SUFFICES ASSUME IInv, [Next]_vars PROVE IInv'  OBVIOUS
  <2>1. CASE Next
    <3>1. broken \subseteq broken'  BY <2>1, HistoryGrows
    <3>2. (Judged' => Judged) /\ (broken' = {} => broken = {} /\ Judged /\ Judged')
      BY <3>1 DEF Judged
    <3>3. TypeOK' /\ Asked' /\ BackedUp'  BY <2>1, TypeKept, AskedKept DEF IInv
    <3>4. Judged' => Phase'  BY <2>1, <3>2, PhaseKept DEF IInv
    <3>5. broken' = {} => Forward'  BY <2>1, <3>2, ForwardKept DEF IInv
    <3> QED  BY <3>3, <3>4, <3>5 DEF IInv
  <2>2. CASE UNCHANGED vars
    BY <2>2 DEF vars, IInv, TypeOK, Asked, BackedUp, Phase, Forward, Judged, OnTrial, Resumable, Newer,
       GoodVersion, Recorded
  <2> QED  BY <2>1, <2>2
<1> QED  BY <1>1, InitInv, PTL DEF Spec

\* Whatever is interrupted, the relay runs a version that passed a health watch
\* here or has it in its backup, as long as trials are judged (helper.Run).
THEOREM AlwaysAWayBack == Spec => []WayBack
<1>1. IInv => WayBack
  <2> SUFFICES ASSUME IInv, Judged PROVE bin \in proven \/ prev \in proven  BY DEF WayBack
  <2> QED  BY GoodIsProven DEF IInv, GoodVersion
<1> QED  BY <1>1, Invariance, PTL

\* With no update under way, what is installed has passed its watch, as long as
\* trials are judged: a helper that starts over from the request ends what it
\* interrupted (helper.Run).
THEOREM EndsOnProven == Spec => []SettledOnProven
<1>1. IInv => SettledOnProven
  BY DEF IInv, SettledOnProven, Settled, Phase, OnTrial, Resumable
<1> QED  BY <1>1, Invariance, PTL

\* Self-update keeps what KnownGood promises: the version known to work only
\* moves forward, through every crash, until a trial is not judged or the record
\* of one that passed is lost (helper.Run).
THEOREM ForwardOnly == Spec => KeepsPromise
<1>1. Init => Promise!Init
  BY DEF Init, Promise!Init, GoodVersion
<1>2. IInv /\ IInv' /\ [Next]_vars => [Promise!Next]_<<GoodVersion, broken = {}>>
  <2> SUFFICES ASSUME IInv, IInv', Next
               PROVE  \/ UNCHANGED <<GoodVersion, broken = {}>> \/ Promise!Ends
                      \/ \E v \in Versions : Promise!Upgrade(v)
    BY DEF Promise!Next, vars, GoodVersion
  <2>1. broken \subseteq broken' /\ proven \subseteq proven'  BY HistoryGrows
  <2>2. CASE broken' = {}
    <3>1. broken = {} /\ Judged /\ Judged'  BY <2>1, <2>2 DEF Judged
    <3>2. GoodVersion \in proven  BY <3>1, GoodIsProven DEF IInv
    <3>3. (TypeOK /\ Asked /\ BackedUp /\ Phase => GoodVersion \in proven)'  BY GoodIsProven, PTL
    <3>4. GoodVersion' \in proven'  BY <3>1, <3>3 DEF IInv
    <3>5. GoodVersion <= GoodVersion'  BY <2>1, <2>2, <3>2 DEF IInv, Forward
    <3>6. GoodVersion \in Nat /\ GoodVersion' \in Nat /\ GoodVersion' \in Versions
      BY <3>2, <3>4, Numbers DEF IInv, TypeOK
    <3>7. CASE GoodVersion' = GoodVersion  BY <2>2, <3>1, <3>7
    <3>8. CASE GoodVersion' > GoodVersion  BY <2>2, <3>1, <3>6, <3>8 DEF Promise!Upgrade
    <3> QED  BY <3>5, <3>6, <3>7, <3>8
  <2>3. CASE broken' # {}  BY <2>3 DEF Promise!Ends
  <2> QED  BY <2>2, <2>3
<1> QED  BY <1>1, <1>2, Invariance, PTL DEF Spec, KeepsPromise, Promise!Spec
=============================================================================
