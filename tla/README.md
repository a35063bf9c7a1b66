# PoolPilot Relay: a TLA+ verification project

The relay is a small Go program in a home network. It pairs phones with a pool
controller, keeps a tunnel open through the PoolPilot control plane ("the
cloud"), polls the controller, raises alerts, and updates itself. This
directory holds TLA+ models of the parts of it where concurrency, failure and
ordering decide whether it is right, the TLC runs that check them on small
instances, and proofs that TLAPS checks.

## 1. The system

One process, several goroutines, one JSON document.

| Part | State | Operations | Hard behaviour |
| --- | --- | --- | --- |
| `state` store | one document (`state.json`), its copies on disk, a mutex | `Open` with migration, `Update`, `UpdateIfToken`, `DropHouseholdIf`, `Wipe` | crashes and failed file operations inside a write; every caller decides on an older snapshot |
| `lanapi` server | `controllerMu`, the requests in flight | pairing (founding, joining, recovering), revoking, controllers, rotation, resets, web sessions, settings; one route set on the LAN and a smaller one through the tunnel | a network call between the snapshot and the commit |
| `cloud` client | `syncMu`/`syncRerun`, `removalMu`/`removalRerun`, an outbox | redeem, vouchers, controller rows, removal reports, alerts, status | single-flight passes over a queue that changes under them |
| `lifecycle` watcher | pacing, strikes, kick and probe flags | ask about the household, park, resume, forget | the answer is about a household that may be gone |
| `poller` and `alert` engine | snapshots, rule state, the alerts outbox | poll, evaluate, merge, queue, drain; ticks the cloud client's queues | state written back after it was read; a queue that others empty while it is sent |
| `tunnel`, `e2e`, `ctrlfilter` | a running frp client, session key, burn list | configure, apply, restart; mint and redeem sessions | configuration racing the service that applies it |
| `announce` | the mDNS record | `UpdatePaired` | order of announcements |
| `updater` (agent) and `helper` (root) | files: request, result, health, staging, backup, installed-version | check, stage, verify, swap, watch, roll back | two processes, crashes at every step |
| drivers, wire types, presets, TLS, logs, command line | none of interest here | parsing, tables, I/O | none |

Everything the parts share is the document. A handler takes a snapshot, talks
to the cloud, and commits in one `Update`; the checks it repeats inside the
`Update` are what keeps the household right, and the places where it repeats
none are where it can go wrong. `PROJECT.json` lists the hazards line by line.

## 2. The modules

### Household (RecoveryCode, Household, MCHousehold, Household_proofs)

`Household` is the core: who is paired, under which cloud identity, with which
controllers. Its variables are the fields of `state.State` that matter, the
announced flag, `controllerMu`, and one record per request in flight, which
holds what the request's goroutine has read so far. Each step of a handler that
another goroutine can see the state between is an action: the snapshot, the
cloud call, the commit, the announcement. `BeginPair` to `AnnouncePaired` are
`pair`, `pairFirst`, `pairJoin`, `pairRecover` and `pairWithVoucher`;
`GateRevoke` to `AnnounceUnpaired` are `authed`/`selfOrOwner` and
`deleteDevice`; `AskStatus` to `AnnounceRead` are the watcher's and the LAN
API's ways into `lifecycle.ResetHousehold`; `GateUpsert` to `RemoveController`
are `putControllers` and `deleteControllerHandler`. `CloudDeletes` is the cloud.

`RecoveryCode` says what an owner-recovery code promises without any relay: a
window admits one phone, and windows close in order. `Household` implements it
with the history variable `redeemed`.

### SelfUpdate (KnownGood, SelfUpdate, SelfUpdate_proofs)

Agent and helper share only files. Every write, rename and removal that a crash
can separate from the next one is an action. `AgentDies`, `HelperDies` and
`PowerCut` may happen between any two, systemd starts the agent again, and the
path unit fires as long as `request.json` exists.

Only the binary and its backup are durable once installed: `installAtomic` syncs
the file and its directory. The staged files are not synced at all, the request
and the result without their directory, and the record of the installed version
is truncated and written in place (`Healthy`, `Record`, with `Torn` in between).
`media` is what the disk has of these four, `WriteBack` brings one of them up to
date at any time, and `PowerCut` takes all back to it. The agent's document is
taken as durable; `Store` has it in detail.

Every read and write of the helper may fail (`Faults`). An error before the
installed binary has been compared with the stage (helper.go:71-111,
`Unverifiable`, `Unreadable`) rejects the request, and so ends an attempt that
starts over with its unproven binary in place; one of the comparison
(`Incomparable`) backs that binary up over the good one; a record or a backup
that cannot be written is only logged. What such an error, or a power cut,
takes away the history `broken` says: the "attempt" that would have judged the
binary on trial, the "record" of one that passed, or the "restore" of the backup.

`KnownGood` is the promise to the owner: a version known to work, moving forward
only. It is implemented with `good <- GoodVersion`, the installed version if it
has passed a health watch and the backup otherwise, as long as nothing is
`broken`. `WayBack` and `SettledOnProven` need less, that trials are `Judged`; that
every request is answered needs nothing of it.

### CloudSync (CloudSync, CloudSync_proofs)

The controller rows the cloud holds. `PutController` sets the flag and the
revision in one step; `Start`, `BeginRound`, `Accepted`/`Rejected`/`Unanswered`,
`Clear`, `EndRound`, `Unlock` and `Swap` are one call of `SyncControllers`,
split where another call, a change or a rotation can come between. A request
takes effect in the cloud before its call returns, with or without the answer
arriving; one delivered after the call gave up is not modelled.

### Removals (Removals, Removals_proofs)

The durable queue of removal reports: `Revoke` queues in the commit of the
revoke, three kinds of pass (a revoke's own attempt, the poller's, the flush
before a new identity) run under `removalMu`, `Settle` works on the queue as it
is by then. Ages and backoffs are flags that time sets.

### Lifecycle (Lifecycle, Lifecycle_proofs)

The watcher. Instants become "ticks left" and "ticks ago", one tick being much
longer than a question takes; jitter and the one-minute rate limits of kicks and
probes are left out, kicks and probes come at any time instead. A question
carries the token and the lifecycle of its snapshot; the answer is acted on
when the document may hold another household.

### Remote access (FrpTunnel, RemoteAccess, RemoteAccess_proofs)

`FrpTunnel` is the goroutine that owns the frp client: `Run` reads the
configuration, builds a service, waits for the one-element signal, reconciles the
proxies in place or tears the service down. frp is external; the relay token
stands for the transport it fixes when a service is built. `RemoteAccess` extends
it with everything that must follow the document: `reconfigureTunnel`, step by
step under `tunnelMu` (`Lock` takes the snapshot, `SetTargets`, `SetSessionKey`,
`Configure` and `Signal` apply it), for three callers, the holder of
`controllerMu`, the watcher and a revoke on the tunnel leg; and the web sessions,
whose key lives in the document and in the filter (`BeginMint` to
`InstallAndMint` are `webSessionHandler`, `Redeem` is `serveSession`). The changes
of the document are single steps here; the races inside them are Household's. An
upsert needs an active device, so the stranded controller of section 3 is left to
Household. The controllers' end-to-end labels, and their backfill, are not
modelled, nor are cookies and the bearer.

### Store (Document, Store, Store_proofs)

`Store` is `state.json` and whatever else of it the disk holds: `temps` (the
households of which a crash left a temporary file), `bak` (the backup of a version-1
document), `safe`, the versions one of which a power cut leaves, and `gone`, the
copies whose names were unlinked or renamed away without a sync of the directory
since: a power cut may bring each of them back. `Update` changes memory and starts a
write; `WriteTemp`, `SyncTemp`, `Rename` and `SyncDir` are `persistLocked`,
`WriteFails` is the failure of any of its operations with the rollback of
`Update`; `Backup` to `Serve` are a start: the migration with its backup, the read,
the role inference, the TLS key and the writes of the boot; `RemoveDocument`,
`SweepBackup` and `SweepTemps` are `Wipe` and `removeStaleCopiesLocked`. `Kill` and
`PowerCut` come between any two. The document is reduced to the fields that tell
writes apart: the version, the agent identity, the TLS key, the household's
token and one more field. `WriteBack` is the system writing all its caches to
the disk. `clean` is a history: the households whose copies were swept without an
error, less those that a power cut has put back in doubt.

`Document` is what every other module assumes of the store: one document that is
there whole or not at all, changes in one step, keeps its identity and its key,
and after a power cut is one of the versions since the last that reached the
disk. `Store` implements it with `value <- path, maybe <- safe`.

### Alerts (Bands, AlertEngine, Alerts, MCAlerts, Alerts_proofs)

`Bands` grades a reading, `AlertEngine` is the engine as functions: which rules a
controller has by default (`ReconcileSeed`), and what one poll makes of a rule and
its memory (`Step`: `stepBanded` with its debouncing, latching and renotification,
`EvaluateStale`). A rule carries what it notifies (`notify`, the severities, and
`recovery`, the way back); a memory belongs to the rule's id. Both are evaluated by
`Alerts`, which adds everything that happens between a reading and a push. A tick works on the controllers it read at
its start (`tick`); `PollController` evaluates, `Persist` merges the memory into
what the document has become, `Send` queues a word, and `NothingToSend` to `Pop`
are `Drain`: look, drop a stale word, post, pop whatever is first by then. The
requests between these steps are `Register`, `ChangePreset`, `PutRules`,
`DeleteController`, `RotateController`, both ways a household goes, a founding,
parking and resuming. Time is what conditions and flags say: `cooled` (a cooldown is
over), `heard` (how long since the last success), `old` (a word is older than
`alertStaleness`). The water changes and words age between two ticks only; cooldowns
and silences end at any time.

`said` and `told` are histories, used by properties only: the last word queued
about a rule ("lost" once a restart, a failed write, the cap or a refusal took
it, "none" before its alarm is entered and once it has ended without a word,
"ended" when it went with its rule while a tick still had it in hand), and whether
the last word the cloud took was an alarm.

## 3. What the runs check

`pass` runs. The bounds are the smallest at which every action fires and the
mutations of the code listed in `PROJECT.json` are caught.

| Run | Instance | Checks |
| --- | --- | --- |
| household_pairing | a founding, two recoveries, one invited phone for a cap of 2, two windows, two revokes on the tunnel leg | types; the cap; the refinement of `RecoveryCode` (a code admits one phone); the last owner is not taken away; the tunnel leg never unpairs |
| household_resetting | two foundings one after the other, both resets, a revoke on the LAN leg, one registration | a reset reaches only its own household; no controller is taken in under a foreign identity |
| selfupdate | two versions, two deaths or power cuts anywhere, any of the helper's reads and writes failing at any time, a fair helper | as long as trials are judged, a way back always and idle only on proven versions; the refinement of `KnownGood`; every request is answered |
| cloudsync | two controllers, two changes, a rotation, the poller and one goroutine, one fault, fair | unflagged means current, unless rotated; rows never go back; flags settle |
| removals | a legacy entry, two revokes and a second founding on a queue of one, one fault (hold, reset, failed write, restart, ageing), fair | types and the cap; no removal forgotten; each under its own identity; every removal is settled |
| lifecycle | two households, two changes, answers at any time, fair | the watcher acts on answers about the household it has; the short cap when unknown; a parked household is resumed, a deleted one forgotten |
| remote_tunnel | two controllers, two households, five changes, one fault (a failed reconfiguration or build, a service that exits, a restart), fair | with nobody left to apply a change, tunnel and filter are configured for the document; the service runs under the identity of what it serves; the last change reaches it |
| web_sessions | two requests for a session, two devices, four changes, one fault | one secret; a token is redeemed once |
| store | two callers, two households, two agent identities, two faults (a failed file operation, a crash, a power cut), first starts and migrations | memory is what a restart reads; acknowledged writes survive; one key per identity; swept copies stay away, but for a power cut before the directory is on the disk; bound writes; the refinement of `Document`; the relay comes up again |
| alerts | one controller at a time, of two presets, two identities and two households, an outbox of two, debouncing over two polls, two changes or faults in all, an outage and parkings at will, fair | types and the outbox's limit; no memory outlives its rule and no alarm is latched that was not entered; no alarm is left standing with the user; what is repeated or called off had been entered; the queue is about its own household; what lasts is told, and told again |

Five changes are what it takes to replace a household that has a controller by
another that has one before `Run` looks, which is when the identity of the
transport matters; two requests are what it takes to race for the secret. Two
faults are what it takes to interrupt a write and then the start that follows it.
In selfupdate the installer's version and one release are what the errors of the
helper and the unsynced files leave room for; a second update after the first is in
the theorems, which hold for any number of releases.
Two changes in the midst of a tick are what it takes to remove a rule and add it
again while a poll that had read its alarm is in flight; an outbox of two overflows
with one rule that enters, repeats and recovers during an outage.

The instance of alerts has one controller at a time (`Quota = 1`). With two at once
`NoFalseAlarm` does not hold, which is what `recovery_dropped` shows. Everything
else the two share, the tick's list of controllers and the queue, is there with
one that is removed and another that is registered, or rotated, in the middle of
a tick.

`violation` runs show where the program does not do what its own comments say:

* `setup_ready_broken`: a join that commits after the household was dropped leaves
  a relay that is paired and not enrolled; no code can set it up again.
* `recovery_dropped`: default rules have the same ids on every controller, and
  `lastQueuedEntryForRule` looks for the id alone: when a recovery has waited an
  hour in the queue and a word about another controller's rule of that id is behind
  it, the recovery is dropped as superseded, and the user keeps the alarm.

### Other disagreements

These came up while the modules were written or with the property in the last
column, and are not among the runs. Where a property is named, it can be stated
over the module's variables; `Kind`, `Founders` and the other constants are enough
to see each of them.

| Where | What happens | Property violated |
| --- | --- | --- |
| lanapi.go:709 | a guest joins a relay whose last device was revoked while the voucher was brokered; pairJoin's doc (577-579) requires an already-paired relay | a device with `Kind = "join"` becomes active only when `Paired` |
| lanapi.go:536 | two enrolment codes redeemed at once (`Founders = 2`): the second founding replaces the identity of a paired relay, which `pair` (489-494) refuses, and adds its device to a household that may be full | a device with `Kind = "first"` becomes active only when `~Paired`; `CapHeld` |
| lifecycle.go:474, lanapi.go:1136 | a founding commits and announces between the reset's read of the paired flag (or the last revoke's commit) and its announcement | no request in flight and `Paired` implies `mdns` |
| updater.go:271 | with `AppActive`, a check answered before the rollback's result is ingested stages the failed version again | a rolled-back version is never a later `job` |
| helper.go:71 | an attempt that starts over after its binary was installed is rejected, and its request deleted, when an I/O error comes before the comparison of the binaries (71-111), or when a power cut has taken the stage, which nothing syncs (stage.go:177-188); the rename of the request is not synced either (protocol.go:79). The unproven binary stays with nothing to judge it, and the next update's backup overwrites the good one. self-update.md:18-20 says the helper "automatically rolls back" a version that does not come up healthy | `SettledOnProven` and `WayBack` without `Judged` |
| helper.go:212 | a read error while the binaries are compared counts as "not the same": the attempt that starts over backs the unproven binary up over the good one, against the guard's own comment (114-119) | `WayBack` without `Judged` |
| helper.go:151 | the record is truncated and written in place, without a sync. A power cut that takes it back and leaves the request has the version watched again, and one that had passed may be rolled back; one that leaves it empty makes every later update "not_newer" (103) | `KnownGood` with `sound <- TRUE`; `installed # Torn` when nothing is under way |
| helper.go:104 | a death of the helper after `installed` is written: the surviving request is answered "rejected" although its version runs (384) | the helper is at "rejected" only when `bin # target` |
| updater.go:418 | the helper writes `result` between the agent's read and its delete, which then deletes what was never ingested | `KeepResult` only when `result = ingest` |
| cloud.go:270, cloud.go:580 | a rerun is requested after its holder looked, or of a holder that never looks; the poller's next tick serves it | no call in flight implies `~rerun` |
| lifecycle.go:367 | a 401 about a replaced token counts as a strike and towards parking the household set up since; ask's doc (276-281) says an answer about the old household never parks the new one | `life = "unknown"` implies that every strike is for `token` |
| lanapi.go:1549 | a mint or a reconfiguration read the secret before another one, or a revoke, replaced it, and installs it after: the filter verifies with another key than the document's, and a session just handed out is refused; SetSessionKey's doc (server.go:100-103) says filter and mint never disagree | with no call in flight and no mint under way, `key` is `None` or `secret` (RemoteAccess) |
| lifecycle.go:320 | `park` discards an answer and resets the pacing, its caller then schedules the backoff for the new household | a discarded answer leaves `wait = 0` |
| lanapi.go:1233 | an upsert that was admitted before the last device was revoked persists its controller after it, under the token the revoke keeps; the next founding keeps that controller, although the comment at 1045-1050 says every controller's token is the household's | a registered controller belongs to the identity in `token` (Household) |
| cloud.go:304 | a pass between the two halves of a rotation is answered 404 for the old GUID and clears the flag of a change that then never arrives; the doc of `SyncControllers` (252-253) keeps a flag until the change has arrived | `CurrentUnlessRotated` without `live[c] = 1` (CloudSync) |
| state.go:742 | a crash in the middle of `backupV1` leaves a torn `.v1.bak`, which the next start takes for the backup | `bak.v # 3` once the document is migrated (Store) |
| state.go:812 | `Wipe` removes `state.json` and does not sync the directory: a power cut brings the document of the household back, although a factory reset "must erase the IDENTITY" (800) | `safe = {Absent}` once `wiped` holds and the mutex is free (Store) |
| state.go:836 | the unlinks of `removeStaleCopiesLocked` are not followed by a sync of the directory either: a power cut after a sweep without an error may bring the backup, or a temporary file with the household's credentials, back, and nothing sweeps again until the next reset; its callers promise that the copies are erased | `NoStrayCopy` without taking `MayReturn` out of `clean` (Store) |
| poller.go:206 | a tick that was polling while the household was dropped, or a controller removed, queues its words afterwards, in the outbox of the household that follows | `QueueOfOwn` without `strays` (Alerts) |
| lanapi.go:1056 | the outbox outlives the last device, and a founding leaves it alone: words about controllers of the household before are sent under the new token | the same |
| lanapi.go:1660 | the snapshots are keyed by GUID: rotating a controller that is down forgets when it last answered, and its watchdog says nothing until it has answered under the new one or the process restarts | `ToldAgain` without `heard[g] # "never"` (Alerts) |
| poller.go:337 | a rule that is removed and added again while a tick is polling gets its old memory back with the merge, although `setControllerRules` prunes it "so a re-added ID starts fresh" | `NoResidue` with `said` "none" instead of "ended" for a rule removed while a tick has it in hand (Alerts) |
| alert.go:175, lanapi.go:1845 | a PUT may give an id that is in use to a rule of another kind; the memory is kept for the id, so that what was said as "bad" is repeated or called off as "stale". `ReconcileSeed` (alert.go:121) gets two rules of one id the same way: an app's rule under a default's id but for another type does not cover that type, and the default is appended beside it | `SaidOnce` with an `AppRules` in which an id has two kinds |
| lanapi.go:1845 | an edit that makes a rule notify a severity keeps the memory, and a value that was already committed at that severity says nothing until it has been another one | `ToldAgain` with an `AppRules` that has a rule with and without "bad" in `notify` |

### Fairness

* Helper (`WF` of its steps): the path unit starts it as long as the request
  exists and a process runs until it is killed; crashes are bounded.
* Sync and removals: the poller ticks for ever, goroutines run to their end,
  the lock is handed over (`SF` of the poller's `Start`, since it finds the lock
  taken now and then but comes back each tick), the cloud answers sooner or later
  (`SF`), a parked or held relay is resumed.
* Tunnel: `Run`'s goroutine runs (`WF`), and the handlers that changed the document
  run to their end (`WF`). Failures and restarts are bounded; a failed
  reconfiguration is not retried, and `Settles` says nothing of it.
* Store: a start, the file operations of a write and a sweep, and the exit after a
  wipe go on (`WF` of each) until a fault stops them; faults are bounded. The
  supervisor starts the process again after every exit.
* Alerts: one `WF` for the poller, which is one goroutine: whatever its next step
  is, a failed write or an outage included, it takes one. `WF` for the end of
  cooldowns and silences, which are the clock's. `ToldAgain` is about conditions
  that last while the relay is paired, not parked, and the cloud answers.
* Watcher: the ticker steps it (`WF`), time passes (`SF`, because questions come
  and go meanwhile), an answer that has arrived is acted on, the cloud is not out
  of reach for ever (`SF`).

## 4. What is proved

For every value of the constants, from the named assumptions on them in each
module. Each proof has the same shape: an invariant `IInv` that contains the
property, `Init => IInv`, one lemma per group of actions for
`IInv /\ [Next]_vars => IInv'` with one step per action, and the theorem by PTL. TLC
checked the invariants on the instances first. What makes each inductive:

| Module | Theorems | The strengthening, and why |
| --- | --- | --- |
| Household_proofs | `TypeOK`; `RecoverySingleUse`; `ImplementsRecoveryCode`; `RegisteredUnderOwn`; `ResetReachesOwnHousehold`; `OwnerKept`; `TunnelNeverUnpairs`; `CapHeld`, with a hypothesis | for the code: that a window has admitted nobody says nothing unless the mark `used` covers every window that has; the recheck in the commit does the rest, and `OnlyCommitsRedeem` reduces all other actions to stutters. For the rest, `IInv`: an identity in flight has one holder and no upsert waits for it (`Identities`, `Bound`), so a token found again was there all along; the watcher's binding is a deleted household (`Deleted`); a device is in the document only once its request has committed (`Newcomers`). For the cap, `Counted`: the set of devices is finite, a step adds one device at most (`ActiveStep`), and that after the recheck or to an empty relay |
| Store_proofs | `InStep`; `BoundWrite`; `ImplementsDocument`; `AckedSurvives`; `PinStable`; `NoStrayCopy` | `OnItsWay`: what is being written is a whole successor of what is there, and a bound write still finds its household; `ComingUp` and `Running`: who may hold the mutex at which stage of a start, and what the rollback restores; for durability that nothing but a directory sync under way stands between `safe` and the document, for the pins that a key was on disk before anything served it; for the copies that neither the document nor what is about to replace it carries an identity that was swept or whose sweep is due (`SweptIsGone`), and that an identity is given out once (`HandedOut`); a power cut takes what it may bring back out of `clean`, so that the removals need no more than that |
| Removals_proofs | `TypeOK`; `NoneForgotten`; `OwnIdentity` | no device is queued twice, so that settling by device settles what was sent; a snapshot outlives the queue it was taken of but not what its entries say of their identity |
| CloudSync_proofs | `CurrentUnlessRotated`; `RowNeverOlder` | `SingleFlight` under `syncMu`; `Unsent`: what the holder has still to send is flagged, at most as new as the document and at least as new as the row; `Replied`: the answer it holds is about what the cloud has now |
| RemoteAccess_proofs | `TunnelCurrent`; `TransportOwn`; `RedeemedOnce`; `OneSecret`; `TypeOK` | `Exclusive` under `tunnelMu`; `InStep`: either somebody has yet to take a snapshot, or the holder's fits the document and so does what he has applied so far; `Emptied` and `AllBacked`, because a founding applies nothing; `Spent`: a burn lasts as long as its token would verify |
| SelfUpdate_proofs | `WayBack`; `SettledOnProven`; `KeepsPromise` | `Phase`: for each step of the helper and each place a crash leaves it, what is installed is proven, or on trial with a proven backup and, as long as trials are judged, a request, a stage and a record that will have it watched again (`Resumable`); `Forward`: with nothing `broken`, what is recorded, or about to be, is the good version, so that only a newer one replaces it; `Asked` and `BackedUp` for what it starts from |
| Lifecycle_proofs | `ActsOnOwnAnswer`; `UnknownAsksSoon` | `Heard`: an answer in hand is one the cloud gave about the household asked for; `KnowsState`: a parked state changes at the end of a question only; the bounds of the backoff |
| Alerts_proofs | `TypeOK`; `NoResidue`; `QueueOfOwn`; `SaidOnce` and `NoFalseAlarm`, with hypotheses | the memory merged back is a memory and is pruned by the document's rules, not by the tick's (`Tidy`); `OwnedHere` and `OwnedInFlight`: what the tick has in hand belongs to the household or became a stray when that went, since no registration takes an identity that was given out. For what is said, three links of one chain: the tick's memory agrees with the last word said (`TickAgrees`), and the words in hand and the memory to be persisted follow from both (`JobAgrees`), and so does the document's memory once it has been merged back (`SaidAgrees`). For what is called off: once a recovery is the last word said of a rule, it is the last in the queue about that rule, or none is and the user was told of no alarm (`CallsOff`); what is being delivered is the queue's first, unless the queue went with its household (`HeadFirst`); with one controller no word of another one is behind its own (`Single`). Of the pure parts: `SeedSettles`, what `ReconcileSeed` leaves of a rule set and that it is idempotent, and `ControlGrades`, what a band from the controller promises, for all integers |

`Store`'s `ImplementsDocument` is what the other modules take for granted when they
make an `Update` one step: `Document` allows a change, a loss of what was not yet
safe, and nothing else.

Every safety and every action property that the passing runs check is stated by a
theorem. Four of the theorems have a hypothesis besides the assumptions on the
constants, because without it the code does not keep the property; each is a row
under "Other disagreements", or a run:

* `CapHeld`. `CapKeptByRecheck` supposes of a behaviour that no founding commits
  into a relay that was paired in the meantime, which `pairFirst` does not look at;
  `CapKept` supposes that one device founds, and then proves that of every
  behaviour. Joins, recoveries, revokes, resets and restarts are free in both.
  With two foundings the property fails.
* `SaidOnce` (`EachSaidOnce`) and `NoResidue` (`NothingLatched`) suppose
  `IdsKeepTheirKind`: rules of one id are of one
  kind and type, which `ValidateRules` does not ask of a rule set and the one it
  replaces. What a rule notifies, and whether it is enabled, may change. The default
  rules keep to it, and so do the rule sets of the instance (`KindsAssumption`).
* `NoFalseAlarm` (`AlarmsAreCalledOff`) supposes the same and `Quota = 1`, one
  controller at a time, of any number one after the other. With two it fails in
  the run `recovery_dropped`.

Model-checked only: liveness (`RequestAnswered`, `FlagsSettle`, `Settled`,
`ParkedResumes`, `DeletedIsForgotten`, `Settles`, `ComesBack`, `ToldAgain`), which
is beyond this prover.

## 5. Not modelled

* Controller drivers and measurement, wire types, presets, ids, TLS and logs:
  parsing, tables and I/O, data without state.
* The derivation of recovery codes, release signatures, session tokens'
  signatures: cryptography, taken as what verifies and what does not.
* Settings and the update endpoints of the LAN API: each is one `Update` of one
  field that nothing else writes, or a call of the updater that `SelfUpdate` has.
* The poller's cadence and its reload, the update window, jitter and rate limits:
  what they pace may happen at any time instead.
* Validation of bands and rules in requests: the models take rule sets that passed
  it. Floating point: `Bands` compares integers.
* The tunnel's status, the end-to-end labels and their backfill; cookies, the
  bearer, and the path and cross-site checks of the filter: request by request,
  without shared state beyond what `RemoteAccess` has.
* Supervision and the command line: the restarts are there, option parsing is not.

A request to the cloud takes effect before its call returns; one that times out at
the relay and is delivered after a newer one is not modelled anywhere.

## 6. Plan

1. Household, with its recovery-code abstraction: done and proved.
2. SelfUpdate with KnownGood, CloudSync, Removals, Lifecycle, RemoteAccess: done and
   proved. To extend: the end-to-end labels and their backfill; requests delivered
   late.
3. Store with Document: done and proved.
4. Alerts: done and proved. To extend: a run with two controllers for the
   properties that hold of them, and `NoFalseAlarm` for rules whose ids differ
   between controllers.
5. Pure parts: `ReconcileSeed` and the controller's bands are done; version
   comparison and the poll cadence are left.
6. Abstract specifications still to state: of the removal queue and of the alerts
   outbox, what is delivered at least once or given up for a named reason.
