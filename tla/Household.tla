----------------------------- MODULE Household ------------------------------
(***************************************************************************)
(* The relay's household: who is paired with it, under which cloud         *)
(* identity, and which controllers are registered.  One document           *)
(* (state.State) is written by concurrent LAN API handlers, by the tunnel  *)
(* leg of the same API and by the lifecycle watcher.  Every write is one   *)
(* serialised Store.Update, but every handler decides on snapshots it took *)
(* earlier and waits for the cloud in between; this module interleaves     *)
(* those steps.                                                            *)
(***************************************************************************)
EXTENDS Naturals, FiniteSets

CONSTANTS
    Devices,      \* one device id per pairing request
    Kind,         \* which ceremony each pairing request runs
    InviteRoles,  \* the roles the cloud mints invite vouchers for
    Revokes,      \* DELETE /v1/devices requests
    Legs,         \* the legs they may arrive on
    Resetters,    \* who may reset the household: "watcher", "lan"
    Upserts,      \* PUT /v1/controllers requests
    Founders,     \* bound: founding ceremonies in flight at the same time
    DeviceCap,    \* active devices allowed per relay (11 in the code)
    MaxToken,     \* bound: cloud identities minted
    Deletable,    \* bound: the cloud identities whose household may be deleted
    MaxWindow     \* bound: recovery windows

ASSUME KindAssumption == Kind \in [Devices -> {"first", "join", "recover"}]
ASSUME RolesAssumption == InviteRoles \subseteq {"owner", "member"}
ASSUME LegsAssumption == Legs \subseteq {"lan", "tunnel"}
ASSUME ResettersAssumption == Resetters \subseteq {"watcher", "lan"}
ASSUME BoundsAssumption == Founders \in Nat /\ DeviceCap \in Nat \ {0} /\ MaxToken \in Nat /\ MaxWindow \in Nat \ {0}

NoToken == 0
Tokens  == 1..MaxToken
Windows == 1..MaxWindow
Roles   == {"owner", "member"}

VARIABLES
    token,    \* State.Cloud.FrpcToken, NoToken when not enrolled
    dev,      \* State.Devices: what each device id is in the document
    ctrls,    \* State.Controllers, each as the identity its GUID was minted under
    used,     \* State.RecoveryWindowUsed
    mdns,     \* the paired flag in the announced TXT record
    mu,       \* controllerMu: TRUE while a request holds it across other steps
    pair,     \* the pairing requests in flight
    rev,      \* the revoke requests in flight
    rst,      \* the household resets in flight
    put,      \* the controller upserts in flight
    minted,   \* the cloud: the last identity it minted
    gone,     \* the cloud: identities whose household was deleted
    clock,    \* the current recovery window
    redeemed  \* history: the devices each recovery window has admitted

doc   == <<token, dev, ctrls, used>>
cloud == <<minted, gone>>
vars  == <<token, dev, ctrls, used, mdns, mu, pair, rev, rst, put, minted, gone, clock, redeemed>>

-----------------------------------------------------------------------------
(* The document.                                                           *)

Active   == {d \in Devices : dev[d] \in Roles}
Paired   == Active # {}
Enrolled == token # NoToken
IsOwner(d) == dev[d] = "owner"

\* ResetHousehold as the document sees it: everything but the replay guard.
ForgetHousehold ==
    /\ token' = NoToken
    /\ dev' = [d \in Devices |-> "absent"]
    /\ ctrls' = {}

-----------------------------------------------------------------------------
(* Pairing.                                                                *)

Idle == [pc |-> "idle", paired |-> FALSE, tok |-> NoToken, win |-> 0]

PairMoves(d, from, to) == pair[d].pc = from /\ pair' = [pair EXCEPT ![d].pc = to]

OthersThanPair == UNCHANGED <<rev, rst, put>>
OthersThanRev  == UNCHANGED <<pair, rst, put>>
OthersThanRst  == UNCHANGED <<pair, rev, put>>
OthersThanPut  == UNCHANGED <<pair, rev, rst>>

\* The first snapshot: which ceremony the code selects and whether it may run.
\* A recovery code of the current or the previous window is accepted here when
\* its window is later than the last one used.
VerifiedWindows == {w \in Windows : w \in {clock, clock - 1} /\ w >= used + 1}

Founding == {d \in Devices : Kind[d] = "first" /\ pair[d].pc \in {"checked", "brokered"}}

BeginPair(d) ==
    /\ pair[d].pc = "idle"
    /\ \/ /\ Kind[d] = "first"
          /\ ~Paired
          /\ Cardinality(Founding) < Founders
          /\ pair' = [pair EXCEPT ![d].pc = "checked"]
       \/ Kind[d] = "join" /\ Paired /\ pair' = [pair EXCEPT ![d].pc = "begun"]
       \/ /\ Kind[d] = "recover"
          /\ \E w \in VerifiedWindows :
                pair' = [pair EXCEPT ![d].pc = "begun", ![d].win = w]
    /\ UNCHANGED <<doc, mdns, mu, cloud, clock, redeemed>> /\ OthersThanPair

\* pairWithVoucher's own snapshot: the advisory cap check, and whether the
\* relay was paired, which decides the announcement made much later.
CheckPair(d) ==
    /\ pair[d].pc = "begun"
    /\ Cardinality(Active) < DeviceCap
    /\ pair' = [pair EXCEPT ![d].pc = "checked", ![d].paired = Paired]
    /\ UNCHANGED <<doc, mdns, mu, cloud, clock, redeemed>> /\ OthersThanPair

\* The cloud call that succeeds.  A redeem mints a new identity; a voucher is
\* brokered under the token the document holds when the call is made.
RedeemCode(d) ==
    /\ pair[d].pc = "checked" /\ Kind[d] = "first"
    /\ minted < MaxToken
    /\ minted' = minted + 1
    /\ pair' = [pair EXCEPT ![d].pc = "brokered", ![d].tok = minted + 1]
    /\ UNCHANGED <<doc, mdns, mu, gone, clock, redeemed>> /\ OthersThanPair

BrokerVoucher(d) ==
    /\ Kind[d] # "first"
    /\ PairMoves(d, "checked", "brokered")
    /\ Enrolled /\ token \notin gone
    /\ UNCHANGED <<doc, mdns, mu, cloud, clock, redeemed>> /\ OthersThanPair

\* pairFirst's Update: the device and the whole Cloud struct, unconditionally.
CommitFirst(d) ==
    /\ Kind[d] = "first"
    /\ PairMoves(d, "brokered", "committed")
    /\ token' = pair[d].tok
    /\ dev' = [dev EXCEPT ![d] = "owner"]
    /\ UNCHANGED <<ctrls, used, mdns, mu, cloud, clock, redeemed>> /\ OthersThanPair

\* pairWithVoucher's Update, with the checks it repeats under the store lock.
\* Mut...: mutated forms of the operator that follows, for mutation checks.
MutNoCapRecheck == TRUE
CapStillFree == Cardinality(Active) < DeviceCap

MutNoWindowRecheck(d) == TRUE
WindowStillFree(d) == Kind[d] = "recover" => pair[d].win > used

MutRawRole(d) == IF Kind[d] = "recover" THEN {"owner"} ELSE {"member", "guest"}
VoucherRoles(d) == IF Kind[d] = "recover" THEN {"owner"} ELSE InviteRoles

CommitVoucher(d) ==
    /\ Kind[d] # "first"
    /\ CapStillFree /\ WindowStillFree(d)
    /\ PairMoves(d, "brokered", IF pair[d].paired THEN "done" ELSE "committed")
    /\ \E role \in VoucherRoles(d) : dev' = [dev EXCEPT ![d] = role]
    /\ IF Kind[d] = "recover"
         THEN /\ used' = IF pair[d].win > used THEN pair[d].win ELSE used
              /\ redeemed' = [redeemed EXCEPT ![pair[d].win] = @ \cup {d}]
         ELSE UNCHANGED <<used, redeemed>>
    /\ UNCHANGED <<token, ctrls, mdns, mu, cloud, clock>> /\ OthersThanPair

\* Every answer but success: a check that fails, a refused or unreachable
\* cloud, a recheck lost to another request, or a failed persist (Update
\* leaves memory and disk as they were).
FailPair(d) ==
    /\ pair[d].pc \in {"begun", "checked", "brokered"}
    /\ pair' = [pair EXCEPT ![d] = [Idle EXCEPT !.pc = "done"]]
    /\ UNCHANGED <<doc, mdns, mu, cloud, clock, redeemed>> /\ OthersThanPair

\* UpdatePaired(true), after the commit.
AnnouncePaired(d) ==
    /\ PairMoves(d, "committed", "done")
    /\ mdns' = TRUE
    /\ UNCHANGED <<doc, mu, cloud, clock, redeemed>> /\ OthersThanPair

Pairing(d) == \/ BeginPair(d) \/ CheckPair(d) \/ RedeemCode(d) \/ BrokerVoucher(d)
              \/ CommitFirst(d) \/ CommitVoucher(d) \/ FailPair(d) \/ AnnouncePaired(d)

-----------------------------------------------------------------------------
(* Revoking a device.                                                      *)

\* authed and selfOrOwner: the caller is an active device, and an owner when
\* the target is not itself.  The request carries this snapshot's verdict on.
GateRevoke(r) ==
    /\ rev[r].pc = "idle"
    /\ \E caller \in Active, target \in Devices, leg \in Legs :
          /\ target = caller \/ IsOwner(caller)
          /\ rev' = [rev EXCEPT ![r] = [pc |-> "gated", caller |-> caller,
                                        target |-> target, leg |-> leg]]
    /\ UNCHANGED <<doc, mdns, mu, cloud, clock, redeemed>> /\ OthersThanRev

\* The guards deleteDevice evaluates inside its Update.
LastActive(d) == Active = {d}
LastOwner(d)  == IsOwner(d) /\ \A e \in Active : IsOwner(e) => e = d

MutTunnelUnpairs(r) == rev[r].target # rev[r].caller => ~LastOwner(rev[r].target)
MutOwnerUnguarded(r) == ~(rev[r].leg = "tunnel" /\ LastActive(rev[r].target))
RevokeAllowed(r) ==
    /\ ~(rev[r].leg = "tunnel" /\ LastActive(rev[r].target))
    /\ rev[r].target # rev[r].caller => ~LastOwner(rev[r].target)

\* deleteDevice's Update.  The LAN leg runs it under controllerMu, which it
\* drops before the cloud calls that follow; the last device's revoke also
\* forgets the controllers, and flips the announcement after those calls.
CommitRevoke(r) ==
    /\ rev[r].pc = "gated"
    /\ rev[r].leg = "lan" => ~mu
    /\ rev[r].target \in Active
    /\ RevokeAllowed(r)
    /\ dev' = [dev EXCEPT ![rev[r].target] = "revoked"]
    /\ IF LastActive(rev[r].target)
         THEN ctrls' = {} /\ rev' = [rev EXCEPT ![r].pc = "unpaired"]
         ELSE ctrls' = ctrls /\ rev' = [rev EXCEPT ![r].pc = "revoked"]
    /\ UNCHANGED <<token, used, mdns, mu, cloud, clock, redeemed>> /\ OthersThanRev

\* Not found, refused by a guard, or not persisted.
FailRevoke(r) ==
    /\ rev[r].pc = "gated"
    /\ rev' = [rev EXCEPT ![r].pc = "refused"]
    /\ UNCHANGED <<doc, mdns, mu, cloud, clock, redeemed>> /\ OthersThanRev

\* UpdatePaired(false), once the cloud calls are over.
AnnounceUnpaired(r) ==
    /\ rev[r].pc = "unpaired"
    /\ rev' = [rev EXCEPT ![r].pc = "revoked"]
    /\ mdns' = FALSE
    /\ UNCHANGED <<doc, mu, cloud, clock, redeemed>> /\ OthersThanRev

Revoking(r) == GateRevoke(r) \/ CommitRevoke(r) \/ FailRevoke(r) \/ AnnounceUnpaired(r)

-----------------------------------------------------------------------------
(* Resetting the household: the watcher's "deleted" answer and the LAN     *)
(* request run the same sequence, each with a binding of its own.          *)

\* The watcher holds an answer "deleted", obtained for the token it asked with.
AskStatus ==
    /\ "watcher" \in Resetters /\ rst["watcher"].pc = "idle"
    /\ Enrolled /\ token \in gone
    /\ rst' = [rst EXCEPT !["watcher"] = [pc |-> "bound", to |-> token]]
    /\ UNCHANGED <<doc, mdns, mu, cloud, clock, redeemed>> /\ OthersThanRst

\* accessOwner: an active owner asked for the reset.
GateReset ==
    /\ "lan" \in Resetters /\ rst["lan"].pc = "idle"
    /\ \E caller \in Devices :
          /\ IsOwner(caller)
          /\ rst' = [rst EXCEPT !["lan"] = [pc |-> "bound", to |-> caller]]
    /\ UNCHANGED <<doc, mdns, mu, cloud, clock, redeemed>> /\ OthersThanRst

\* still: the binding, evaluated on the current document.
MutStillPaired(a) == IF a = "watcher" THEN Enrolled ELSE rst[a].to \in Active
Still(a) == IF a = "watcher" THEN token = rst[a].to ELSE rst[a].to \in Active

\* DropHouseholdIf.  The LAN request waits for controllerMu and holds it until
\* its announcement.
DropHousehold(a) ==
    /\ rst[a].pc = "bound"
    /\ a = "lan" => ~mu
    /\ Still(a)
    /\ ForgetHousehold
    /\ rst' = [rst EXCEPT ![a] = [pc |-> "dropped"]]
    /\ mu' = (mu \/ a = "lan")
    /\ UNCHANGED <<used, mdns, cloud, clock, redeemed>> /\ OthersThanRst

\* The binding no longer holds, or the drop could not be persisted.
FailReset(a) ==
    /\ rst[a].pc = "bound"
    /\ rst' = [rst EXCEPT ![a] = [pc |-> "idle"]]
    /\ UNCHANGED <<doc, mdns, mu, cloud, clock, redeemed>> /\ OthersThanRst

\* UpdatePaired(store.Get().Paired()): the read, then the announcement.
ReadPaired(a) ==
    /\ rst[a].pc = "dropped"
    /\ rst' = [rst EXCEPT ![a] = [pc |-> "read", paired |-> Paired]]
    /\ UNCHANGED <<doc, mdns, mu, cloud, clock, redeemed>> /\ OthersThanRst

AnnounceRead(a) ==
    /\ rst[a].pc = "read"
    /\ mdns' = rst[a].paired
    /\ rst' = [rst EXCEPT ![a] = [pc |-> "idle"]]
    /\ mu' = (mu /\ a # "lan")
    /\ UNCHANGED <<doc, cloud, clock, redeemed>> /\ OthersThanRst

Resetting == \/ AskStatus \/ GateReset
             \/ \E a \in Resetters : DropHousehold(a) \/ FailReset(a) \/ ReadPaired(a) \/ AnnounceRead(a)

-----------------------------------------------------------------------------
(* Registering a controller.                                               *)

GateUpsert(u) ==
    /\ put[u].pc = "idle"
    /\ \E d \in Devices : IsOwner(d)
    /\ put' = [put EXCEPT ![u] = [pc |-> "gated"]]
    /\ UNCHANGED <<doc, mdns, mu, cloud, clock, redeemed>> /\ OthersThanPut

\* Under controllerMu: the token the upsert is bound to.
LockUpsert(u) ==
    /\ put[u].pc = "gated" /\ ~mu
    /\ mu' = TRUE
    /\ put' = [put EXCEPT ![u] = [pc |-> "locked", tok |-> token]]
    /\ UNCHANGED <<doc, mdns, cloud, clock, redeemed>> /\ OthersThanPut

\* The cloud mints a GUID for the identity the document holds at the call.
RegisterController(u) ==
    /\ put[u].pc = "locked"
    /\ Enrolled /\ token \notin gone
    /\ put' = [put EXCEPT ![u] = [pc |-> "registered", tok |-> put[u].tok, guid |-> token]]
    /\ UNCHANGED <<doc, mdns, mu, cloud, clock, redeemed>> /\ OthersThanPut

\* UpdateIfToken: the controller is kept only under the token of the snapshot.
MutUpsertUnbound(u) == TRUE
UpsertBound(u) == token # NoToken /\ token = put[u].tok

PersistController(u) ==
    /\ put[u].pc = "registered"
    /\ ctrls' = IF UpsertBound(u) THEN ctrls \cup {put[u].guid} ELSE ctrls
    /\ put' = [put EXCEPT ![u] = [pc |-> "done"]]
    /\ mu' = FALSE
    /\ UNCHANGED <<token, dev, used, mdns, cloud, clock, redeemed>> /\ OthersThanPut

\* A failed probe, a refused registration, a failed persist.
FailUpsert(u) ==
    /\ put[u].pc \in {"locked", "registered"}
    /\ put' = [put EXCEPT ![u] = [pc |-> "done"]]
    /\ mu' = FALSE
    /\ UNCHANGED <<doc, mdns, cloud, clock, redeemed>> /\ OthersThanPut

\* DELETE /v1/controllers/{guid}, whose Update runs under controllerMu.
RemoveController(c) ==
    /\ ~mu
    /\ ctrls' = ctrls \ {c}
    /\ UNCHANGED <<token, dev, used, mdns, mu, cloud, clock, redeemed, pair, rev, rst, put>>

Upserting == \/ \E u \in Upserts : \/ GateUpsert(u) \/ LockUpsert(u) \/ RegisterController(u)
                                  \/ PersistController(u) \/ FailUpsert(u)
             \/ \E c \in ctrls : RemoveController(c)

-----------------------------------------------------------------------------
(* The world around the relay.                                             *)

\* Somebody deletes a household in the cloud.
CloudDeletes(t) ==
    /\ t \in Deletable /\ t <= minted
    /\ gone' = gone \cup {t}
    /\ UNCHANGED <<doc, mdns, mu, minted, clock, redeemed, pair, rev, rst, put>>

Tick ==
    /\ clock < MaxWindow
    /\ clock' = clock + 1
    /\ UNCHANGED <<doc, mdns, mu, cloud, redeemed, pair, rev, rst, put>>

\* A crash and a restart: requests in flight are lost, the document is what
\* was last persisted, and the announcement starts from it.
Restart ==
    /\ pair' = [d \in Devices |-> IF pair[d].pc = "idle" THEN pair[d] ELSE [Idle EXCEPT !.pc = "done"]]
    /\ rev' = [r \in Revokes |-> IF rev[r].pc \in {"gated", "unpaired"}
                               THEN [rev[r] EXCEPT !.pc = "refused"] ELSE rev[r]]
    /\ rst' = [a \in Resetters |-> [pc |-> "idle"]]
    /\ put' = [u \in Upserts |-> IF put[u].pc = "idle" THEN put[u] ELSE [pc |-> "done"]]
    /\ mu' = FALSE
    /\ mdns' = Paired
    /\ UNCHANGED <<doc, cloud, clock, redeemed>>

-----------------------------------------------------------------------------
Init ==
    /\ token = NoToken
    /\ dev = [d \in Devices |-> "absent"]
    /\ ctrls = {}
    /\ used = 0
    /\ mdns = FALSE
    /\ mu = FALSE
    /\ pair = [d \in Devices |-> Idle]
    /\ rev = [r \in Revokes |-> [pc |-> "idle"]]
    /\ rst = [a \in Resetters |-> [pc |-> "idle"]]
    /\ put = [u \in Upserts |-> [pc |-> "idle"]]
    /\ minted = 0
    /\ gone = {}
    /\ clock = 1
    /\ redeemed = [w \in Windows |-> {}]

Next == \/ \E d \in Devices : Pairing(d)
        \/ \E r \in Revokes : Revoking(r)
        \/ Resetting
        \/ Upserting
        \/ \E t \in Tokens : CloudDeletes(t)
        \/ Tick
        \/ Restart

Spec == Init /\ [][Next]_vars

-----------------------------------------------------------------------------
(* Properties.                                                             *)

DocType ==
    /\ token \in {NoToken} \cup Tokens
    /\ dev \in [Devices -> Roles \cup {"absent", "revoked"}]
    /\ ctrls \subseteq Tokens
    /\ used \in {0} \cup Windows

PairType == pair \in [Devices -> [pc : {"idle", "begun", "checked", "brokered", "committed", "done"},
                                 paired : BOOLEAN,
                                 tok : {NoToken} \cup Tokens,
                                 win : {0} \cup Windows]]

RevType == rev \in [Revokes -> [pc : {"idle"}] \cup
                               [pc : {"gated", "unpaired", "revoked", "refused"},
                                caller : Devices, target : Devices, leg : Legs]]

RstType == rst \in [Resetters -> [pc : {"idle", "dropped"}]
                                 \cup [pc : {"bound"}, to : Tokens \cup Devices]
                                 \cup [pc : {"read"}, paired : BOOLEAN]]

PutType == put \in [Upserts -> [pc : {"idle", "gated", "done"}]
                               \cup [pc : {"locked"}, tok : {NoToken} \cup Tokens]
                               \cup [pc : {"registered"}, tok : {NoToken} \cup Tokens, guid : Tokens]]

WorldType ==
    /\ mdns \in BOOLEAN
    /\ mu \in BOOLEAN
    /\ minted \in {0} \cup Tokens
    /\ gone \subseteq Tokens
    /\ clock \in Windows
    /\ redeemed \in [Windows -> SUBSET Devices]

TypeOK == DocType /\ PairType /\ RevType /\ RstType /\ PutType /\ WorldType

\* A recovery code admits one phone: of the requests that present the code of
\* one window, however they interleave with each other, with resets, revokes
\* and restarts, at most one is paired by it (pairWithVoucher's recheck).
RecoverySingleUse == \A w \in Windows : \A d, e \in redeemed[w] : d = e

\* The same as a refinement: the relay implements the recovery code's promise,
\* which also says that no window is redeemed after a later one.
Code == INSTANCE RecoveryCode
ImplementsRecoveryCode == Code!Spec

\* Concurrent joins and recoveries never leave more active devices than the
\* relay's cap, although each checks the cap before it waits for the cloud.
CapHeld == Cardinality(Active) <= DeviceCap

SelfRevoke(d) == \E r \in Revokes : /\ rev[r].pc = "gated" /\ rev'[r].pc \in {"revoked", "unpaired"}
                                   /\ rev[r].target = d /\ rev[r].caller = d

\* A household that keeps a device keeps an owner, unless its last owner
\* removes itself: two owners revoking each other at the same time do not
\* leave a relay that only members are paired with.
OwnerKept == [][\A d \in Devices :
                  (LastOwner(d) /\ Paired' /\ ~\E e \in Devices : IsOwner(e)') => SelfRevoke(d)]_vars

\* Requests on the tunnel leg never unpair the relay, however many of them
\* revoke its devices at the same time.
TunnelNeverUnpairs == [][(Paired /\ ~Paired') =>
                           \A r \in Revokes : (rev[r].pc = "gated" /\ rev'[r].pc = "unpaired") =>
                                                 rev[r].leg = "lan"]_vars

\* A household is forgotten only when it was deleted in the cloud, or when a
\* device that is paired with it at that moment asked for it: neither an answer
\* about a former identity nor a reset authorised by a former device reaches
\* the household set up since.
ResetReachesOwnHousehold ==
    [][(Enrolled /\ ~Enrolled') =>
          \/ token \in gone
          \/ "lan" \in Resetters /\ rst["lan"].pc = "bound" /\ rst["lan"].to \in Active]_vars

\* A controller enters the document only under the identity that minted its
\* GUID, however long the probe and the registration took and whatever reset
\* or founding was committed in between (putControllers).
RegisteredUnderOwn == [][\A c \in ctrls' \ ctrls : c = token']_vars

\* What the code says of the household, and concurrent requests break.

\* A relay that is not enrolled is ready for a new setup: it is not paired
\* (state.State.ResetHousehold).
SetupReady == ~Enrolled => ~Paired
=============================================================================
