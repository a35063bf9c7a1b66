---------------------------- MODULE RemoteAccess ----------------------------
(***************************************************************************)
(* Remote access to the controllers: what the document says is served, the *)
(* filter in front of the controllers (ctrlfilter.Server) and the tunnel   *)
(* (FrpTunnel), which handlers bring up to date after each change they     *)
(* persist, and the web sessions, whose key lives in the document and in   *)
(* the filter.                                                             *)
(*                                                                         *)
(* How devices, households and GUIDs come and go is the subject of         *)
(* Household and CloudSync; here each change of the document is one step,  *)
(* without the races those modules show.                                   *)
(***************************************************************************)
EXTENDS FrpTunnel

CONSTANTS
    Mints,       \* requests for a web session; each mints one bootstrap token
    TTL,         \* TokenTTL, in ticks
    MaxDevices,  \* bound: active devices
    MaxSecret,   \* bound: session secrets generated
    MaxChanges,  \* bound: changes of the document
    MaxFaults    \* bound: failures and restarts

ASSUME TTLAssumption == TTL \in Nat \ {0}
ASSUME BoundsAssumption == /\ MaxDevices \in Nat \ {0} /\ MaxSecret \in Nat
                           /\ MaxChanges \in Nat /\ MaxFaults \in Nat

VARIABLES
    token,    \* state.json: Cloud.FrpcToken
    parked,   \* state.json: Cloud.Lifecycle says the tunnel is parked
    active,   \* state.json: how many devices are active
    ctrls,    \* state.json: the registered controllers
    secret,   \* state.json: CtrlSessionSecret
    targets,  \* the filter: the controllers it serves
    key,      \* the filter: the key it verifies with
    burned,   \* the filter: ticks for which each token stays burned
    mu,       \* tunnelMu: the caller that holds it
    call,     \* the callers of reconfigureTunnel
    mint,     \* the web-session requests
    left,     \* ticks until each minted token expires
    used,     \* history: how often this process redeemed each token
    stale,    \* history: the last configuration failed
    secrets, changes, faults

doc    == <<token, parked, active, ctrls, secret>>
filter == <<targets, key, burned>>
tokens == <<mint, left, used>>
vars   == <<cfg, signal, run, svc, applied, token, parked, active, ctrls, secret, targets, key, burned,
            mu, call, mint, left, used, stale, secrets, changes, faults>>

\* "lan" is whoever holds controllerMu; the watcher and a revoke on the tunnel
\* leg hold no such lock.
Callers == {"lan", "watcher", "tunnel"}
NoOne   == "nobody"
Idle    == [pc |-> "idle"]
Keys    == 1..MaxSecret

\* What ReconfigureTunnel makes of a document.
Enrolled == token # NoToken
Served   == IF parked \/ ~Enrolled THEN {} ELSE ctrls

Then(p, to) == call' = [call EXCEPT ![p] = to]
Change == changes < MaxChanges /\ changes' = changes + 1
Fault  == faults < MaxFaults /\ faults' = faults + 1

-----------------------------------------------------------------------------
(* The changes, each of which its caller applies afterwards.               *)

Changes(p) == Change /\ call[p] = Idle /\ Then(p, [pc |-> "due"])

AddController(g) ==
    /\ Changes("lan")
    /\ active > 0 /\ Enrolled
    /\ g \notin ctrls /\ ctrls' = ctrls \cup {g}
    /\ UNCHANGED <<tunnel, token, parked, active, secret, filter, mu, tokens, stale, secrets, faults>>

RemoveController(g) ==
    /\ Changes("lan")
    /\ g \in ctrls /\ ctrls' = ctrls \ {g}
    /\ UNCHANGED <<tunnel, token, parked, active, secret, filter, mu, tokens, stale, secrets, faults>>

RotateController(g, h) ==
    /\ Changes("lan")
    /\ g \in ctrls /\ h \notin ctrls /\ ctrls' = (ctrls \ {g}) \cup {h}
    /\ UNCHANGED <<tunnel, token, parked, active, secret, filter, mu, tokens, stale, secrets, faults>>

\* A revoke drops the secret; the filter's key follows in a step of its own.
\* The last device goes on the LAN only: its revoke forgets the controllers and
\* goes on to reconfigure.
RevokeDevice(p) ==
    /\ p # "watcher"
    /\ Change /\ call[p] = Idle
    /\ active > (IF p = "lan" THEN 0 ELSE 1) /\ active' = active - 1
    /\ secret' = None
    /\ ctrls' = IF active' = 0 THEN {} ELSE ctrls
    /\ Then(p, [pc |-> "revoked", last |-> active' = 0])
    /\ UNCHANGED <<tunnel, token, parked, filter, mu, tokens, stale, secrets, faults>>

ClearKey(p) ==
    /\ call[p].pc = "revoked"
    /\ key' = None
    /\ Then(p, IF call[p].last THEN [pc |-> "due"] ELSE Idle)
    /\ UNCHANGED <<tunnel, doc, targets, burned, mu, tokens, stale, secrets, changes, faults>>

\* The watcher parks and resumes the household.
Park ==
    /\ Changes("watcher")
    /\ Enrolled /\ parked' = ~parked
    /\ UNCHANGED <<tunnel, token, active, ctrls, secret, filter, mu, tokens, stale, secrets, faults>>

\* The watcher drops it, or the LAN resets it.
DropHousehold(p) ==
    /\ p # "tunnel"
    /\ Changes(p)
    /\ Enrolled /\ token' = NoToken
    /\ parked' = FALSE /\ active' = 0 /\ ctrls' = {} /\ secret' = None
    /\ UNCHANGED <<tunnel, filter, mu, tokens, stale, secrets, faults>>

\* A founding takes a new identity and applies nothing: nothing is registered.
\* A device that joins changes nothing else.
Found(t) ==
    /\ active = 0 /\ active' = 1
    /\ t > token /\ token' = t
    /\ parked' = FALSE
    /\ Change
    /\ UNCHANGED <<tunnel, ctrls, secret, filter, mu, call, tokens, stale, secrets, faults>>

Join ==
    /\ active \in 1..(MaxDevices - 1) /\ active' = active + 1
    /\ Change
    /\ UNCHANGED <<tunnel, token, parked, ctrls, secret, filter, mu, call, tokens, stale, secrets, faults>>

-----------------------------------------------------------------------------
(* reconfigureTunnel.                                                      *)

MutNoTunnelMu == TRUE
TunnelMuFree == mu = NoOne

\* tunnelMu, and the snapshot inside it.
Lock(p) ==
    /\ call[p].pc = "due" /\ TunnelMuFree
    /\ mu' = p
    /\ Then(p, [pc |-> "read", cfg |-> [tok |-> token, ctrls |-> Served], key |-> secret])
    /\ UNCHANGED <<tunnel, doc, filter, tokens, stale, secrets, changes, faults>>

SetTargets(p) ==
    /\ call[p].pc = "read"
    /\ targets' = call[p].cfg.ctrls
    /\ Then(p, [call[p] EXCEPT !.pc = "targets"])
    /\ UNCHANGED <<tunnel, doc, key, burned, mu, tokens, stale, secrets, changes, faults>>

SetSessionKey(p) ==
    /\ call[p].pc = "targets"
    /\ key' = call[p].key
    /\ Then(p, [call[p] EXCEPT !.pc = "keyed"])
    /\ UNCHANGED <<tunnel, doc, targets, burned, mu, tokens, stale, secrets, changes, faults>>

\* Configure: the store, then the signal, in this order.
MutSignalBefore == FALSE
SignalLast == TRUE
Configure(p) ==
    /\ call[p].pc = "keyed"
    /\ IF SignalLast THEN cfg' = call[p].cfg /\ signal' = signal ELSE cfg' = cfg /\ signal' = TRUE
    /\ stale' = FALSE
    /\ Then(p, [call[p] EXCEPT !.pc = "stored"])
    /\ UNCHANGED <<run, svc, applied, doc, filter, mu, tokens, secrets, changes, faults>>

Signal(p) ==
    /\ call[p].pc = "stored"
    /\ IF SignalLast THEN signal' = TRUE /\ cfg' = cfg ELSE cfg' = call[p].cfg /\ signal' = signal
    /\ mu' = NoOne
    /\ Then(p, Idle)
    /\ UNCHANGED <<run, svc, applied, doc, filter, tokens, stale, secrets, changes, faults>>

\* The certificate cannot be written, or the configuration is refused: nothing
\* is configured, and nothing tries again.
ReconfigureFails(p) ==
    /\ call[p].pc = "keyed" /\ Fault
    /\ stale' = TRUE
    /\ mu' = NoOne
    /\ Then(p, Idle)
    /\ UNCHANGED <<tunnel, doc, filter, tokens, secrets, changes>>

Reconfigure(p) == Lock(p) \/ SetTargets(p) \/ SetSessionKey(p) \/ Configure(p) \/ Signal(p)

-----------------------------------------------------------------------------
(* Web sessions.                                                           *)

MintGoes(m, to) == mint' = [mint EXCEPT ![m] = to]

\* webSessionHandler: the controller and the secret of a snapshot.
BeginMint(m) ==
    /\ mint[m].pc = "idle"
    /\ \E g \in ctrls :
          MintGoes(m, [pc |-> IF secret = None THEN "ensure" ELSE "install", guid |-> g, key |-> secret])
    /\ UNCHANGED <<tunnel, doc, filter, mu, call, left, used, stale, secrets, changes, faults>>

\* ensureCtrlSessionKey's Update: a secret another mint has stored meanwhile
\* is kept.
MutNoSecretRecheck == TRUE
GeneratesSecret == secret = None
EnsureKey(m) ==
    /\ mint[m].pc = "ensure"
    /\ IF GeneratesSecret
         THEN secrets < MaxSecret /\ secrets' = secrets + 1 /\ secret' = secrets + 1
         ELSE UNCHANGED <<secret, secrets>>
    /\ MintGoes(m, [mint[m] EXCEPT !.pc = "install", !.key = secret'])
    /\ UNCHANGED <<tunnel, token, parked, active, ctrls, filter, mu, call, left, used, stale, changes, faults>>

\* The key goes into the filter and the token to the app.
InstallAndMint(m) ==
    /\ mint[m].pc = "install"
    /\ key' = mint[m].key
    /\ MintGoes(m, [mint[m] EXCEPT !.pc = "minted"])
    /\ left' = [left EXCEPT ![m] = TTL]
    /\ UNCHANGED <<tunnel, doc, targets, burned, mu, call, used, stale, secrets, changes, faults>>

\* serveSession: known controller, good signature, in time, not burned.
MutRetainShort == TTL - 1
Retained == TTL
Redeem(m) ==
    /\ mint[m].pc = "minted" /\ left[m] > 0
    /\ mint[m].guid \in targets
    /\ key # None /\ mint[m].key = key
    /\ burned[m] = 0 /\ burned' = [burned EXCEPT ![m] = Retained]
    /\ used' = [used EXCEPT ![m] = @ + 1]
    /\ UNCHANGED <<tunnel, doc, targets, key, mu, call, mint, left, stale, secrets, changes, faults>>

Less(n) == IF n = 0 THEN 0 ELSE n - 1
Tick ==
    /\ \E m \in Mints : left[m] > 0
    /\ left' = [m \in Mints |-> Less(left[m])]
    /\ burned' = [m \in Mints |-> Less(burned[m])]
    /\ UNCHANGED <<tunnel, doc, targets, key, mu, call, mint, used, stale, secrets, changes, faults>>

Sessions == Tick \/ \E m \in Mints : BeginMint(m) \/ EnsureKey(m) \/ InstallAndMint(m) \/ Redeem(m)

-----------------------------------------------------------------------------
(* The tunnel's own steps, its failures, and restarts.                     *)

TunnelRuns ==
    /\ RunSteps
    /\ UNCHANGED <<doc, filter, mu, call, tokens, stale, secrets, changes, faults>>

TunnelFails ==
    /\ Fault
    /\ \/ BuildFails /\ stale' = TRUE
       \/ ServiceExits /\ stale' = stale
    /\ UNCHANGED <<doc, filter, mu, call, tokens, secrets, changes>>

\* The boot-time resume runs before anything else does, and only for a relay
\* that has a controller; it may fail as a reconfiguration may.
Restart ==
    /\ Fault
    /\ targets' = IF ctrls = {} THEN {} ELSE Served
    /\ key' = IF ctrls = {} THEN None ELSE secret
    /\ \E resumed \in {ctrls # {}, FALSE} :
          /\ cfg' = IF resumed THEN [tok |-> token, ctrls |-> Served] ELSE NoCfg
          /\ signal' = resumed
          /\ stale' = (ctrls # {} /\ ~resumed)
    /\ run' = [pc |-> "read"] /\ svc' = None /\ applied' = NoCfg
    /\ burned' = [m \in Mints |-> 0] /\ used' = [m \in Mints |-> 0]
    /\ mu' = NoOne /\ call' = [p \in Callers |-> Idle]
    /\ mint' = [m \in Mints |-> IF mint[m].pc = "minted" THEN mint[m] ELSE [pc |-> "idle"]]
    /\ UNCHANGED <<doc, left, secrets, changes>>

Init ==
    /\ TunnelInit
    /\ token = NoToken /\ parked = FALSE /\ active = 0 /\ ctrls = {} /\ secret = None
    /\ targets = {} /\ key = None /\ burned = [m \in Mints |-> 0]
    /\ mu = NoOne /\ call = [p \in Callers |-> Idle]
    /\ mint = [m \in Mints |-> [pc |-> "idle"]]
    /\ left = [m \in Mints |-> 0] /\ used = [m \in Mints |-> 0]
    /\ stale = FALSE /\ secrets = 0 /\ changes = 0 /\ faults = 0

Next == \/ \E g \in Guids : AddController(g) \/ RemoveController(g) \/ \E h \in Guids : RotateController(g, h)
        \/ Park \/ Join
        \/ \E t \in Tokens : Found(t)
        \/ \E p \in Callers : \/ RevokeDevice(p) \/ ClearKey(p) \/ DropHousehold(p)
                               \/ Reconfigure(p) \/ ReconfigureFails(p)
        \/ Sessions \/ TunnelRuns \/ TunnelFails \/ Restart

Spec == Init /\ [][Next]_vars

\* Handlers run to their end, and the tunnel's goroutine runs.
FairSpec == Spec /\ WF_vars(TunnelRuns) /\ \A p \in Callers : WF_vars(ClearKey(p) \/ Reconfigure(p))

-----------------------------------------------------------------------------
(* Properties.                                                             *)

CallType == [pc : {"idle", "due"}] \cup [pc : {"revoked"}, last : BOOLEAN]
            \cup [pc : {"read", "targets", "keyed", "stored"}, cfg : Configs, key : {None} \cup Keys]
MintType == [pc : {"idle"}] \cup [pc : {"ensure", "install", "minted"}, guid : Guids, key : {None} \cup Keys]

TypeOK ==
    /\ TunnelType
    /\ token \in {NoToken} \cup Tokens /\ parked \in BOOLEAN /\ active \in 0..MaxDevices
    /\ ctrls \subseteq Guids /\ targets \subseteq Guids
    /\ {secret, key} \subseteq {None} \cup Keys
    /\ burned \in [Mints -> 0..TTL] /\ left \in [Mints -> 0..TTL] /\ used \in [Mints -> Nat]
    /\ mu \in Callers \cup {NoOne} /\ call \in [Callers -> CallType] /\ mint \in [Mints -> MintType]
    /\ stale \in BOOLEAN /\ secrets \in 0..MaxSecret /\ changes \in 0..MaxChanges /\ faults \in 0..MaxFaults

\* Once nobody has a change left to apply, filter and tunnel are configured for
\* the document as it is: a LAN request's older snapshot never lands after the
\* watcher's park or resume, nor the other way round (tunnelMu).
Quiet == \A p \in Callers : call[p] = Idle
TunnelCurrent ==
    Quiet => /\ targets = Served
             /\ ~stale => cfg.ctrls = Served /\ (Served # {} => cfg.tok = token)

\* A service runs under the identity of the configuration it serves, although a
\* drop and the next household may reach Run as one change (needsRestart).
TransportOwn == svc # None => svc = applied.tok

\* The last change reaches the service: signals collapse, Run may be anywhere,
\* and no configuration is left lying (Configure, Run).
Serving == IF Served = {} THEN svc = None
                          ELSE svc = token /\ applied = [tok |-> token, ctrls |-> Served]
Settles == <>[](stale \/ Serving)

\* Two mints at once share one secret: neither session is silently invalidated
\* by the other (ensureCtrlSessionKey).
OneSecret == [][secret # None /\ secret' # None => secret' = secret]_vars

\* A bootstrap token is redeemed once per process: it is burned for as long as
\* it would verify (burnList).
RedeemedOnce == \A m \in Mints : used[m] <= 1
=============================================================================
