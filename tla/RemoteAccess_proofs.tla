------------------------ MODULE RemoteAccess_proofs -------------------------
(***************************************************************************)
(* Proofs about RemoteAccess, for every set of controllers and of web      *)
(* session requests, every lifetime of a token and every bound: what the   *)
(* filter and the tunnel are configured for once the handlers are quiet,   *)
(* under which identity a service runs, and how often a token is redeemed. *)
(***************************************************************************)
EXTENDS RemoteAccess, TLAPS

Inside(p) == call[p].pc \in {"read", "targets", "keyed", "stored"}

\* tunnelMu: one reconfiguration at a time.
Exclusive == \A p \in Callers : Inside(p) => mu = p

\* Nothing is registered with a relay that has no device: a founding, which
\* applies nothing, changes nothing of what is served.
Emptied == active = 0 => ctrls = {}

\* Whatever is served is served under an identity.
Backed(c) == c.ctrls # {} => c.tok # NoToken
AllBacked == /\ Backed(cfg) /\ (run.pc = "build" => Backed(run.cfg))
             /\ \A p \in Callers : Inside(p) => Backed(call[p].cfg)

\* A configuration fits the document if it serves the same controllers, and
\* under the same identity if there are any.
Fits(c) == c.ctrls = Served /\ (Served # {} => c.tok = token)

\* Somebody has yet to take a snapshot.
Due(p) == call[p].pc = "due" \/ (call[p].pc = "revoked" /\ call[p].last)
SomeDue == \E p \in Callers : Due(p)

\* Unless somebody has, whoever is inside holds a snapshot that fits, and what
\* is behind him or, with nobody inside, everything fits.
InStep ==
    SomeDue \/ /\ \A p \in Callers : Inside(p) =>
                     /\ Fits(call[p].cfg)
                     /\ call[p].pc \in {"targets", "keyed", "stored"} => targets = Served
                     /\ call[p].pc = "stored" => (~stale => Fits(cfg))
               /\ (\A p \in Callers : ~Inside(p)) => targets = Served /\ (~stale => Fits(cfg))

\* A token that has been redeemed is burned for as long as it would verify.
Spent ==
    \A m \in Mints : /\ mint[m].pc # "minted" => used[m] = 0
                     /\ used[m] = 0 \/ (used[m] = 1 /\ burned[m] >= left[m])

IInv == TypeOK /\ Exclusive /\ Emptied /\ AllBacked /\ InStep /\ TransportOwn /\ Spent

-----------------------------------------------------------------------------

\* Where a call is tells what it holds.
LEMMA CallTypes ==
  ASSUME NEW a \in CallType
  PROVE  /\ a.pc = "revoked" => a \in [pc : {"revoked"}, last : BOOLEAN]
         /\ a.pc \in {"read", "targets", "keyed", "stored"} =>
              a \in [pc : {"read", "targets", "keyed", "stored"}, cfg : Configs, key : {None} \cup Keys]
BY DEF CallType

\* A mint under way names a controller and a secret.
LEMMA MintTypes ==
  ASSUME NEW a \in MintType, a.pc # "idle"
  PROVE  a \in [pc : {"ensure", "install", "minted"}, guid : Guids, key : {None} \cup Keys]
BY DEF MintType

\* A service is built from a configuration.
LEMMA RunTypes ==
  ASSUME TunnelType, run.pc = "build"
  PROVE  run \in [pc : {"build"}, cfg : Configs]
BY DEF TunnelType

\* The invariant holds at the start.
LEMMA InitInv == Init => IInv
<1> SUFFICES ASSUME Init PROVE IInv  OBVIOUS
<1>1. call \in [Callers -> CallType] /\ mint \in [Mints -> MintType] /\ \A p \in Callers : ~Inside(p)
  BY DEF Init, Idle, CallType, MintType, Inside
<1>2. TunnelType /\ TransportOwn
  BY DEF Init, TunnelInit, TunnelType, TransportOwn, Configs, NoCfg, NoToken, None
<1>3. TypeOK
  <2>1. /\ token \in {NoToken} \cup Tokens /\ parked \in BOOLEAN /\ active \in 0..MaxDevices
        /\ ctrls \subseteq Guids /\ targets \subseteq Guids /\ {secret, key} \subseteq {None} \cup Keys
    <3>1. token = NoToken /\ parked = FALSE /\ active = 0 /\ ctrls = {} /\ targets = {} /\ secret = None /\ key = None
      BY DEF Init
    <3>2. 0 \in 0..MaxDevices  BY BoundsAssumption
    <3> QED  BY <3>1, <3>2
  <2>2. burned \in [Mints -> 0..TTL] /\ left \in [Mints -> 0..TTL] /\ used \in [Mints -> Nat]
    BY TTLAssumption DEF Init
  <2>3. /\ mu \in Callers \cup {NoOne} /\ stale \in BOOLEAN
        /\ secrets \in 0..MaxSecret /\ changes \in 0..MaxChanges /\ faults \in 0..MaxFaults
    <3>1. mu = NoOne /\ stale = FALSE /\ secrets = 0 /\ changes = 0 /\ faults = 0  BY DEF Init
    <3>2. 0 \in 0..MaxSecret /\ 0 \in 0..MaxChanges /\ 0 \in 0..MaxFaults  BY BoundsAssumption
    <3> QED  BY <3>1, <3>2
  <2> QED  BY <1>1, <1>2, <2>1, <2>2, <2>3 DEF TypeOK
<1>4. Exclusive /\ Emptied /\ AllBacked
  BY <1>1 DEF Init, TunnelInit, Exclusive, Emptied, AllBacked, Backed, NoCfg
<1>5. InStep /\ Spent
  BY <1>1 DEF Init, TunnelInit, InStep, Fits, Served, Enrolled, NoCfg, NoToken, Spent
<1> QED  BY <1>2, <1>3, <1>4, <1>5 DEF IInv

-----------------------------------------------------------------------------
(* The changes of the document.                                            *)

\* What a change that its caller applies afterwards must keep to.
LEMMA ChangesKeepInv ==
  ASSUME IInv, NEW p \in Callers, NEW to \in CallType,
         call[p] = Idle, call' = [call EXCEPT ![p] = to],
         to.pc = "due" \/ (to.pc = "revoked" /\ (to.last \/ UNCHANGED <<token, parked, ctrls>>)),
         changes' \in 0..MaxChanges,
         UNCHANGED <<cfg, signal, run, svc, applied, targets, key, burned, mu, mint, left, used, stale, secrets, faults>>,
         token' \in {NoToken} \cup Tokens, parked' \in BOOLEAN, active' \in 0..MaxDevices,
         ctrls' \subseteq Guids, secret' \in {None} \cup Keys, Emptied'
  PROVE  IInv'
<1>1. call' \in [Callers -> CallType] /\ call'[p] = to /\ \A q \in Callers : q # p => call'[q] = call[q]
  BY DEF IInv, TypeOK
<1>2. ~Inside(p) /\ ~Inside(p)' /\ \A q \in Callers : q # p => (Inside(q)' <=> Inside(q))
  BY <1>1 DEF Inside, Idle
<1>3. TypeOK'  BY <1>1 DEF IInv, TypeOK, TunnelType
<1>4. Exclusive' /\ AllBacked' /\ TransportOwn' /\ Spent'
  BY <1>1, <1>2 DEF IInv, Exclusive, AllBacked, Backed, TransportOwn, Spent
<1>5. InStep'
  <2>1. CASE to.pc = "due" \/ to.last  BY <1>1, <2>1 DEF InStep, SomeDue, Due
  <2>2. CASE UNCHANGED <<token, parked, ctrls>>
    <3>1. SomeDue => SomeDue'  BY <1>1 DEF SomeDue, Due, Idle
    <3>2. Served' = Served /\ \A c : Fits(c)' <=> Fits(c)  BY <2>2 DEF Served, Enrolled, Fits
    <3> QED  BY <1>1, <1>2, <3>1, <3>2 DEF IInv, InStep
  <2> QED  BY <2>1, <2>2
<1> QED  BY <1>3, <1>4, <1>5 DEF IInv

\* Changes of the document: each leaves somebody who has yet to take a snapshot.
LEMMA DocumentKeepsInv ==
  ASSUME IInv, \/ \E g \in Guids : AddController(g) \/ RemoveController(g) \/ \E h \in Guids : RotateController(g, h)
               \/ Park \/ \E p \in Callers : RevokeDevice(p) \/ DropHousehold(p)
  PROVE  IInv'
<1> USE DEF tunnel, doc, filter, tokens
<1>0. /\ \A t \in BOOLEAN : [pc |-> "revoked", last |-> t] \in CallType
      /\ [pc |-> "due"] \in CallType /\ [pc |-> "due"].pc = "due" /\ "lan" \in Callers /\ "watcher" \in Callers
  BY DEF CallType, Callers
<1>t. /\ token \in {NoToken} \cup Tokens /\ parked \in BOOLEAN /\ active \in 0..MaxDevices /\ ctrls \subseteq Guids
      /\ secret \in {None} \cup Keys /\ changes \in 0..MaxChanges /\ Emptied
      /\ MaxChanges \in Nat /\ MaxDevices \in Nat
  BY BoundsAssumption DEF IInv, TypeOK
<1>c. Change => changes' \in 0..MaxChanges  BY <1>t DEF Change
<1>1. ASSUME NEW p \in Callers, Changes(p), Emptied',
             UNCHANGED <<cfg, signal, run, svc, applied, targets, key, burned, mu, mint, left, used, stale, secrets, faults>>,
             token' \in {NoToken} \cup Tokens, parked' \in BOOLEAN, active' \in 0..MaxDevices,
             ctrls' \subseteq Guids, secret' \in {None} \cup Keys
      PROVE  IInv'
  BY <1>0, <1>c, <1>1, ChangesKeepInv DEF Changes, Then
<1>2. ASSUME NEW g \in Guids, AddController(g) PROVE IInv'
  BY <1>0, <1>t, <1>1, <1>2 DEF AddController, Emptied
<1>3. ASSUME NEW g \in Guids, RemoveController(g) PROVE IInv'
  BY <1>0, <1>t, <1>1, <1>3 DEF RemoveController, Emptied
<1>4. ASSUME NEW g \in Guids, NEW h \in Guids, RotateController(g, h) PROVE IInv'
  BY <1>0, <1>t, <1>1, <1>4 DEF RotateController, Emptied
<1>5. CASE Park  BY <1>0, <1>t, <1>1, <1>5 DEF Park, Emptied
<1>6. ASSUME NEW p \in Callers, DropHousehold(p) PROVE IInv'
  <2>1. /\ token' = NoToken /\ parked' = FALSE /\ active' = 0 /\ ctrls' = {} /\ secret' = None /\ Changes(p)
        /\ UNCHANGED <<cfg, signal, run, svc, applied, targets, key, burned, mu, mint, left, used, stale, secrets, faults>>
    BY <1>6 DEF DropHousehold
  <2>2. Emptied' /\ active' \in 0..MaxDevices  BY <1>t, <2>1 DEF Emptied
  <2> QED  BY <1>1, <2>1, <2>2
<1>7. ASSUME NEW p \in Callers, RevokeDevice(p) PROVE IInv'
  <2> DEFINE to == [pc |-> "revoked", last |-> active' = 0]
  <2>1. to \in CallType /\ to.pc = "revoked" /\ to.last = (active' = 0)  BY <1>0
  <2>2. active' \in 0..MaxDevices /\ ctrls' \subseteq Guids /\ Emptied' /\ secret' \in {None} \cup Keys
    BY <1>t, <1>7 DEF RevokeDevice, Emptied
  <2>3. to.last \/ UNCHANGED <<token, parked, ctrls>>  BY <1>7, <2>1 DEF RevokeDevice
  <2>4. /\ call[p] = Idle /\ call' = [call EXCEPT ![p] = to] /\ changes' \in 0..MaxChanges
        /\ UNCHANGED <<cfg, signal, run, svc, applied, targets, key, burned, mu, mint, left, used, stale, secrets, faults>>
        /\ UNCHANGED <<token, parked>>
    BY <1>7, <1>c DEF RevokeDevice, Then
  <2> HIDE DEF to
  <2> QED  BY <1>t, <2>1, <2>2, <2>3, <2>4, ChangesKeepInv
<1> QED  BY <1>2, <1>3, <1>4, <1>5, <1>6, <1>7
-----------------------------------------------------------------------------
(* reconfigureTunnel, and the steps that apply nothing.                    *)

LEMMA ReconfiguringKeepsInv ==
  ASSUME IInv, NEW p \in Callers, ClearKey(p) \/ Reconfigure(p) \/ ReconfigureFails(p)
  PROVE  IInv'
<1> USE DEF tunnel, doc, filter, tokens
<1>0. /\ call \in [Callers -> CallType] /\ call[p] \in CallType /\ NoOne \notin Callers
      /\ Idle \in CallType /\ [pc |-> "due"] \in CallType /\ TunnelType
  BY DEF IInv, TypeOK, CallType, Idle, Callers, NoOne
<1>1. ASSUME NEW to \in CallType, call' = [call EXCEPT ![p] = to]
      PROVE  /\ call' \in [Callers -> CallType] /\ call'[p] = to
             /\ \A q \in Callers : q # p => call'[q] = call[q] /\ (Inside(q)' <=> Inside(q)) /\ (Due(q)' <=> Due(q))
  BY <1>0, <1>1 DEF Inside, Due
<1>2. \A c : Fits(c) => Backed(c)  BY DEF Fits, Backed, Served, Enrolled
\* Whoever is inside is alone there.
<1>3. Inside(p) => mu = p /\ \A q \in Callers : q # p => ~Inside(q)
  BY DEF IInv, Exclusive
<1>4. CASE ClearKey(p)
  <2> DEFINE to == IF call[p].last THEN [pc |-> "due"] ELSE Idle
  <2>1. /\ call[p].pc = "revoked" /\ key' = None /\ call' = [call EXCEPT ![p] = to]
        /\ UNCHANGED <<cfg, signal, run, svc, applied, token, parked, active, ctrls, secret, targets, burned,
                       mu, mint, left, used, stale, secrets, changes, faults>>
    BY <1>4 DEF ClearKey, Then
  <2>2. /\ to \in CallType /\ to.pc \in {"due", "idle"} /\ (call[p].last => to.pc = "due")
    BY <1>0 DEF Idle
  <2> HIDE DEF to
  <2>3. ~Inside(p) /\ ~Inside(p)'  BY <1>1, <2>1, <2>2 DEF Inside
  <2>4. TypeOK'  BY <1>1, <2>1, <2>2 DEF IInv, TypeOK, TunnelType
  <2>5. Exclusive' /\ Emptied' /\ AllBacked' /\ TransportOwn' /\ Spent'
    BY <1>1, <2>1, <2>2, <2>3 DEF IInv, Exclusive, Emptied, AllBacked, Backed, TransportOwn, Spent
  <2>6. SomeDue => SomeDue'  BY <1>1, <2>1, <2>2 DEF SomeDue, Due
  <2>7. Served' = Served /\ \A c : Fits(c)' <=> Fits(c)  BY <2>1 DEF Served, Enrolled, Fits
  <2>8. InStep'  BY <1>1, <2>1, <2>2, <2>3, <2>6, <2>7 DEF IInv, InStep
  <2> QED  BY <2>4, <2>5, <2>8 DEF IInv
<1>5. CASE Lock(p)
  <2> DEFINE c == [tok |-> token, ctrls |-> Served]
             to == [pc |-> "read", cfg |-> c, key |-> secret]
  <2>1. /\ call[p].pc = "due" /\ mu = NoOne /\ mu' = p /\ call' = [call EXCEPT ![p] = to]
        /\ UNCHANGED <<cfg, signal, run, svc, applied, token, parked, active, ctrls, secret, targets, key, burned,
                       mint, left, used, stale, secrets, changes, faults>>
    BY <1>5 DEF Lock, Then, TunnelMuFree
  <2>2. Served' = Served /\ (\A d : Fits(d)' <=> Fits(d)) /\ Fits(c)  BY <2>1 DEF Served, Enrolled, Fits
  <2>3. c \in Configs  BY DEF IInv, TypeOK, Configs, Served
  <2> HIDE DEF c
  <2>4. to \in CallType /\ to.pc = "read" /\ to.cfg = c  BY <2>3 DEF IInv, TypeOK, CallType
  <2> HIDE DEF to
  <2>5. (\A q \in Callers : ~Inside(q)) /\ ~Due(p)'
    BY <1>0, <1>1, <2>1, <2>4 DEF IInv, Exclusive, Due
  <2>6. TypeOK'  BY <1>1, <2>1, <2>4 DEF IInv, TypeOK, TunnelType
  <2>7. Exclusive'
    <3>1. \A q \in Callers : Inside(q)' => q = p  BY <1>1, <2>1, <2>4, <2>5
    <3> QED  BY <2>1, <3>1 DEF Exclusive
  <2>8. AllBacked'  BY <1>1, <1>2, <2>1, <2>2, <2>4, <2>5 DEF IInv, AllBacked, Backed
  <2>9. Emptied' /\ TransportOwn' /\ Spent'  BY <2>1 DEF IInv, Emptied, TransportOwn, Spent
  <2>10. InStep'  BY <1>1, <2>1, <2>2, <2>4, <2>5 DEF InStep, Inside
  <2> QED  BY <2>6, <2>7, <2>8, <2>9, <2>10 DEF IInv
\* From here on p is inside and stays there, or leaves.
<1>6. ASSUME Inside(p), NEW to \in CallType, to.pc \in {"targets", "keyed", "stored", "idle"},
             call' = [call EXCEPT ![p] = to], mu' = IF to.pc = "idle" THEN NoOne ELSE mu,
             to.pc # "idle" => to.cfg = call[p].cfg,
             UNCHANGED <<run, svc, applied, token, parked, active, ctrls, secret, burned,
                         mint, left, used, secrets, changes>>,
             cfg' \in Configs, signal' \in BOOLEAN, targets' \subseteq Guids, key' \in {None} \cup Keys,
             stale' \in BOOLEAN, faults' \in 0..MaxFaults, Backed(cfg)',
             ~SomeDue =>
                 /\ targets' = Served
                 /\ to.pc \in {"stored", "idle"} => (stale' \/ Fits(cfg'))
      PROVE  IInv'
  <2>1. TypeOK'  BY <1>0, <1>1, <1>6 DEF IInv, TypeOK, TunnelType
  <2>2. Exclusive'  BY <1>1, <1>3, <1>6 DEF Exclusive, Inside
  <2>3. AllBacked'  BY <1>1, <1>6 DEF IInv, AllBacked, Backed, Inside
  <2>4. Emptied' /\ TransportOwn' /\ Spent'  BY <1>6 DEF IInv, Emptied, TransportOwn, Spent
  <2>5. Served' = Served /\ (\A c : Fits(c)' <=> Fits(c))  BY <1>6 DEF Served, Enrolled, Fits
  <2>6. SomeDue => SomeDue'  BY <1>1, <1>6 DEF SomeDue, Due, Inside
  <2>7. ASSUME ~SomeDue PROVE InStep'
    <3>1. Fits(call[p].cfg)  BY <1>6, <2>7 DEF IInv, InStep
    <3>2. \A q \in Callers : Inside(q)' => q = p /\ to.pc # "idle"  BY <1>1, <1>3, <1>6 DEF Inside
    <3>3. Fits(cfg)' <=> Fits(cfg')  BY <2>5 DEF Fits, Served, Enrolled
    <3>4. (\A q \in Callers : ~Inside(q)') => to.pc = "idle"  BY <1>1, <1>6 DEF Inside
    <3>5. targets' = Served' /\ (to.pc \in {"stored", "idle"} => (~stale' => Fits(cfg)'))
      BY <1>6, <2>5, <2>7, <3>3
    <3>6. \A q \in Callers : Inside(q)' =>
              call'[q] = to /\ Fits(call[q].cfg)' /\ (call'[q].pc = "stored" => (~stale' => Fits(cfg)'))
      <4>1. Inside(p)' => Fits(call[p].cfg)' /\ call'[p] = to
        <5>1. to.pc # "idle" => to.cfg = call[p].cfg  BY <1>6
        <5>2. Fits(call[p].cfg)' <=> Fits(to.cfg)  BY <1>1, <1>6, <2>5 DEF Fits
        <5> QED  BY <1>1, <1>6, <3>1, <3>2, <5>1, <5>2
      <4> QED  BY <3>2, <3>5, <4>1
    <3> QED  BY <3>4, <3>5, <3>6 DEF InStep
  <2>8. InStep'  BY <2>6, <2>7 DEF InStep
  <2> QED  BY <2>1, <2>2, <2>3, <2>4, <2>8 DEF IInv
<1>7. ASSUME Inside(p) PROVE
        /\ call[p] \in [pc : {"read", "targets", "keyed", "stored"}, cfg : Configs, key : {None} \cup Keys]
        /\ call[p].cfg \in Configs /\ call[p].cfg.ctrls \subseteq Guids /\ call[p].key \in {None} \cup Keys
        /\ Backed(call[p].cfg) /\ Backed(cfg) /\ (~SomeDue => Fits(call[p].cfg))
        /\ cfg \in Configs /\ signal \in BOOLEAN /\ targets \subseteq Guids /\ key \in {None} \cup Keys
        /\ stale \in BOOLEAN /\ faults \in 0..MaxFaults
  <2>1. call[p] \in [pc : {"read", "targets", "keyed", "stored"}, cfg : Configs, key : {None} \cup Keys]
    BY <1>0, <1>7, CallTypes DEF Inside
  <2>2. Backed(call[p].cfg) /\ Backed(cfg) /\ (~SomeDue => Fits(call[p].cfg))
    BY <1>7 DEF IInv, AllBacked, InStep
  <2> QED  BY <2>1, <2>2 DEF IInv, TypeOK, TunnelType, Configs
<1>8. ASSUME Inside(p), NEW pc \in {"targets", "keyed", "stored"}
      PROVE  /\ [call[p] EXCEPT !.pc = pc] \in CallType /\ [call[p] EXCEPT !.pc = pc].pc = pc
             /\ [call[p] EXCEPT !.pc = pc].cfg = call[p].cfg
  BY <1>7, <1>8 DEF CallType
<1>9. CASE SetTargets(p)
  <2>1. Inside(p)  BY <1>9 DEF SetTargets, Inside
  <2> DEFINE to == [call[p] EXCEPT !.pc = "targets"]
  <2>2. to \in CallType /\ to.pc = "targets" /\ to.cfg = call[p].cfg  BY <1>8, <2>1
  <2>3. call' = [call EXCEPT ![p] = to] /\ targets' = call[p].cfg.ctrls
    BY <1>9 DEF SetTargets, Then
  <2> HIDE DEF to
  <2>4. Backed(cfg)' /\ (~SomeDue => targets' = Served)
    BY <1>7, <1>9, <2>1, <2>3 DEF SetTargets, Fits, Backed
  <2> QED  BY <1>6, <1>7, <1>9, <2>1, <2>2, <2>3, <2>4 DEF SetTargets
<1>10. CASE SetSessionKey(p)
  <2>1. Inside(p) /\ call[p].pc = "targets"  BY <1>10 DEF SetSessionKey, Inside
  <2> DEFINE to == [call[p] EXCEPT !.pc = "keyed"]
  <2>2. to \in CallType /\ to.pc = "keyed" /\ to.cfg = call[p].cfg  BY <1>8, <2>1
  <2>3. call' = [call EXCEPT ![p] = to] /\ key' = call[p].key
    BY <1>10 DEF SetSessionKey, Then
  <2> HIDE DEF to
  <2>4. Backed(cfg)' /\ (~SomeDue => targets' = Served)
    BY <1>7, <1>10, <2>1 DEF SetSessionKey, Backed, IInv, InStep
  <2> QED  BY <1>6, <1>7, <1>10, <2>1, <2>2, <2>3, <2>4 DEF SetSessionKey
<1>11. CASE Configure(p)
  <2>1. Inside(p) /\ call[p].pc = "keyed"  BY <1>11 DEF Configure, Inside
  <2> DEFINE to == [call[p] EXCEPT !.pc = "stored"]
  <2>2. to \in CallType /\ to.pc = "stored" /\ to.cfg = call[p].cfg  BY <1>8, <2>1
  <2>3. call' = [call EXCEPT ![p] = to] /\ cfg' = call[p].cfg /\ stale' = FALSE /\ UNCHANGED signal
    BY <1>11 DEF Configure, Then, SignalLast
  <2> HIDE DEF to
  <2>4. Backed(cfg)' /\ (~SomeDue => targets' = Served /\ Fits(cfg'))
    BY <1>7, <1>11, <2>1, <2>3 DEF Configure, Backed, IInv, InStep
  <2> QED  BY <1>6, <1>7, <1>11, <2>1, <2>2, <2>3, <2>4 DEF Configure
<1>12. CASE Signal(p)
  <2>1. Inside(p) /\ call[p].pc = "stored"  BY <1>12 DEF Signal, Inside
  <2>2. Idle.pc = "idle" /\ Idle \in CallType  BY <1>0 DEF Idle
  <2>3. call' = [call EXCEPT ![p] = Idle] /\ cfg' = cfg /\ signal' = TRUE /\ mu' = NoOne
    BY <1>12 DEF Signal, Then, SignalLast
  <2>4. Backed(cfg)' /\ (~SomeDue => targets' = Served /\ (stale' \/ Fits(cfg')))
    BY <1>7, <1>12, <2>1, <2>3 DEF Signal, Backed, IInv, InStep
  <2> QED  BY <1>6, <1>7, <1>12, <2>1, <2>2, <2>3, <2>4 DEF Signal
<1>13. CASE ReconfigureFails(p)
  <2>1. Inside(p) /\ call[p].pc = "keyed"  BY <1>13 DEF ReconfigureFails, Inside
  <2>2. Idle.pc = "idle" /\ Idle \in CallType  BY <1>0 DEF Idle
  <2>3. call' = [call EXCEPT ![p] = Idle] /\ stale' = TRUE /\ mu' = NoOne /\ faults' \in 0..MaxFaults
    BY <1>7, <1>13, <2>1, BoundsAssumption DEF ReconfigureFails, Then, Fault
  <2>4. Backed(cfg)' /\ (~SomeDue => targets' = Served)
    BY <1>7, <1>13, <2>1 DEF ReconfigureFails, Backed, IInv, InStep
  <2> QED  BY <1>6, <1>7, <1>13, <2>1, <2>2, <2>3, <2>4 DEF ReconfigureFails
<1> QED  BY <1>4, <1>5, <1>9, <1>10, <1>11, <1>12, <1>13 DEF Reconfigure

-----------------------------------------------------------------------------
(* Web sessions, the tunnel's own steps, foundings and restarts.           *)

\* Steps that change nothing of what is served, nor of who applies what.
LEMMA ElsewhereKeepsInv ==
  ASSUME IInv, UNCHANGED <<token, parked, ctrls, targets, mu, call>>,
         TypeOK', Emptied', AllBacked', TransportOwn', Spent', cfg' = cfg, stale => stale'
  PROVE  IInv'
<1>1. Exclusive'  BY DEF IInv, Exclusive, Inside
<1>2. Served' = Served /\ (\A c : Fits(c)' <=> Fits(c)) /\ (SomeDue' <=> SomeDue)
  BY DEF Served, Enrolled, Fits, SomeDue, Due
<1>3. InStep'  BY <1>2 DEF IInv, InStep, Inside
<1> QED  BY <1>1, <1>3 DEF IInv

\* Mints and redemptions.
LEMMA SessionsKeepInv == IInv /\ Sessions => IInv'
<1> SUFFICES ASSUME IInv, Sessions PROVE IInv'  OBVIOUS
<1> USE DEF tunnel, doc, filter, tokens
<1>1. ASSUME UNCHANGED <<cfg, signal, run, svc, applied, token, parked, active, ctrls, targets, mu, call, stale, changes, faults>>,
             secret' \in {None} \cup Keys, key' \in {None} \cup Keys, secrets' \in 0..MaxSecret,
             burned' \in [Mints -> 0..TTL], left' \in [Mints -> 0..TTL], used' \in [Mints -> Nat],
             mint' \in [Mints -> MintType], Spent'
      PROVE  IInv'
  <2>1. TypeOK'  BY <1>1 DEF IInv, TypeOK, TunnelType
  <2>2. Emptied' /\ AllBacked' /\ TransportOwn'
    BY <1>1 DEF IInv, Emptied, AllBacked, Backed, Inside, TransportOwn
  <2> QED  BY <1>1, <2>1, <2>2, ElsewhereKeepsInv
<1>t. /\ burned \in [Mints -> 0..TTL] /\ left \in [Mints -> 0..TTL] /\ used \in [Mints -> Nat]
      /\ mint \in [Mints -> MintType] /\ secret \in {None} \cup Keys /\ key \in {None} \cup Keys
      /\ secrets \in 0..MaxSecret /\ MaxSecret \in Nat /\ TTL \in Nat /\ ctrls \subseteq Guids /\ Spent
  BY BoundsAssumption, TTLAssumption DEF IInv, TypeOK
<1>2. CASE Tick
  <2>1. \A n \in 0..TTL : Less(n) \in 0..TTL  BY <1>t DEF Less
  <2>2. \A m \in Mints : left'[m] = Less(left[m]) /\ burned'[m] = Less(burned[m])  BY <1>2 DEF Tick
  <2>3. left' \in [Mints -> 0..TTL] /\ burned' \in [Mints -> 0..TTL]  BY <1>2, <1>t, <2>1 DEF Tick
  <2>4. Spent'
    <3> SUFFICES ASSUME NEW m \in Mints, used[m] = 1, burned[m] >= left[m] PROVE burned'[m] >= left'[m]
      BY <1>2, <1>t DEF Tick, Spent
    <3> QED  BY <1>t, <2>2 DEF Less
  <2> QED  BY <1>1, <1>2, <1>t, <2>3, <2>4 DEF Tick
<1>3. ASSUME NEW m \in Mints, BeginMint(m) PROVE IInv'
  <2>1. PICK g \in ctrls : MintGoes(m, [pc |-> IF secret = None THEN "ensure" ELSE "install", guid |-> g, key |-> secret])
    BY <1>3 DEF BeginMint
  <2> DEFINE to == [pc |-> IF secret = None THEN "ensure" ELSE "install", guid |-> g, key |-> secret]
  <2>2. to \in MintType /\ to.pc # "minted"  BY <1>t DEF MintType
  <2>3. mint' = [mint EXCEPT ![m] = to]  BY <2>1 DEF MintGoes
  <2> HIDE DEF to
  <2>4. mint' \in [Mints -> MintType]  BY <1>t, <2>2, <2>3
  <2>5. Spent'  BY <1>3, <1>t, <2>2, <2>3 DEF BeginMint, Spent
  <2> QED  BY <1>1, <1>3, <1>t, <2>4, <2>5 DEF BeginMint
<1>4. ASSUME NEW m \in Mints, EnsureKey(m) PROVE IInv'
  <2> DEFINE to == [mint[m] EXCEPT !.pc = "install", !.key = secret']
  <2>1. secret' \in {None} \cup Keys /\ secrets' \in 0..MaxSecret
    BY <1>4, <1>t DEF EnsureKey, Keys
  <2>2. mint[m] \in [pc : {"ensure", "install", "minted"}, guid : Guids, key : {None} \cup Keys] /\ mint[m].pc = "ensure"
    BY <1>4, <1>t, MintTypes DEF EnsureKey
  <2>3. to \in MintType /\ to.pc = "install"  BY <2>1, <2>2 DEF MintType
  <2>4. mint' = [mint EXCEPT ![m] = to]  BY <1>4 DEF EnsureKey, MintGoes
  <2> HIDE DEF to
  <2>5. mint' \in [Mints -> MintType]  BY <1>t, <2>3, <2>4
  <2>6. Spent'  BY <1>4, <1>t, <2>2, <2>3, <2>4 DEF EnsureKey, Spent
  <2> QED  BY <1>1, <1>4, <1>t, <2>1, <2>5, <2>6 DEF EnsureKey
<1>5. ASSUME NEW m \in Mints, InstallAndMint(m) PROVE IInv'
  <2> DEFINE to == [mint[m] EXCEPT !.pc = "minted"]
  <2>1. mint[m] \in [pc : {"ensure", "install", "minted"}, guid : Guids, key : {None} \cup Keys] /\ mint[m].pc = "install"
    BY <1>5, <1>t, MintTypes DEF InstallAndMint
  <2>2. to \in MintType  BY <2>1 DEF MintType
  <2>3. mint' = [mint EXCEPT ![m] = to] /\ left' = [left EXCEPT ![m] = TTL] /\ key' = mint[m].key
    BY <1>5 DEF InstallAndMint, MintGoes
  <2> HIDE DEF to
  <2>4. mint' \in [Mints -> MintType] /\ left' \in [Mints -> 0..TTL]  BY <1>t, <2>2, <2>3
  <2>5. Spent'  BY <1>5, <1>t, <2>1, <2>3 DEF InstallAndMint, Spent
  <2> QED  BY <1>1, <1>5, <1>t, <2>1, <2>3, <2>4, <2>5 DEF InstallAndMint
<1>6. ASSUME NEW m \in Mints, Redeem(m) PROVE IInv'
  <2>1. /\ mint[m].pc = "minted" /\ left[m] > 0 /\ burned[m] = 0
        /\ burned' = [burned EXCEPT ![m] = TTL] /\ used' = [used EXCEPT ![m] = @ + 1]
    BY <1>6 DEF Redeem, Retained
  <2>2. used[m] = 0  BY <1>t, <2>1 DEF Spent
  <2>3. burned' \in [Mints -> 0..TTL] /\ used' \in [Mints -> Nat]  BY <1>t, <2>1
  <2>4. Spent'  BY <1>6, <1>t, <2>1, <2>2 DEF Redeem, Spent
  <2> QED  BY <1>1, <1>6, <1>t, <2>3, <2>4 DEF Redeem
<1> QED  BY <1>2, <1>3, <1>4, <1>5, <1>6 DEF Sessions

\* The steps of Run, its failures included.
LEMMA TunnelKeepsInv == IInv /\ (TunnelRuns \/ TunnelFails) => IInv'
<1> SUFFICES ASSUME IInv, TunnelRuns \/ TunnelFails PROVE IInv'  OBVIOUS
<1> USE DEF tunnel, doc, filter, tokens
<1>1. /\ UNCHANGED <<token, parked, active, ctrls, secret, targets, key, burned, mu, call, mint, left, used, secrets, changes>>
      /\ stale' \in BOOLEAN /\ (stale => stale') /\ faults' \in 0..MaxFaults
  <2>1. stale \in BOOLEAN /\ faults \in 0..MaxFaults /\ MaxFaults \in Nat  BY BoundsAssumption DEF IInv, TypeOK
  <2>2. CASE TunnelRuns  BY <2>1, <2>2 DEF TunnelRuns
  <2>3. CASE TunnelFails
    <3>1. stale' = TRUE \/ stale' = stale  BY <2>3 DEF TunnelFails
    <3>2. faults' \in 0..MaxFaults  BY <2>1, <2>3 DEF TunnelFails, Fault
    <3>3. stale' \in BOOLEAN /\ (stale => stale')  BY <2>1, <3>1
    <3> QED  BY <2>3, <3>2, <3>3 DEF TunnelFails
  <2> QED  BY <2>2, <2>3
<1>2. ASSUME cfg' = cfg, TunnelType', TransportOwn', run'.pc = "build" => run'.cfg = cfg PROVE IInv'
  <2>1. TypeOK'  BY <1>1, <1>2 DEF IInv, TypeOK
  <2>2. Emptied' /\ AllBacked' /\ Spent'  BY <1>1, <1>2 DEF IInv, Emptied, AllBacked, Backed, Inside, Spent
  <2> QED  BY <1>1, <1>2, <2>1, <2>2, ElsewhereKeepsInv
<1>3. /\ cfg \in Configs /\ applied \in Configs /\ signal \in BOOLEAN /\ svc \in {None} \cup Tokens
      /\ NoCfg \in Configs /\ NoCfg.tok = NoToken /\ (cfg.ctrls # {} => cfg.tok \in Tokens)
      /\ (run.pc = "build" => run.cfg \in Configs /\ run.cfg.tok \in {NoToken} \cup Tokens)
      /\ TransportOwn /\ NoToken = None
  BY RunTypes DEF IInv, TypeOK, TunnelType, Configs, NoCfg, AllBacked, Backed, NoToken, None
<1>4. \A pc \in {"read", "wait", "up", "reconcile"} :
         [pc |-> pc] \in [pc : {"read", "wait", "up", "reconcile"}] /\ [pc |-> pc].pc # "build"
  OBVIOUS
<1>5. CASE ReadConfig
  <2>1. CASE IdleCfg(cfg)
    BY <1>2, <1>3, <1>4, <1>5, <2>1 DEF ReadConfig, Goes, TunnelType, TransportOwn
  <2>2. CASE ~IdleCfg(cfg)
    <3>1. [pc |-> "build", cfg |-> cfg] \in [pc : {"build"}, cfg : Configs]  BY <1>3
    <3> QED  BY <1>2, <1>3, <1>5, <2>2, <3>1 DEF ReadConfig, TunnelType, TransportOwn
  <2> QED  BY <2>1, <2>2
<1>6. CASE Build
  <2>1. run.pc = "build" /\ run' = [pc |-> "up"] /\ svc' = run.cfg.tok /\ applied' = run.cfg /\ UNCHANGED <<cfg, signal>>
    BY <1>6 DEF Build, Goes, At
  <2>2. svc' \in {None} \cup Tokens /\ applied' \in Configs  BY <1>3, <2>1
  <2>3. TunnelType' /\ TransportOwn'  BY <1>3, <1>4, <2>1, <2>2 DEF TunnelType, TransportOwn
  <2> QED  BY <1>2, <1>4, <2>1, <2>3
<1>7. CASE BuildFails \/ ServiceExits
  BY <1>2, <1>3, <1>4, <1>7 DEF BuildFails, ServiceExits, Goes, TunnelType, TransportOwn
<1>8. CASE Wake \/ TakeSignal
  BY <1>2, <1>3, <1>4, <1>8 DEF Wake, TakeSignal, Goes, TunnelType, TransportOwn
<1>9. CASE TearDown
  BY <1>2, <1>3, <1>4, <1>9 DEF TearDown, Goes, TunnelType, TransportOwn
<1>10. CASE Reconcile
  BY <1>2, <1>3, <1>4, <1>10 DEF Reconcile, NeedsRestart, Goes, TunnelType, TransportOwn
<1> QED  BY <1>5, <1>6, <1>7, <1>8, <1>9, <1>10 DEF TunnelRuns, TunnelFails, RunSteps

\* A restart, a join, a founding: none of them has anything to apply.
LEMMA WorldKeepsInv ==
  ASSUME IInv, Restart \/ Join \/ \E t \in Tokens : Found(t)
  PROVE  IInv'
<1> USE DEF tunnel, doc, filter, tokens
<1>t. /\ token \in {NoToken} \cup Tokens /\ parked \in BOOLEAN /\ active \in 0..MaxDevices /\ ctrls \subseteq Guids
      /\ changes \in 0..MaxChanges /\ MaxDevices \in Nat \ {0} /\ MaxChanges \in Nat /\ MaxFaults \in Nat /\ TTL \in Nat
      /\ faults \in 0..MaxFaults /\ left \in [Mints -> 0..TTL]
      /\ call \in [Callers -> CallType] /\ mint \in [Mints -> MintType]
  BY BoundsAssumption, TTLAssumption DEF IInv, TypeOK
<1>1. CASE Join
  <2>1. active' \in 0..MaxDevices /\ active' # 0 /\ changes' \in 0..MaxChanges  BY <1>1, <1>t DEF Join, Change
  <2>2. TypeOK' /\ Emptied'  BY <1>1, <2>1 DEF Join, IInv, TypeOK, TunnelType, Emptied
  <2>3. AllBacked' /\ TransportOwn' /\ Spent'
    BY <1>1 DEF Join, IInv, AllBacked, Backed, Inside, TransportOwn, Spent
  <2> QED  BY <1>1, <2>2, <2>3, ElsewhereKeepsInv DEF Join
<1>2. ASSUME NEW t \in Tokens, Found(t) PROVE IInv'
  <2>1. /\ active = 0 /\ active' = 1 /\ token' = t /\ parked' = FALSE /\ ctrls = {} /\ ctrls' = {}
        /\ changes' \in 0..MaxChanges
        /\ UNCHANGED <<cfg, signal, run, svc, applied, secret, targets, key, burned, mu, call, mint, left, used, stale, secrets, faults>>
    <3>1. changes' \in 0..MaxChanges  BY <1>2, <1>t DEF Found, Change
    <3>2. ctrls = {}  BY <1>2 DEF Found, IInv, Emptied
    <3> QED  BY <1>2, <3>1, <3>2 DEF Found
  <2>2. TypeOK' /\ Emptied'
    <3>1. 1 \in 0..MaxDevices  BY <1>t
    <3>2. active' \in 0..MaxDevices /\ token' \in {NoToken} \cup Tokens /\ parked' \in BOOLEAN  BY <2>1, <3>1
    <3>3. Emptied'  BY <2>1 DEF Emptied
    <3>4. TunnelType'  BY <2>1 DEF IInv, TypeOK, TunnelType
    <3> QED  BY <1>t, <2>1, <3>2, <3>3, <3>4 DEF IInv, TypeOK
  <2>3. Exclusive' /\ AllBacked' /\ TransportOwn' /\ Spent'
    BY <2>1 DEF IInv, Exclusive, AllBacked, Backed, Inside, TransportOwn, Spent
  <2>4. Served = {} /\ Served' = {} /\ (SomeDue' <=> SomeDue)  BY <2>1 DEF Served, SomeDue, Due
  <2>5. \A c : Fits(c)' <=> Fits(c)  BY <2>4 DEF Fits
  <2>6. InStep'  BY <2>1, <2>4, <2>5 DEF IInv, InStep, Inside
  <2> QED  BY <2>2, <2>3, <2>6 DEF IInv
<1>3. CASE Restart
  <2>1. PICK resumed \in {ctrls # {}, FALSE} :
          /\ cfg' = IF resumed THEN [tok |-> token, ctrls |-> Served] ELSE NoCfg
          /\ signal' = resumed
          /\ stale' = (ctrls # {} /\ ~resumed)
    BY <1>3 DEF Restart
  <2>2. /\ UNCHANGED <<token, parked, active, ctrls, secret, left, secrets, changes>>
        /\ targets' = IF ctrls = {} THEN {} ELSE Served
        /\ key' = IF ctrls = {} THEN None ELSE secret
        /\ run' = [pc |-> "read"] /\ svc' = None /\ applied' = NoCfg
        /\ burned' = [m \in Mints |-> 0] /\ used' = [m \in Mints |-> 0]
        /\ mu' = NoOne /\ call' = [p \in Callers |-> Idle] /\ faults' \in 0..MaxFaults
        /\ mint' = [m \in Mints |-> IF mint[m].pc = "minted" THEN mint[m] ELSE [pc |-> "idle"]]
    BY <1>3, <1>t DEF Restart, Fault
  <2>3. Served \subseteq ctrls /\ (Served # {} => token # NoToken) /\ Served' = Served /\ \A c : Fits(c)' <=> Fits(c)
    BY <2>2 DEF Served, Enrolled, Fits
  <2>4. targets' = Served' /\ (stale' \/ Fits(cfg'))
    <3>1. CASE resumed  BY <2>1, <2>2, <2>3, <3>1 DEF Fits
    <3>2. CASE ~resumed  BY <2>1, <2>2, <2>3, <3>2 DEF Fits, NoCfg
    <3> QED  BY <3>1, <3>2
  <2>5. cfg' \in Configs /\ Backed(cfg') /\ NoCfg \in Configs /\ signal' \in BOOLEAN /\ stale' \in BOOLEAN
    <3>1. NoCfg \in Configs /\ Backed(NoCfg)  BY DEF NoCfg, Configs, Backed
    <3>2. Served \subseteq Guids  BY <1>t, <2>3
    <3>3. [tok |-> token, ctrls |-> Served] \in Configs /\ Backed([tok |-> token, ctrls |-> Served])
      BY <1>t, <2>3, <3>2 DEF Configs, Backed
    <3> QED  BY <2>1, <3>1, <3>3
  <2>6. call' \in [Callers -> CallType] /\ \A p \in Callers : ~Inside(p)'
    BY <2>2 DEF CallType, Idle, Inside
  <2>7. mint' \in [Mints -> MintType]  BY <1>t, <2>2 DEF MintType
  <2>8. TunnelType'  BY <2>2, <2>5 DEF TunnelType
  <2>9. TypeOK'
    <3>1. targets' \subseteq Guids /\ {secret', key'} \subseteq {None} \cup Keys
      BY <1>t, <2>2, <2>3 DEF IInv, TypeOK
    <3>2. burned' \in [Mints -> 0..TTL] /\ used' \in [Mints -> Nat]  BY <1>t, <2>2
    <3> QED  BY <1>t, <2>2, <2>5, <2>6, <2>7, <2>8, <3>1, <3>2 DEF IInv, TypeOK
  <2>10. Exclusive' /\ Emptied' /\ AllBacked' /\ TransportOwn'
    BY <2>2, <2>5, <2>6 DEF IInv, Exclusive, Emptied, AllBacked, Backed, TransportOwn
  <2>11. InStep'
    <3>1. Fits(cfg)' <=> Fits(cfg')  BY <2>3 DEF Fits
    <3> QED  BY <2>4, <2>6, <3>1 DEF InStep
  <2>12. Spent'  BY <1>t, <2>2 DEF Spent
  <2> QED  BY <2>9, <2>10, <2>11, <2>12 DEF IInv
<1> QED  BY <1>1, <1>2, <1>3

\* Stuttering steps.
LEMMA StutterKeepsInv == IInv /\ UNCHANGED vars => IInv'
<1> SUFFICES ASSUME IInv, UNCHANGED vars PROVE IInv'  OBVIOUS
<1> USE DEF vars
<1>1. TypeOK'  BY DEF IInv, TypeOK, TunnelType
<1>2. Emptied' /\ AllBacked' /\ TransportOwn' /\ Spent'
  BY DEF IInv, Emptied, AllBacked, Backed, Inside, TransportOwn, Spent
<1> QED  BY <1>1, <1>2, ElsewhereKeepsInv

-----------------------------------------------------------------------------
(* The theorems.                                                           *)

\* The inductive invariant.
THEOREM Invariance == Spec => []IInv
<1>1. IInv /\ Next => IInv'
  <2> SUFFICES ASSUME IInv, Next PROVE IInv'  OBVIOUS
  <2>1. \/ \/ \E g \in Guids : AddController(g) \/ RemoveController(g) \/ \E h \in Guids : RotateController(g, h)
           \/ Park \/ \E p \in Callers : RevokeDevice(p) \/ DropHousehold(p)
        \/ Restart \/ Join \/ \E t \in Tokens : Found(t)
        \/ \E p \in Callers : ClearKey(p) \/ Reconfigure(p) \/ ReconfigureFails(p)
        \/ Sessions \/ TunnelRuns \/ TunnelFails
    BY DEF Next
  <2> QED  BY <2>1, DocumentKeepsInv, WorldKeepsInv, ReconfiguringKeepsInv, SessionsKeepInv, TunnelKeepsInv
<1> QED  BY <1>1, InitInv, StutterKeepsInv, PTL DEF Spec

\* Every variable has its type: the bounds hold, and no request, configuration
\* or token is ever in a form the code does not give it.
THEOREM TypeCorrect == Spec => []TypeOK
BY Invariance, PTL DEF IInv

\* Once no handler has a change left to apply, the filter and the tunnel are
\* configured for the document as it is, however the requests, the watcher and
\* the tunnel leg interleaved (reconfigureTunnel, tunnelMu).
THEOREM NothingStaleApplied == Spec => []TunnelCurrent
<1>1. IInv => TunnelCurrent
  <2> SUFFICES ASSUME IInv, Quiet PROVE targets = Served /\ (~stale => Fits(cfg))
    BY DEF TunnelCurrent, Fits
  <2>1. ~SomeDue /\ \A p \in Callers : ~Inside(p)  BY DEF Quiet, Idle, SomeDue, Due, Inside
  <2> QED  BY <2>1 DEF IInv, InStep
<1> QED  BY <1>1, Invariance, PTL

\* A service runs under the identity of the configuration it serves, whatever
\* configurations and signals Run has missed (needsRestart).
THEOREM OwnTransport == Spec => []TransportOwn
BY Invariance, PTL DEF IInv

\* A bootstrap token is redeemed at most once per process: the burn outlives the
\* token, whatever the two clocks' ticks and the requests do (burnList).
THEOREM BurnedWhileItVerifies == Spec => []RedeemedOnce
<1>1. IInv => RedeemedOnce  BY DEF IInv, Spent, RedeemedOnce
<1> QED  BY <1>1, Invariance, PTL

\* Two requests for a web session share the secret: the one that finds it stored
\* under it keeps it, and nothing else stores one (ensureCtrlSessionKey).
THEOREM SecretShared == Spec => OneSecret
<1> USE DEF tunnel, doc, filter, tokens
<1>1. [Next]_vars => (secret # None /\ secret' # None => secret' = secret)
  <2> SUFFICES ASSUME Next, secret # None, secret' # None PROVE secret' = secret  BY DEF vars
  <2>1. ASSUME NEW m \in Mints, EnsureKey(m) PROVE secret' = secret  BY <2>1 DEF EnsureKey, GeneratesSecret
  <2>2. CASE Sessions  BY <2>1, <2>2 DEF Sessions, Tick, BeginMint, InstallAndMint, Redeem
  <2>3. CASE TunnelRuns \/ TunnelFails \/ Restart  BY <2>3 DEF TunnelRuns, TunnelFails, Restart
  <2>4. ASSUME NEW p \in Callers, RevokeDevice(p) \/ DropHousehold(p) PROVE FALSE
    BY <2>4 DEF RevokeDevice, DropHousehold
  <2>5. ASSUME NEW p \in Callers, ClearKey(p) \/ Reconfigure(p) \/ ReconfigureFails(p) PROVE secret' = secret
    BY <2>5 DEF ClearKey, Reconfigure, Lock, SetTargets, SetSessionKey, Configure, Signal, ReconfigureFails
  <2>6. ASSUME NEW g \in Guids, AddController(g) \/ RemoveController(g) \/ \E h \in Guids : RotateController(g, h)
        PROVE  secret' = secret
    BY <2>6 DEF AddController, RemoveController, RotateController
  <2>7. CASE Park \/ Join \/ \E t \in Tokens : Found(t)  BY <2>7 DEF Park, Join, Found
  <2> QED  BY <2>2, <2>3, <2>4, <2>5, <2>6, <2>7 DEF Next
<1> QED  BY <1>1, PTL DEF Spec, OneSecret
=============================================================================
