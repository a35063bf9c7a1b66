----------------------------- MODULE FrpTunnel ------------------------------
(***************************************************************************)
(* The tunnel's supervisor (tunnel.frpTunnel): Configure stores a          *)
(* configuration and raises a signal that holds one element; Run, a        *)
(* goroutine of its own, builds one frp service at a time, reconciles the  *)
(* proxies of the running one in place when only they changed, and tears   *)
(* it down for anything else.  frp fixes the transport when a service is   *)
(* built; the relay token stands for it.  frp itself is external.          *)
(***************************************************************************)
EXTENDS Naturals

CONSTANTS
    Guids,     \* the controllers' GUIDs
    MaxToken   \* bound: cloud identities

ASSUME TokenAssumption == MaxToken \in Nat

VARIABLES
    cfg,      \* the configuration stored last
    signal,   \* the element in reconfigured
    run,      \* Run: where it is, with the configuration it read
    svc,      \* the running service: the token it logged in with
    applied   \* the configuration it was built or reconciled with

tunnel == <<cfg, signal, run, svc, applied>>

NoToken == 0
Tokens  == 1..MaxToken
Configs == [tok : {NoToken} \cup Tokens, ctrls : SUBSET Guids]
NoCfg   == [tok |-> NoToken, ctrls |-> {}]
None    == 0

\* Nothing to serve: no service runs.
IdleCfg(c) == c.ctrls = {}

\* Mut...: mutated forms of the operator that follows, for mutation checks.
MutSameProxiesOnly(old, new) == IdleCfg(old) # IdleCfg(new)
NeedsRestart(old, new) == IdleCfg(old) # IdleCfg(new) \/ old.tok # new.tok

At(pc) == run.pc = pc
Goes(pc) == run' = [pc |-> pc]

-----------------------------------------------------------------------------
\* Run reads the configuration: it builds a service or has nothing to do.
ReadConfig ==
    /\ At("read")
    /\ IF IdleCfg(cfg)
         THEN Goes("wait") /\ svc' = None /\ applied' = NoCfg
         ELSE run' = [pc |-> "build", cfg |-> cfg] /\ UNCHANGED <<svc, applied>>
    /\ UNCHANGED <<cfg, signal>>

Build ==
    /\ At("build") /\ Goes("up")
    /\ svc' = run.cfg.tok /\ applied' = run.cfg
    /\ UNCHANGED <<cfg, signal>>

\* Unexpected, since Configure validates: no retry before the next signal.
BuildFails ==
    /\ At("build") /\ Goes("wait")
    /\ svc' = None /\ applied' = NoCfg
    /\ UNCHANGED <<cfg, signal>>

Wake ==
    /\ At("wait") /\ Goes("read")
    /\ signal /\ signal' = FALSE
    /\ UNCHANGED <<cfg, svc, applied>>

TakeSignal ==
    /\ At("up") /\ Goes("reconcile")
    /\ signal /\ signal' = FALSE
    /\ UNCHANGED <<cfg, svc, applied>>

\* applyReconfigure: in place, or a teardown that forgets nothing but the
\* service; frp may refuse an update in place.
Reconcile ==
    /\ At("reconcile")
    /\ ~NeedsRestart(applied, cfg)
    /\ Goes("up") /\ applied' = cfg
    /\ UNCHANGED <<cfg, signal, svc>>

TearDown ==
    /\ At("reconcile") /\ Goes("read")
    /\ svc' = None
    /\ UNCHANGED <<cfg, signal, applied>>

\* The service returns by itself: Run ends, and is started again.
ServiceExits ==
    /\ At("up") /\ Goes("read")
    /\ svc' = None /\ applied' = NoCfg
    /\ UNCHANGED <<cfg, signal>>

RunSteps == ReadConfig \/ Build \/ Wake \/ TakeSignal \/ Reconcile \/ TearDown

TunnelInit ==
    /\ cfg = NoCfg /\ signal = FALSE
    /\ run = [pc |-> "read"] /\ svc = None /\ applied = NoCfg

TunnelType ==
    /\ cfg \in Configs /\ applied \in Configs
    /\ signal \in BOOLEAN
    /\ run \in [pc : {"read", "wait", "up", "reconcile"}] \cup [pc : {"build"}, cfg : Configs]
    /\ svc \in {None} \cup Tokens
=============================================================================
