---------------------------- MODULE Store_proofs -----------------------------
(***************************************************************************)
(* Proofs about Store, for every set of callers and every bound: memory    *)
(* and disk agree, writes reach the document they were decided about, and  *)
(* what the other components take for one document is one.                 *)
(***************************************************************************)
EXTENDS Store, TLAPS

Doc == [v : {0, 1, 2}, agent : Nat, tls : Nat, token : Nat, n : {0, 1}, roles : BOOLEAN]
Writes == {"write", "sync", "rename"}
Ops == [pc : Writes \cup {"free", "dirsync", "remove", "sweepbak", "sweeptemps"},
        by : Callers \cup {Opener},
        kind : {"open", "seed", "note", "drop", "pair", "tick", "stale", "wipe"},
        want : Nat, prev : Doc, synced : BOOLEAN]
Calls == [pc : {"idle", "decided", "checked", "sweep"}, kind : {"note", "drop"}, want : Nat]

Typed ==
    /\ path \in Doc /\ mem \in Doc /\ safe \subseteq Doc /\ path \in safe
    /\ \A d \in safe : d.v = 0 => d = Absent
    /\ op \in Ops /\ call \in [Callers -> Calls] /\ wiped \in BOOLEAN
    /\ proc \in {"down", "backup", "copying", "persisting", "read", "ready", "up"}
    /\ tokens \in Nat /\ minted \in Nat /\ keys \in Nat

\* What is on its way to the disk is a whole successor of what is there.
Follows(new, old) ==
    /\ new.v = 2
    /\ old = Absent => new.token = 0
    /\ old # Absent => new.agent = old.agent /\ (old.tls # 0 => new.tls = old.tls)

OnItsWay ==
    /\ op.pc \in Writes => Follows(mem, path)
    /\ op.pc = "rename" => op.synced
    /\ op.pc = "dirsync" => mem = path /\ path.v = 2
    /\ op.pc \in Writes /\ op.kind \in {"note", "drop"} => path.token = op.want

\* How far the agent has come up, who works on the document meanwhile, and
\* what memory has to do with the disk.
ComingUp ==
    /\ proc = "persisting" => op.pc \in Writes \cup {"dirsync"} /\ op.by = Opener /\ ~wiped
    /\ proc \in {"down", "backup", "copying", "read", "ready"} => MuFree
    /\ proc \in {"backup", "copying"} => path.v = 1 /\ mem = [path EXCEPT !.v = 2] /\ ~wiped
    /\ proc \in {"read", "ready"} => path.v = 2 /\ mem = path /\ ~wiped

Running ==
    /\ \A c \in Callers : call[c].pc # "idle" => proc = "up"
    /\ proc = "up" =>
        /\ ~MuFree => op.by \in Callers
        /\ wiped => path = Absent /\ op.pc \notin Writes \cup {"dirsync"}
        /\ ~wiped => /\ path.v = 2
                     /\ op.pc \in Writes => op.prev = path
                     /\ op.pc \notin Writes => mem = path

IInv == Typed /\ OnItsWay /\ ComingUp /\ Running

\* The invariant holds at the start.
LEMMA InitInv == Init => IInv
<1> SUFFICES ASSUME Init PROVE IInv  OBVIOUS
<1>1. Absent \in Doc /\ Absent.v = 0  BY DEF Absent, Doc
<1>2. path \in Doc /\ (path.v = 0 => path = Absent)
  <2>1. CASE path = Absent  BY <1>1, <2>1
  <2>2. CASE path = Household(1, 0, FALSE)  BY <2>2 DEF Household, Doc
  <2>3. CASE path = Household(2, 1, TRUE)  BY <2>3 DEF Household, Doc
  <2> QED  BY <2>1, <2>2, <2>3 DEF Init
<1>3. Typed
  <2>1. op \in Ops  BY DEF Init, Ops, Doc, Free, Absent
  <2>2. call \in [Callers -> Calls]  BY DEF Init, Idle, Calls
  <2>3. tokens \in Nat /\ minted \in Nat /\ keys \in Nat  BY <1>2 DEF Init, Doc
  <2> QED  BY <1>1, <1>2, <2>1, <2>2, <2>3 DEF Init, Typed
<1>4. OnItsWay /\ ComingUp /\ Running
  BY DEF Init, OnItsWay, ComingUp, Running, MuFree, Free, Idle, Writes
<1> QED  BY <1>3, <1>4 DEF IInv

\* A write that begins with the mutex free.
LEMMA WriteBegins ==
  ASSUME IInv, NEW by \in Callers \cup {Opener}, NEW k, NEW want \in Nat, NEW next \in Doc,
         k \in {"open", "seed", "note", "drop", "pair", "tick", "stale"},
         MuFree, Follows(next, path), Writing(by, k, want, next),
         k \in {"note", "drop"} => path.token = want, UNCHANGED path
  PROVE  /\ op' \in Ops /\ mem' = next /\ op'.pc = "write" /\ op'.by = by /\ op'.prev = mem
         /\ OnItsWay'
<1>1. op' = [pc |-> "write", by |-> by, kind |-> k, want |-> want, prev |-> mem, synced |-> FALSE]
  BY DEF Writing
<1>2. mem' = next /\ mem \in Doc  BY DEF Writing, IInv, Typed
<1>3. OnItsWay'  BY <1>1, <1>2 DEF OnItsWay, Writes
<1> QED  BY <1>1, <1>2, <1>3 DEF Ops, Writes

\* The change that an Update makes follows the document.
LEMMA ChangeFollows ==
  ASSUME IInv, proc = "up", MuFree, ~wiped, NEW k \in {"note", "drop", "pair", "tick"}
  PROVE  /\ [Changed(k) EXCEPT !.v = 2] \in Doc /\ Follows([Changed(k) EXCEPT !.v = 2], path)
         /\ [mem EXCEPT !.v = 2] \in Doc /\ Follows([mem EXCEPT !.v = 2], path)
<1>1. mem = path /\ path.v = 2 /\ mem \in Doc /\ path # Absent /\ tokens \in Nat
  BY DEF IInv, Running, Typed, MuFree, Writes, Absent
<1> DEFINE Version(d) == [d EXCEPT !.v = 2]
<1>2. ASSUME NEW d \in Doc, d.agent = mem.agent, d.tls = mem.tls
      PROVE  Version(d) \in Doc /\ Follows(Version(d), path)
  <2>1. Version(d) \in Doc  BY DEF Doc
  <2>2. Version(d).v = 2 /\ Version(d).agent = d.agent /\ Version(d).tls = d.tls  BY DEF Doc
  <2> QED  BY <1>1, <1>2, <2>1, <2>2 DEF Follows
<1>3. Changed(k) \in Doc /\ Changed(k).agent = mem.agent /\ Changed(k).tls = mem.tls
  <2>1. CASE k \in {"note", "tick"}
    <3>1. Changed(k) = [mem EXCEPT !.n = 1]  BY <2>1 DEF Changed
    <3> QED  BY <1>1, <3>1 DEF Doc
  <2>2. CASE k = "pair"
    <3>1. Changed(k) = [mem EXCEPT !.token = tokens + 1, !.n = 0]  BY <2>2 DEF Changed
    <3>2. tokens + 1 \in Nat  BY <1>1
    <3> QED  BY <1>1, <3>1, <3>2 DEF Doc
  <2>3. CASE k = "drop"
    <3>1. Changed(k) = [mem EXCEPT !.token = 0, !.n = 0]  BY <2>3 DEF Changed
    <3>2. PICK t \in Nat : t = 0  OBVIOUS
    <3>3. Changed(k) = [mem EXCEPT !.token = t, !.n = 0]  BY <3>1, <3>2
    <3> QED  BY <1>1, <3>3 DEF Doc
  <2> QED  BY <2>1, <2>2, <2>3
<1> HIDE DEF Version
<1>4. Version(Changed(k)) \in Doc /\ Follows(Version(Changed(k)), path)  BY <1>2, <1>3
<1>5. Version(mem) \in Doc /\ Follows(Version(mem), path)  BY <1>1, <1>2
<1> QED  BY <1>4, <1>5 DEF Version

\* Update, whoever calls it and for whatever write.
LEMMA UpdateKeepsInv ==
  ASSUME IInv, proc = "up", NEW c \in Callers, NEW k \in {"note", "drop", "pair", "tick"}, NEW want \in Nat,
         Update(c, k, want), UNCHANGED <<disk, proc, wiped, call, minted, keys>>, tokens' \in Nat
  PROVE  IInv'
<1> DEFINE kind == IF Applies(k, want) THEN k ELSE "stale"
           next == [(IF Applies(k, want) THEN Changed(k) ELSE mem) EXCEPT !.v = 2]
<1>1. MuFree /\ ~wiped /\ Writing(c, kind, want, next)  BY DEF Update, Writable
<1>2. mem = path /\ path.v = 2  BY <1>1 DEF IInv, Running, MuFree, Writes
<1>3. next \in Doc /\ Follows(next, path)  BY <1>1, ChangeFollows
<1>4. kind \in {"note", "drop"} => path.token = want  BY <1>2 DEF Applies
<1>5. UNCHANGED path  BY DEF disk
<1> HIDE DEF next, kind
<1>6. kind \in {"open", "seed", "note", "drop", "pair", "tick", "stale"}  BY DEF kind
<1>7. /\ op' \in Ops /\ mem' = next /\ op'.pc = "write" /\ op'.by = c /\ op'.prev = mem
      /\ OnItsWay'
  BY <1>1, <1>3, <1>4, <1>5, <1>6, WriteBegins
<1>8. Typed'  BY <1>3, <1>7 DEF IInv, Typed, disk
<1>9. ComingUp'  BY <1>7 DEF ComingUp
<1>10. Running'  BY <1>1, <1>2, <1>7 DEF IInv, Running, disk, MuFree, Writes
<1> QED  BY <1>7, <1>8, <1>9, <1>10 DEF IInv

\* The callers' steps: their decisions, their writes, a wipe.
LEMMA CallersKeepInv ==
  ASSUME IInv, NEW c \in Callers,
         \/ \E k \in {"note", "drop"} : Decide(c, k)
         \/ Precheck(c) \/ UpdateBound(c) \/ Tick(c) \/ Pair(c) \/ Wipe(c) \/ Sweep(c)
  PROVE  IInv'
<1> USE DEF disk, count
<1>1. CASE \E k \in {"note", "drop"} : Decide(c, k)
  <2> PICK k \in {"note", "drop"} : Decide(c, k)  BY <1>1
  <2>1. call' \in [Callers -> Calls] /\ \A d \in Callers : call'[d].pc # "idle" => proc = "up"
    BY DEF Decide, IInv, Typed, Calls, Doc, Running
  <2> QED  BY <2>1 DEF Decide, IInv, Typed, OnItsWay, ComingUp, Running, MuFree
<1>2. CASE Precheck(c)
  <2>1. call' \in [Callers -> Calls] /\ \A d \in Callers : call'[d].pc # "idle" => proc = "up"
    BY <1>2 DEF Precheck, IInv, Typed, Calls, Idle, Running
  <2> QED  BY <1>2, <2>1 DEF Precheck, IInv, Typed, OnItsWay, ComingUp, Running, MuFree
<1>3. CASE UpdateBound(c)
  <2>1. call[c] \in Calls /\ proc = "up" /\ tokens \in Nat /\ call[c].kind \in {"note", "drop"} /\ call[c].want \in Nat
    BY <1>3 DEF UpdateBound, IInv, Typed, Calls, Running
  <2>2. CASE Update(c, call[c].kind, call[c].want) /\ UNCHANGED call
    BY <1>3, <2>1, <2>2, UpdateKeepsInv DEF UpdateBound
  <2>3. CASE call' = [call EXCEPT ![c] = Idle] /\ UNCHANGED <<op, mem>>
    <3>1. call' \in [Callers -> Calls] /\ \A d \in Callers : call'[d].pc # "idle" => proc = "up"
      BY <2>3 DEF IInv, Typed, Calls, Idle, Running
    <3> QED  BY <1>3, <2>3, <3>1 DEF UpdateBound, IInv, Typed, OnItsWay, ComingUp, Running, MuFree
  <2> QED  BY <1>3, <2>2, <2>3 DEF UpdateBound
<1>4. CASE Tick(c)
  BY <1>4, UpdateKeepsInv DEF Tick, IInv, Typed
<1>5. CASE Pair(c)
  BY <1>5, UpdateKeepsInv DEF Pair, IInv, Typed
<1>6. CASE Wipe(c)
  <2>1. op' = [Free EXCEPT !.pc = "remove", !.by = c, !.kind = "wipe"]  BY <1>6 DEF Wipe
  <2>2. op' \in Ops /\ op'.pc = "remove" /\ op'.by = c  BY <2>1 DEF Free, Ops, Doc, Absent
  <2> QED  BY <1>6, <2>2 DEF Wipe, IInv, Typed, OnItsWay, ComingUp, Running, MuFree, Writes
<1>7. CASE Sweep(c)
  <2>1. op' = [Free EXCEPT !.pc = "sweepbak", !.by = c, !.kind = "drop", !.want = call[c].want]
    BY <1>7 DEF Sweep
  <2>2. call[c].want \in Nat /\ proc = "up"  BY <1>7 DEF Sweep, IInv, Typed, Calls, Running
  <2>3. op' \in Ops /\ op'.pc = "sweepbak" /\ op'.by = c  BY <2>1, <2>2 DEF Free, Ops, Doc, Absent
  <2> QED  BY <1>7, <2>2, <2>3 DEF Sweep, IInv, Typed, OnItsWay, ComingUp, Running, MuFree, Writes
<1> QED  BY <1>1, <1>2, <1>3, <1>4, <1>5, <1>6, <1>7

\* Whoever held the mutex has let it go.
LEMMA ReturnKeeps ==
  ASSUME IInv, ~MuFree, NEW then, Return(then)
  PROVE  /\ op' = Free /\ Free \in Ops /\ Free.pc = "free" /\ call' \in [Callers -> Calls]
         /\ op.by \in Callers => UNCHANGED proc /\ proc = "up"
         /\ op.by = Opener =>
              /\ UNCHANGED call /\ proc = "persisting"
              /\ proc' = IF then = "failed" THEN "down" ELSE IF op.kind = "seed" THEN "ready" ELSE "read"
         /\ \A d \in Callers : call'[d].pc # "idle" => proc' = "up"
<1>1. op' = Free /\ Free \in Ops /\ Free.pc = "free"  BY DEF Return, Free, Ops, Doc, Absent
<1>2. op.by \in Callers \cup {Opener} /\ op.want \in Nat /\ call \in [Callers -> Calls]
  BY DEF IInv, Typed, Ops
<1>3. proc \in {"persisting", "up"}  BY DEF IInv, Typed, ComingUp
<1>4. CASE op.by \in Callers
  <2>1. op.by # Opener /\ UNCHANGED proc  BY <1>4, CallersAssumption DEF Return
  <2>2. proc = "up"  BY <1>3, <2>1 DEF IInv, ComingUp
  <2>3. call' \in [Callers -> Calls]
    <3>1. [pc |-> "sweep", kind |-> "drop", want |-> op.want] \in Calls /\ Idle \in Calls
      BY <1>2 DEF Calls, Idle
    <3> QED  BY <1>2, <1>4, <2>1, <3>1 DEF Return
  <2> QED  BY <1>1, <2>1, <2>2, <2>3
<1>5. CASE op.by = Opener
  <2>1. /\ UNCHANGED call
        /\ proc' = IF then = "failed" THEN "down" ELSE IF op.kind = "seed" THEN "ready" ELSE "read"
    BY <1>5 DEF Return
  <2>2. op.by \notin Callers  BY <1>5, CallersAssumption
  <2>3. proc = "persisting"  BY <1>3, <2>2 DEF IInv, Running
  <2> QED  BY <1>1, <1>2, <2>1, <2>2, <2>3 DEF IInv, Running
<1> QED  BY <1>2, <1>4, <1>5

\* The file operations of persistLocked and the rollback of a failed one.
LEMMA PersistingKeepsInv ==
  ASSUME IInv, Persisting
  PROVE  IInv'
<1> USE DEF disk, count
<1>1. CASE WriteTemp
  <2>1. op.pc = "write" /\ op' = [op EXCEPT !.pc = "sync"]  BY <1>1 DEF WriteTemp, AfterWrite
  <2>2. op \in Ops  BY DEF IInv, Typed
  <2>3. /\ op' \in Ops /\ op'.pc = "sync" /\ op'.by = op.by /\ op'.kind = op.kind
        /\ op'.want = op.want /\ op'.prev = op.prev
    BY <2>1, <2>2 DEF Ops, Writes
  <2> QED  BY <1>1, <2>1, <2>3 DEF WriteTemp, IInv, Typed, OnItsWay, ComingUp, Running, MuFree, Writes
<1>2. CASE SyncTemp
  <2>1. op.pc = "sync" /\ op' = [op EXCEPT !.pc = "rename", !.synced = TRUE]  BY <1>2 DEF SyncTemp
  <2>2. op \in Ops  BY DEF IInv, Typed
  <2>3. /\ op' \in Ops /\ op'.pc = "rename" /\ op'.by = op.by /\ op'.kind = op.kind
        /\ op'.want = op.want /\ op'.prev = op.prev /\ op'.synced
    BY <2>1, <2>2 DEF Ops, Writes
  <2> QED  BY <1>2, <2>1, <2>3 DEF SyncTemp, IInv, Typed, OnItsWay, ComingUp, Running, MuFree, Writes
<1>3. CASE Rename
  <2>1. op.pc = "rename" /\ op' = [op EXCEPT !.pc = "dirsync"] /\ op \in Ops
    BY <1>3 DEF Rename, IInv, Typed
  <2>2. /\ op' \in Ops /\ op'.pc = "dirsync" /\ op'.by = op.by
    BY <2>1 DEF Ops, Writes
  <2>3. op.synced /\ path' = mem /\ safe' = safe \cup {mem} /\ mem.v = 2 /\ mem \in Doc
    BY <1>3, <2>1 DEF Rename, IInv, Typed, OnItsWay, Writes, Follows
  <2>4. UNCHANGED <<proc, mem, wiped, call, tokens, minted, keys>>  BY <1>3 DEF Rename
  <2>5. Typed'  BY <2>2, <2>3, <2>4 DEF IInv, Typed
  <2>6. OnItsWay'  BY <2>2, <2>3, <2>4 DEF OnItsWay, Writes
  <2>7. ComingUp'  BY <2>1, <2>2, <2>3, <2>4 DEF IInv, ComingUp, MuFree, Writes
  <2>8. Running'
    <3>1. proc = "up" => ~wiped  BY <2>1 DEF IInv, Running, Writes
    <3> QED  BY <2>1, <2>2, <2>3, <2>4, <3>1 DEF IInv, Running, MuFree, Writes
  <2> QED  BY <2>5, <2>6, <2>7, <2>8 DEF IInv
<1>4. CASE SyncDir
  <2> DEFINE then == IF op.kind = "drop" THEN "sweep" ELSE "done"
  <2>1. op.pc = "dirsync" /\ ~MuFree /\ Return(then) /\ then # "failed"  BY <1>4 DEF SyncDir, MuFree
  <2> HIDE DEF then
  <2>2. /\ op' = Free /\ Free \in Ops /\ Free.pc = "free" /\ call' \in [Callers -> Calls]
        /\ op.by \in Callers => UNCHANGED proc /\ proc = "up"
        /\ op.by = Opener =>
              /\ UNCHANGED call /\ proc = "persisting"
              /\ proc' = IF then = "failed" THEN "down" ELSE IF op.kind = "seed" THEN "ready" ELSE "read"
        /\ \A d \in Callers : call'[d].pc # "idle" => proc' = "up"
    BY <2>1, ReturnKeeps
  <2>3. /\ UNCHANGED <<path, mem, wiped, tokens, minted, keys>> /\ safe' \in {{path}, safe}
        /\ mem = path /\ path.v = 2
    BY <1>4, <2>1 DEF SyncDir, Reached, IInv, OnItsWay
  <2>4. op.by \in Callers \cup {Opener}  BY DEF IInv, Typed, Ops
  <2>5. op.by = Opener => proc' \in {"ready", "read"} /\ ~wiped
    BY <2>1, <2>2 DEF IInv, ComingUp
  <2>6. Typed'
    <3>1. proc' \in {"down", "backup", "copying", "persisting", "read", "ready", "up"}
      BY <2>2, <2>4, <2>5
    <3> QED  BY <2>2, <2>3, <3>1 DEF IInv, Typed
  <2>7. OnItsWay'  BY <2>2 DEF OnItsWay, Writes
  <2>8. ComingUp'  BY <2>2, <2>3, <2>4, <2>5 DEF ComingUp, MuFree
  <2>9. Running'
    <3>1. op.by \in Callers => ~wiped  BY <2>1, <2>2 DEF IInv, Running
    <3> QED  BY <2>2, <2>3, <2>4, <2>5, <3>1 DEF Running, MuFree, Writes
  <2> QED  BY <2>6, <2>7, <2>8, <2>9 DEF IInv
<1>5. CASE WriteFails
  <2>1. op.pc \in Writes /\ ~MuFree /\ Return("failed")  BY <1>5 DEF WriteFails, MuFree, Writes
  <2>2. /\ op' = Free /\ Free \in Ops /\ Free.pc = "free" /\ call' \in [Callers -> Calls]
        /\ op.by \in Callers => UNCHANGED proc /\ proc = "up"
        /\ op.by = Opener => proc' = "down"
        /\ \A d \in Callers : call'[d].pc # "idle" => proc' = "up"
    BY <2>1, ReturnKeeps
  <2>3. UNCHANGED <<path, safe, wiped, tokens, minted, keys>> /\ mem' = op.prev /\ op.prev \in Doc
    BY <1>5 DEF WriteFails, RolledBack, IInv, Typed, Ops
  <2>4. op.by \in Callers \cup {Opener}  BY DEF IInv, Typed, Ops
  <2>5. Typed'
    <3>1. proc' \in {"down", "backup", "copying", "persisting", "read", "ready", "up"}  BY <2>2, <2>4
    <3> QED  BY <2>2, <2>3, <3>1 DEF IInv, Typed
  <2>6. OnItsWay'  BY <2>2 DEF OnItsWay, Writes
  <2>7. ComingUp'  BY <2>2, <2>4 DEF ComingUp, MuFree
  <2>8. Running'
    <3>1. op.by \in Callers => ~wiped /\ path.v = 2 /\ op.prev = path  BY <2>1, <2>2 DEF IInv, Running
    <3> QED  BY <2>2, <2>3, <2>4, <3>1 DEF Running, MuFree, Writes
  <2> QED  BY <2>5, <2>6, <2>7, <2>8 DEF IInv
<1> QED  BY <1>1, <1>2, <1>3, <1>4, <1>5 DEF Persisting

\* The removal of copies, and the exit.
LEMMA SweepingKeepsInv ==
  ASSUME IInv, Sweeping \/ Exit
  PROVE  IInv'
<1> USE DEF disk, count, ghost
<1>1. op \in Ops /\ op.by \in Callers \cup {Opener}  BY DEF IInv, Typed, Ops
\* No sweep runs while the agent starts.
<1>2. op.pc \in {"remove", "sweepbak", "sweeptemps"} => op.by \in Callers /\ proc = "up" /\ ~MuFree
  <2>1. op.pc \in {"remove", "sweepbak", "sweeptemps"} => ~MuFree  BY DEF MuFree
  <2>2. op.pc \in {"remove", "sweepbak", "sweeptemps"} => proc = "up"
    BY <2>1 DEF IInv, Typed, ComingUp, Writes
  <2> QED  BY <2>1, <2>2 DEF IInv, Running
<1>3. Absent \in Doc /\ Absent.v = 0  BY DEF Absent, Doc
<1>4. CASE RemoveDocument
  <2>1. CASE /\ path' = Absent /\ safe' = safe \cup {Absent} /\ wiped' = TRUE
             /\ op' = [op EXCEPT !.pc = "sweepbak"] /\ UNCHANGED <<proc, call>>
    <3>1. op'.pc = "sweepbak" /\ op' \in Ops /\ op'.by = op.by  BY <1>1, <2>1 DEF Ops, Writes
    <3>2. Typed'  BY <1>3, <1>4, <2>1, <3>1 DEF RemoveDocument, IInv, Typed
    <3>3. OnItsWay'  BY <3>1 DEF OnItsWay, Writes
    <3>4. ComingUp' /\ Running'
      BY <1>2, <1>4, <2>1, <3>1 DEF RemoveDocument, IInv, ComingUp, Running, MuFree, Writes
    <3> QED  BY <3>2, <3>3, <3>4 DEF IInv
  <2>2. CASE Return("failed") /\ UNCHANGED <<path, safe, wiped>>
    <3>1. /\ op' = Free /\ Free \in Ops /\ Free.pc = "free" /\ call' \in [Callers -> Calls] /\ UNCHANGED proc
          /\ \A d \in Callers : call'[d].pc # "idle" => proc' = "up"
      BY <1>2, <1>4, <2>2, ReturnKeeps DEF RemoveDocument
    <3>2. op.pc = "remove" /\ UNCHANGED <<mem, tokens, minted, keys>>  BY <1>4 DEF RemoveDocument
    <3> QED  BY <1>2, <2>2, <3>1, <3>2 DEF IInv, Typed, OnItsWay, ComingUp, Running, MuFree, Writes
  <2> QED  BY <1>4, <2>1, <2>2 DEF RemoveDocument
<1>5. CASE SweepBackup
  <2>1. op.pc = "sweepbak" /\ op' = [op EXCEPT !.pc = "sweeptemps"]  BY <1>5 DEF SweepBackup
  <2>2. op'.pc = "sweeptemps" /\ op' \in Ops /\ op'.by = op.by  BY <1>1, <2>1 DEF Ops, Writes
  <2> QED  BY <1>2, <1>5, <2>1, <2>2 DEF SweepBackup, IInv, Typed, OnItsWay, ComingUp, Running, MuFree, Writes
<1>6. CASE SweepTemps
  <2>1. op.pc = "sweeptemps" /\ Return("done") /\ UNCHANGED <<path, safe, mem, wiped, tokens, minted, keys>>
    BY <1>6 DEF SweepTemps
  <2>2. /\ op' = Free /\ Free \in Ops /\ Free.pc = "free" /\ call' \in [Callers -> Calls] /\ UNCHANGED proc
        /\ \A d \in Callers : call'[d].pc # "idle" => proc' = "up"
    BY <1>2, <2>1, ReturnKeeps
  <2> QED  BY <1>2, <2>1, <2>2 DEF IInv, Typed, OnItsWay, ComingUp, Running, MuFree, Writes
<1>7. CASE Exit
  <2>1. /\ proc' = "down" /\ MuFree /\ call' = [c \in Callers |-> Idle]
        /\ UNCHANGED <<path, safe, mem, wiped, op, tokens, minted, keys>>
    BY <1>7 DEF Exit
  <2>2. call' \in [Callers -> Calls] /\ \A d \in Callers : call'[d].pc = "idle"
    BY <2>1 DEF Calls, Idle
  <2> QED  BY <2>1, <2>2 DEF IInv, Typed, OnItsWay, ComingUp, Running, MuFree, Writes
<1> QED  BY <1>4, <1>5, <1>6, <1>7 DEF Sweeping

\* A write of the agent's start.
LEMMA OpenerWrites ==
  ASSUME IInv, MuFree, wiped' = FALSE, proc \in {"down", "backup", "copying", "read"},
         NEW next \in Doc, Follows(next, path), NEW k \in {"open", "seed"},
         Writing(Opener, k, 0, next), proc' = "persisting",
         UNCHANGED <<path, safe, call, tokens>>, minted' \in Nat, keys' \in Nat
  PROVE  IInv'
<1>1. /\ op' \in Ops /\ mem' = next /\ op'.pc = "write" /\ op'.by = Opener
      /\ OnItsWay'
  BY WriteBegins
<1>2. \A c \in Callers : call[c].pc = "idle"  BY DEF IInv, Running
<1>3. wiped' \in BOOLEAN  OBVIOUS
<1>4. Typed'  BY <1>1, <1>3 DEF IInv, Typed
<1>5. ComingUp' /\ Running'  BY <1>1, <1>2 DEF ComingUp, Running, MuFree, Writes
<1> QED  BY <1>1, <1>4, <1>5 DEF IInv


\* A start: the migration, the read, the roles and the keys.
LEMMA StartingKeepsInv ==
  ASSUME IInv, Starting
  PROVE  IInv'
<1> USE DEF disk, count, ghost
<1>1. /\ path \in Doc /\ mem \in Doc /\ minted \in Nat /\ keys \in Nat /\ op \in Ops /\ wiped \in BOOLEAN
      /\ minted + 1 \in Nat /\ keys + 1 \in Nat
  BY DEF IInv, Typed
<1>2. proc \in {"down", "backup", "copying", "read", "ready"} =>
        MuFree /\ (proc # "down" => wiped = FALSE) /\ \A c \in Callers : call[c].pc = "idle"
  BY <1>1 DEF IInv, ComingUp, Running
<1>3. proc \in {"backup", "copying"} =>
        path.v = 1 /\ mem = [path EXCEPT !.v = 2] /\ mem \in Doc /\ Follows(mem, path)
  <2> SUFFICES ASSUME proc \in {"backup", "copying"}
               PROVE  path.v = 1 /\ mem = [path EXCEPT !.v = 2] /\ mem \in Doc /\ Follows(mem, path)
    OBVIOUS
  <2>1. path.v = 1 /\ mem = [path EXCEPT !.v = 2] /\ path # Absent  BY DEF IInv, ComingUp, Absent
  <2>2. mem.v = 2 /\ mem.agent = path.agent /\ mem.tls = path.tls  BY <1>1, <2>1 DEF Doc
  <2> QED  BY <1>1, <2>1, <2>2 DEF Follows
<1>4. proc \in {"read", "ready"} => path.v = 2 /\ path # Absent /\ mem = path /\ wiped = FALSE
  BY <1>1, <1>2 DEF IInv, ComingUp, Absent
<1>5. CASE Open
  <2>1. proc = "down" /\ wiped' = FALSE /\ UNCHANGED <<path, safe, call, tokens, keys>>  BY <1>5 DEF Open
  <2>2. CASE path.v = 0
    <3>1. minted' = minted + 1 /\ Writing(Opener, "open", 0, Fresh(minted + 1)) /\ proc' = "persisting"
      BY <1>5, <2>2 DEF Open
    <3>2. Fresh(minted + 1) \in Doc /\ Fresh(minted + 1).v = 2 /\ Fresh(minted + 1).token = 0
      BY <1>1 DEF Fresh, Doc
    <3>3. path = Absent  BY <2>2 DEF IInv, Typed
    <3>4. Follows(Fresh(minted + 1), path)  BY <3>2, <3>3 DEF Follows
    <3> HIDE DEF Fresh
    <3> QED  BY <1>1, <1>2, <2>1, <3>1, <3>2, <3>4, OpenerWrites
  <2>3. CASE path.v = 1
    <3>1. mem' = [path EXCEPT !.v = 2] /\ proc' = "backup" /\ UNCHANGED <<op, minted>>
      BY <1>5, <2>3 DEF Open
    <3>2. mem' \in Doc  BY <1>1, <3>1 DEF Doc
    <3> QED  BY <1>2, <2>1, <2>3, <3>1, <3>2 DEF IInv, Typed, OnItsWay, ComingUp, Running, MuFree, Writes
  <2>4. CASE path.v = 2
    <3>1. mem' = path /\ proc' = "read" /\ UNCHANGED <<op, minted>>  BY <1>5, <2>4 DEF Open
    <3> QED  BY <1>1, <1>2, <2>1, <2>4, <3>1 DEF IInv, Typed, OnItsWay, ComingUp, Running, MuFree, Writes
  <2> QED  BY <1>5, <2>2, <2>3, <2>4 DEF Open
<1>6. CASE Backup
  <2>1. proc = "backup" /\ UNCHANGED <<path, safe, wiped, call, tokens, minted, keys>>  BY <1>6 DEF Backup
  <2>2. CASE Writing(Opener, "open", 0, mem) /\ proc' = "persisting"
    BY <1>1, <1>2, <1>3, <2>1, <2>2, OpenerWrites
  <2>3. CASE proc' = "copying" /\ UNCHANGED <<op, mem>>
    BY <1>2, <1>3, <2>1, <2>3 DEF IInv, Typed, OnItsWay, ComingUp, Running, MuFree, Writes
  <2> QED  BY <1>6, <2>2, <2>3 DEF Backup, AlreadyThere, Migrate
<1>7. CASE Copy
  <2>1. proc = "copying" /\ UNCHANGED <<path, safe, wiped, call, tokens, minted, keys>>  BY <1>7 DEF Copy
  <2>2. CASE Writing(Opener, "open", 0, mem) /\ proc' = "persisting"
    BY <1>1, <1>2, <1>3, <2>1, <2>2, OpenerWrites
  <2>3. CASE proc' = "down" /\ UNCHANGED <<op, mem>>
    BY <1>2, <2>1, <2>3 DEF IInv, Typed, OnItsWay, ComingUp, Running, MuFree, Writes
  <2> QED  BY <1>7, <2>2, <2>3 DEF Copy, Migrate
<1>8. CASE InferRoles
  <2> DEFINE next == [mem EXCEPT !.roles = TRUE]
  <2>1. /\ proc = "read" /\ Writing(Opener, "open", 0, next) /\ proc' = "persisting"
        /\ UNCHANGED <<path, safe, wiped, call, tokens, minted, keys>>
    BY <1>8 DEF InferRoles
  <2>2. next \in Doc /\ next.v = mem.v /\ next.agent = mem.agent /\ next.tls = mem.tls  BY <1>1 DEF Doc
  <2> HIDE DEF next
  <2>3. Follows(next, path)  BY <1>4, <2>1, <2>2 DEF Follows
  <2> QED  BY <1>1, <1>2, <2>1, <2>2, <2>3, OpenerWrites
<1>9. CASE MintTLS
  <2> DEFINE next == [mem EXCEPT !.tls = keys + 1]
  <2>1. /\ proc = "read" /\ Writing(Opener, "open", 0, next) /\ proc' = "persisting" /\ mem.tls = 0
        /\ keys' = keys + 1 /\ UNCHANGED <<path, safe, wiped, call, tokens, minted>>
    BY <1>9 DEF MintTLS
  <2>2. next \in Doc /\ next.v = mem.v /\ next.agent = mem.agent  BY <1>1 DEF Doc
  <2> HIDE DEF next
  <2>3. Follows(next, path)  BY <1>4, <2>1, <2>2 DEF Follows
  <2> QED  BY <1>1, <1>2, <2>1, <2>2, <2>3, OpenerWrites
<1>10. CASE Reconcile
  <2>1. /\ proc = "read" /\ Writing(Opener, "seed", 0, mem) /\ proc' = "persisting"
        /\ UNCHANGED <<path, safe, wiped, call, tokens, minted, keys>>
    BY <1>10 DEF Reconcile
  <2>2. Follows(mem, path)  BY <1>4, <2>1 DEF Follows
  <2> QED  BY <1>1, <1>2, <2>1, <2>2, OpenerWrites
<1>11. CASE Serve
  <2>1. /\ proc = "ready" /\ proc' = "up" /\ UNCHANGED <<path, safe, mem, wiped, op, call, tokens, minted, keys>>
    BY <1>11 DEF Serve
  <2> QED  BY <1>2, <1>4, <2>1 DEF IInv, Typed, OnItsWay, ComingUp, Running, MuFree, Writes
<1> QED  BY <1>5, <1>6, <1>7, <1>8, <1>9, <1>10, <1>11 DEF Starting

\* Crashes, power cuts and the disk's own pace.
LEMMA WorldKeepsInv ==
  ASSUME IInv, WriteBack \/ Kill \/ PowerCut
  PROVE  IInv'
<1> USE DEF disk, count, ghost
<1>1. Absent \in Doc /\ Free \in Ops /\ Free.pc = "free"  BY DEF Absent, Doc, Free, Ops
<1>2. [c \in Callers |-> Idle] \in [Callers -> Calls] /\ Idle.pc = "idle"  BY DEF Idle, Calls
<1>3. CASE WriteBack
  BY <1>3 DEF WriteBack, IInv, Typed, OnItsWay, ComingUp, Running, MuFree, Writes
<1>4. ASSUME Stopped, path' \in safe', safe' \subseteq safe, UNCHANGED <<tokens, minted, keys>>
      PROVE  IInv'
  <2>1. /\ proc' = "down" /\ mem' = Absent /\ wiped' = FALSE
        /\ op' = Free /\ call' = [c \in Callers |-> Idle]
    BY <1>4 DEF Stopped
  <2>2. Typed'  BY <1>1, <1>2, <1>4, <2>1 DEF IInv, Typed
  <2>3. OnItsWay'  BY <1>1, <2>1 DEF OnItsWay, Writes
  <2>4. \A c \in Callers : call'[c].pc = "idle"  BY <1>2, <2>1
  <2>5. ComingUp' /\ Running'  BY <1>1, <2>1, <2>4 DEF ComingUp, Running, MuFree
  <2> QED  BY <2>2, <2>3, <2>5 DEF IInv
<1>5. CASE Kill  BY <1>4, <1>5 DEF Kill, IInv, Typed
<1>6. CASE PowerCut  BY <1>4, <1>6 DEF PowerCut
<1> QED  BY <1>3, <1>5, <1>6

\* Every step.
LEMMA StepKeepsInv == IInv /\ [Next]_vars => IInv'
<1> SUFFICES ASSUME IInv, [Next]_vars PROVE IInv'  OBVIOUS
<1>1. CASE UNCHANGED vars
  BY <1>1 DEF vars, disk, ghost, count, IInv, Typed, OnItsWay, ComingUp, Running, MuFree, Writes
<1>2. CASE Next
  BY <1>2, CallersKeepInv, PersistingKeepsInv, SweepingKeepsInv, StartingKeepsInv, WorldKeepsInv DEF Next
<1> QED  BY <1>1, <1>2

\* The inductive invariant holds in every state the program reaches: whoever
\* writes holds the mutex, and memory, file and temporary copy fit its progress.
THEOREM Invariance == Spec => []IInv
BY InitInv, StepKeepsInv, PTL DEF Spec

-----------------------------------------------------------------------------
\* With no write under way, the document the relay serves is the one a restart
\* would read, whatever failed or crashed before (persistLocked and the
\* rollback of Update).
THEOREM MemoryIsDisk == Spec => []InStep
<1>1. IInv => InStep  BY DEF IInv, Running, InStep, MuFree, Writes
<1> QED  BY <1>1, Invariance, PTL

\* The document's file is changed by a rename, a removal, or a power cut.
LEMMA FileChanges ==
  ASSUME [Next]_vars, ~Rename, ~RemoveDocument, ~PowerCut
  PROVE  path' = path
<1> USE DEF disk
<1>1. CASE UNCHANGED vars  BY <1>1 DEF vars
<1>2. ASSUME NEW c \in Callers,
             \/ \E k \in {"note", "drop"} : Decide(c, k)
             \/ Precheck(c) \/ UpdateBound(c) \/ Tick(c) \/ Pair(c) \/ Wipe(c) \/ Sweep(c)
      PROVE  path' = path
  BY <1>2 DEF Decide, Precheck, UpdateBound, Tick, Pair, Wipe, Sweep
<1>3. CASE Persisting  BY <1>3 DEF Persisting, WriteTemp, SyncTemp, SyncDir, WriteFails
<1>4. CASE Sweeping \/ Exit  BY <1>4 DEF Sweeping, SweepBackup, SweepTemps, Exit
<1>5. CASE Starting
  BY <1>5 DEF Starting, Open, Backup, Copy, InferRoles, MintTLS, Reconcile, Serve
<1>6. CASE WriteBack \/ Kill  BY <1>6 DEF WriteBack, Kill
<1> QED  BY <1>1, <1>2, <1>3, <1>4, <1>5, <1>6 DEF Next

\* A write changes the document only while that belongs to the household it was
\* decided for (UpdateIfToken, DropHouseholdIf), and nothing writes it again
\* once a factory reset has removed it (Wipe).
THEOREM WritesAreBound == Spec => BoundWrite
<1> DEFINE Bound == /\ op.kind \in {"note", "drop"} /\ path' # path /\ op.pc = "rename" => path.token = op.want
                    /\ wiped /\ proc # "down" /\ proc' # "down" => path' = path
<1>1. IInv /\ [Next]_vars => Bound
  <2> SUFFICES ASSUME IInv, [Next]_vars PROVE Bound  OBVIOUS
  <2>1. op.kind \in {"note", "drop"} /\ op.pc = "rename" => path.token = op.want
    BY DEF IInv, OnItsWay, Writes
  <2>2. ASSUME wiped, proc # "down", proc' # "down" PROVE path' = path
    <3>1. proc = "up"  BY <2>2 DEF IInv, Typed, ComingUp
    <3>2. path = Absent /\ op.pc # "rename"  BY <2>2, <3>1 DEF IInv, Running, Writes
    <3>3. ~Rename /\ ~PowerCut  BY <2>2, <3>2 DEF Rename, PowerCut, Stopped
    <3>4. CASE RemoveDocument  BY <3>2, <3>4 DEF RemoveDocument
    <3> QED  BY <3>3, <3>4, FileChanges
  <2> QED  BY <2>1, <2>2
<1> QED  BY <1>1, Invariance, PTL DEF Spec, BoundWrite

\* What a power cut may leave changes with the file, and shrinks when versions
\* reach the disk.
LEMMA VersionsChange ==
  ASSUME [Next]_vars, ~Rename, ~RemoveDocument, ~PowerCut
  PROVE  safe' \in {safe, {path}}
<1> USE DEF disk
<1>1. CASE UNCHANGED vars  BY <1>1 DEF vars
<1>2. ASSUME NEW c \in Callers,
             \/ \E k \in {"note", "drop"} : Decide(c, k)
             \/ Precheck(c) \/ UpdateBound(c) \/ Tick(c) \/ Pair(c) \/ Wipe(c) \/ Sweep(c)
      PROVE  safe' = safe
  BY <1>2 DEF Decide, Precheck, UpdateBound, Tick, Pair, Wipe, Sweep
<1>3. CASE Persisting  BY <1>3 DEF Persisting, WriteTemp, SyncTemp, SyncDir, Reached, WriteFails
<1>4. CASE Sweeping \/ Exit  BY <1>4 DEF Sweeping, SweepBackup, SweepTemps, Exit
<1>5. CASE Starting
  BY <1>5 DEF Starting, Open, Backup, Copy, InferRoles, MintTLS, Reconcile, Serve
<1>6. CASE WriteBack \/ Kill  BY <1>6 DEF WriteBack, Kill
<1> QED  BY <1>1, <1>2, <1>3, <1>4, <1>5, <1>6 DEF Next

\* The store keeps the promise the other components rely on: every rename is a
\* whole next version under the same identity and key, every removal, directory
\* sync and power cut a step of Document, every other step none.
THEOREM KeepsPromise == Spec => ImplementsDocument
<1>1. Init => AsDocument!Init
  <2> SUFFICES ASSUME Init PROVE AsDocument!Init  OBVIOUS
  <2>1. CASE path = Absent  BY <2>1 DEF Init, AsDocument!Init, AsDocument!Whole, AsDocument!Absent, Absent
  <2>2. CASE path = Household(1, 0, FALSE)
    <3>1. path.v = 1  BY <2>2 DEF Household
    <3> QED  BY <3>1 DEF Init, AsDocument!Init, AsDocument!Whole
  <2>3. CASE path = Household(2, 1, TRUE)
    <3>1. path.v = 2  BY <2>3 DEF Household
    <3> QED  BY <3>1 DEF Init, AsDocument!Init, AsDocument!Whole
  <2> QED  BY <2>1, <2>2, <2>3 DEF Init
<1>2. IInv /\ [Next]_vars => [AsDocument!Next]_<<path, safe>>
  <2> SUFFICES ASSUME IInv, [Next]_vars PROVE [AsDocument!Next]_<<path, safe>>  OBVIOUS
  <2>1. AsDocument!Absent = Absent  BY DEF AsDocument!Absent, Absent
  <2>2. CASE Rename
    <3>1. path' = mem /\ safe' = safe \cup {mem} /\ Follows(mem, path)
      BY <2>2 DEF Rename, IInv, OnItsWay, Writes
    <3>2. CASE path = Absent  BY <2>1, <3>1, <3>2 DEF Follows, AsDocument!Create, AsDocument!Next
    <3>3. CASE path # Absent  BY <2>1, <3>1, <3>3 DEF Follows, AsDocument!Change, AsDocument!Next
    <3> QED  BY <3>2, <3>3
  <2>3. CASE RemoveDocument
    <3>1. \/ path' = Absent /\ safe' = safe \cup {Absent}
          \/ UNCHANGED <<path, safe>>
      BY <2>3 DEF RemoveDocument
    <3> QED  BY <2>1, <3>1 DEF AsDocument!Erase, AsDocument!Next
  <2>4. CASE PowerCut
    BY <2>4 DEF PowerCut, AsDocument!PowerLoss, AsDocument!Next
  <2>5. CASE ~Rename /\ ~RemoveDocument /\ ~PowerCut
    <3>1. path' = path /\ safe' \in {safe, {path}}  BY <2>5, FileChanges, VersionsChange
    <3> QED  BY <3>1 DEF AsDocument!Reach, AsDocument!Next
  <2> QED  BY <2>2, <2>3, <2>4, <2>5
<1> QED  BY <1>1, <1>2, Invariance, PTL DEF Spec, ImplementsDocument, AsDocument!Spec

-----------------------------------------------------------------------------
\* Up and with every directory sync done, a power cut leaves nothing but the
\* document: nothing older is still to be found.
Reliable ==
    ~unsynced /\ proc \in {"ready", "up"} /\ ~wiped /\ op.pc # "dirsync" => safe = {path}

\* While directory syncs succeed, what is acknowledged is safe.
LEMMA StepKeepsReliable == IInv /\ Reliable /\ [Next]_vars => Reliable'
<1> SUFFICES ASSUME IInv, Reliable, [Next]_vars PROVE Reliable'  OBVIOUS
<1> USE DEF disk, ghost, count, Reliable
<1>1. CASE UNCHANGED vars  BY <1>1 DEF vars
<1>2. ASSUME NEW c \in Callers,
             \/ \E k \in {"note", "drop"} : Decide(c, k)
             \/ Precheck(c) \/ UpdateBound(c) \/ Tick(c) \/ Pair(c) \/ Wipe(c) \/ Sweep(c)
      PROVE  Reliable'
  <2>1. UNCHANGED <<path, safe, proc, wiped, unsynced>> /\ (op' = op \/ MuFree)
    BY <1>2 DEF Decide, Precheck, UpdateBound, Tick, Pair, Wipe, Sweep, Update
  <2> QED  BY <2>1 DEF MuFree
<1>3. CASE WriteTemp  BY <1>3 DEF WriteTemp
<1>4. CASE SyncTemp  BY <1>4 DEF SyncTemp
<1>5. CASE Rename
  <2>1. op'.pc = "dirsync"  BY <1>5 DEF Rename, IInv, Typed, Ops, Writes
  <2> QED  BY <2>1
<1>6. CASE SyncDir
  <2>1. unsynced' \/ (path' = path /\ safe' = {path})  BY <1>6 DEF SyncDir, Reached
  <2> QED  BY <2>1
<1>7. CASE WriteFails
  <2>1. UNCHANGED <<path, safe, wiped, unsynced>> /\ op.pc \in Writes /\ Return("failed")
    BY <1>7 DEF WriteFails, Writes
  <2>2. proc' \in {proc, "down"}  BY <2>1 DEF Return
  <2>3. op.pc # "dirsync"  BY <2>1 DEF Writes
  <2> QED  BY <2>1, <2>2, <2>3
<1>8. CASE RemoveDocument
  <2>1. wiped' \/ UNCHANGED <<path, safe, wiped>>  BY <1>8 DEF RemoveDocument
  <2>2. unsynced' = unsynced /\ op.pc = "remove" /\ ~MuFree  BY <1>8 DEF RemoveDocument, MuFree
  <2>3. proc = "up"  BY <2>2 DEF IInv, Typed, ComingUp, Writes
  <2> QED  BY <2>1, <2>2, <2>3
<1>9. CASE SweepBackup
  BY <1>9 DEF SweepBackup
<1>10. CASE SweepTemps
  <2>1. UNCHANGED <<path, safe, wiped, unsynced>> /\ op.pc = "sweeptemps" /\ ~MuFree  BY <1>10 DEF SweepTemps, MuFree
  <2>2. proc = "up"  BY <2>1 DEF IInv, Typed, ComingUp, Writes
  <2> QED  BY <2>1, <2>2
<1>11. CASE Exit  BY <1>11 DEF Exit
<1>12. CASE Starting
  <2>1. CASE Serve  BY <2>1 DEF Serve
  <2>2. CASE Starting /\ ~Serve
    <3>1. proc' \notin {"ready", "up"}
      BY <2>2 DEF Starting, Open, Backup, AlreadyThere, Copy, Migrate, InferRoles, MintTLS, Reconcile
    <3> QED  BY <3>1
  <2> QED  BY <1>12, <2>1, <2>2
<1>13. CASE WriteBack  BY <1>13 DEF WriteBack
<1>14. CASE Kill \/ PowerCut  BY <1>14 DEF Kill, PowerCut, Stopped
<1> QED
  BY <1>1, <1>2, <1>3, <1>4, <1>5, <1>6, <1>7, <1>8, <1>9, <1>10, <1>11, <1>12, <1>13, <1>14
     DEF Next, Persisting, Sweeping

\* That holds in every state the program reaches.
LEMMA Reliability == Spec => []Reliable
<1>1. Init => Reliable  BY DEF Init, Reliable
<1> QED  BY <1>1, StepKeepsReliable, Invariance, PTL DEF Spec

\* What an Update has acknowledged a power cut does not take back, as long as
\* every directory sync succeeded (persistLocked: rename, then the directory).
THEOREM AcknowledgedIsDurable == Spec => []AckedSurvives
<1>1. Reliable => AckedSurvives  BY DEF Reliable, AckedSurvives, MuFree
<1> QED  BY <1>1, Reliability, PTL

-----------------------------------------------------------------------------
\* Every agent identity was minted once, and a first document gets a new one,
\* which the relay has not served under.
Agents ==
    /\ \A d \in safe : d.agent <= minted /\ (d.v # 0 => d.agent # 0)
    /\ op.pc \in Writes /\ path = Absent =>
         mem.agent = minted /\ minted # 0 /\ \A s \in served : s[1] # minted

\* The relay has a key before it serves.
HasKey == proc = "ready" \/ (proc = "persisting" /\ op.kind = "seed") => mem.tls # 0

\* No version that could be found again has another key for an identity that
\* was served.
Pinned ==
    /\ served \subseteq Nat \X Nat
    /\ \A s \in served : s[1] <= minted /\ s[1] # 0 /\ s[2] # 0
    /\ ~unsynced => \A s \in served : \A d \in safe : d.agent = s[1] => d.tls = s[2]

PinInv == Agents /\ HasKey /\ Pinned /\ PinStable

\* Steps that write no document, mint no agent and serve nothing new.
LEMMA QuietSteps ==
  ASSUME IInv, PinInv, UNCHANGED <<path, minted, served>>, safe' \in {safe, {path}},
         ~unsynced' => ~unsynced,
         op'.pc \in Writes /\ path = Absent => op.pc \in Writes /\ mem' = mem,
         HasKey'
  PROVE  PinInv'
<1>1. safe' \subseteq safe  BY DEF IInv, Typed
<1>2. Agents'  BY <1>1 DEF PinInv, Agents
<1>3. Pinned'  BY <1>1 DEF PinInv, Pinned
<1>4. PinStable'  BY DEF PinInv, PinStable
<1> QED  BY <1>2, <1>3, <1>4 DEF PinInv

\* A key that was served stays the one the disk holds.
LEMMA StepKeepsPins == IInv /\ IInv' /\ Reliable /\ PinInv /\ [Next]_vars => PinInv'
<1> SUFFICES ASSUME IInv, IInv', Reliable, PinInv, [Next]_vars PROVE PinInv'  OBVIOUS
<1> USE DEF disk, ghost, count
<1>0. /\ op \in Ops /\ op' \in Ops /\ path \in Doc /\ mem \in Doc /\ path \in safe /\ minted \in Nat
      /\ safe \subseteq Doc /\ (path.v = 0 => path = Absent)
  BY DEF IInv, Typed
<1>1. CASE UNCHANGED vars  BY <1>1 DEF vars, PinInv, Agents, HasKey, Pinned, PinStable
<1>2. ASSUME NEW c \in Callers,
             \/ \E k \in {"note", "drop"} : Decide(c, k)
             \/ Precheck(c) \/ UpdateBound(c) \/ Tick(c) \/ Pair(c) \/ Wipe(c) \/ Sweep(c)
      PROVE  PinInv'
  <2>1. UNCHANGED <<path, safe, proc, minted, served, unsynced>> /\ proc = "up"
    BY <1>2 DEF Decide, Precheck, UpdateBound, Tick, Pair, Wipe, Sweep, Update, IInv, Running
  <2>2. ~(op'.pc \in Writes /\ path' = Absent)  BY <2>1 DEF IInv, Running, Absent
  <2>3. HasKey'  BY <2>1 DEF HasKey
  <2> QED  BY <2>1, <2>2, <2>3, QuietSteps
<1>3. CASE WriteTemp \/ SyncTemp
  <2>1. /\ UNCHANGED <<path, safe, proc, mem, minted, served, unsynced>> /\ op.pc \in Writes
        /\ op' = [op EXCEPT !.pc = "sync"] \/ op' = [op EXCEPT !.pc = "rename", !.synced = TRUE]
    BY <1>3 DEF WriteTemp, SyncTemp, AfterWrite, Writes
  <2>2. op'.kind = op.kind  BY <1>0, <2>1 DEF Ops
  <2>3. HasKey'  BY <2>1, <2>2 DEF PinInv, HasKey
  <2> QED  BY <2>1, <2>3, QuietSteps
<1>4. CASE SyncDir
  <2>1. /\ UNCHANGED <<path, mem, minted, served>> /\ safe' \in {safe, {path}} /\ (~unsynced' => ~unsynced)
        /\ ~MuFree
    BY <1>4 DEF SyncDir, Reached, MuFree
  <2> DEFINE then == IF op.kind = "drop" THEN "sweep" ELSE "done"
  <2>2. Return(then)  BY <1>4 DEF SyncDir
  <2> HIDE DEF then
  <2>3. op' = Free /\ Free.pc = "free" /\ Free.pc \notin Writes  BY <2>1, <2>2, ReturnKeeps DEF Writes
  <2>4. HasKey'
    <3>1. proc' = "persisting" => op' = Free  BY <2>3
    <3>2. proc' = "ready" => op.by = Opener /\ op.kind = "seed" /\ proc = "persisting"
      BY <1>0, <2>1, <2>2, ReturnKeeps DEF Ops
    <3>3. Free.kind # "seed"  BY DEF Free
    <3> QED  BY <2>1, <3>1, <3>2, <3>3 DEF PinInv, HasKey
  <2> QED  BY <2>1, <2>3, <2>4, QuietSteps
<1>5. CASE WriteFails
  <2>1. UNCHANGED <<path, safe, minted, served, unsynced>> /\ ~MuFree /\ Return("failed")
    BY <1>5 DEF WriteFails, MuFree
  <2>2. op' = Free /\ Free.pc = "free" /\ Free.pc \notin Writes /\ proc' \in {"up", "down"}
    BY <1>0, <2>1, ReturnKeeps DEF Ops, Writes
  <2>3. HasKey'  BY <2>2 DEF HasKey
  <2> QED  BY <2>1, <2>2, <2>3, QuietSteps
<1>6. CASE Rename
  <2>1. /\ path' = mem /\ safe' = safe \cup {mem} /\ UNCHANGED <<mem, proc, minted, served, unsynced>>
        /\ op' = [op EXCEPT !.pc = "dirsync"] /\ op.pc \in Writes
    BY <1>6 DEF Rename, IInv, OnItsWay, Writes
  <2>2. op'.kind = op.kind /\ op'.pc \notin Writes  BY <1>0, <2>1 DEF Ops, Writes
  <2>3. Follows(mem, path)  BY <2>1 DEF IInv, OnItsWay
  <2>4. CASE path = Absent
    <3>1. mem.agent = minted /\ minted # 0 /\ \A s \in served : s[1] # minted
      BY <2>1, <2>4 DEF PinInv, Agents
    <3>2. Agents'  BY <1>0, <2>1, <2>2, <3>1 DEF PinInv, Agents, Doc
    <3>3. Pinned'  BY <2>1, <3>1 DEF PinInv, Pinned
    <3> QED  BY <2>1, <2>2, <3>2, <3>3 DEF PinInv, HasKey, PinStable
  <2>5. CASE path # Absent
    <3>1. mem.agent = path.agent /\ (path.tls # 0 => mem.tls = path.tls) /\ path.v # 0
      BY <1>0, <2>3, <2>5 DEF Follows
    <3>2. Agents'  BY <1>0, <2>1, <2>2, <3>1 DEF PinInv, Agents
    <3>3. Pinned'  BY <1>0, <2>1, <3>1 DEF PinInv, Pinned
    <3> QED  BY <2>1, <2>2, <3>2, <3>3 DEF PinInv, HasKey, PinStable
  <2> QED  BY <2>4, <2>5
<1>7. CASE RemoveDocument
  <2>1. Absent.agent = 0 /\ Absent.v = 0  BY DEF Absent
  <2>2. /\ UNCHANGED <<mem, minted, served, unsynced>> /\ safe' \subseteq safe \cup {Absent} /\ ~MuFree
        /\ op.pc = "remove" /\ (proc' = proc \/ Return("failed"))
    BY <1>0, <1>7 DEF RemoveDocument, MuFree, Ops, Writes, Return, Free
  <2>3. op'.pc \notin Writes  BY <1>0, <1>7 DEF RemoveDocument, Ops, Writes, Return, Free
  <2>4. proc' # "persisting" /\ proc' # "ready"
    <3>1. proc = "up"  BY <2>2 DEF IInv, Typed, ComingUp, Writes
    <3> QED  BY <2>2, <3>1, ReturnKeeps DEF IInv, Running
  <2>5. Agents'  BY <1>0, <2>1, <2>2, <2>3 DEF PinInv, Agents
  <2>6. Pinned'  BY <2>1, <2>2 DEF PinInv, Pinned
  <2> QED  BY <2>2, <2>4, <2>5, <2>6 DEF PinInv, HasKey, PinStable
<1>8. CASE SweepBackup \/ SweepTemps
  <2>1. /\ UNCHANGED <<path, safe, mem, minted, served, unsynced>> /\ ~MuFree /\ op.pc \in {"sweepbak", "sweeptemps"}
        /\ op'.pc \notin Writes
    BY <1>0, <1>8 DEF SweepBackup, SweepTemps, MuFree, Ops, Writes, Return, Free
  <2>2. proc = "up"  BY <2>1 DEF IInv, Typed, ComingUp, Writes
  <2>3. proc' = "up"  BY <1>8, <2>1, <2>2, ReturnKeeps DEF SweepBackup, SweepTemps, IInv, Running
  <2>4. HasKey'  BY <2>3 DEF HasKey
  <2> QED  BY <2>1, <2>4, QuietSteps
<1>9. CASE Exit \/ WriteBack
  <2>1. /\ UNCHANGED <<path, mem, op, minted, served, unsynced>> /\ safe' \in {safe, {path}}
        /\ proc' \in {proc, "down"}
    BY <1>9 DEF Exit, WriteBack
  <2>2. HasKey'  BY <2>1 DEF PinInv, HasKey
  <2> QED  BY <2>1, <2>2, QuietSteps
<1>10. CASE Kill
  <2>1. UNCHANGED <<path, safe, minted, served, unsynced>> /\ proc' = "down" /\ op' = Free  BY <1>10 DEF Kill, Stopped
  <2>2. op'.pc \notin Writes  BY <2>1 DEF Free, Writes
  <2>3. HasKey'  BY <2>1 DEF HasKey
  <2> QED  BY <2>1, <2>2, <2>3, QuietSteps
<1>11. CASE PowerCut
  <2>1. UNCHANGED <<minted, served, unsynced>> /\ safe' \subseteq safe /\ proc' = "down" /\ op' = Free
    BY <1>11 DEF PowerCut, Stopped
  <2>2. op'.pc \notin Writes  BY <2>1 DEF Free, Writes
  <2>3. Agents'  BY <2>1, <2>2 DEF PinInv, Agents
  <2>4. Pinned'  BY <2>1 DEF PinInv, Pinned
  <2> QED  BY <2>1, <2>3, <2>4 DEF PinInv, HasKey, PinStable
<1>12. CASE Open
  <2>1. proc = "down" /\ UNCHANGED <<path, safe, served, unsynced>>  BY <1>12 DEF Open
  <2>2. CASE path.v = 0
    <3>1. minted' = minted + 1 /\ mem' = Fresh(minted + 1) /\ op'.kind = "open" /\ proc' = "persisting"
      BY <1>12, <2>2 DEF Open, Writing
    <3>2. mem'.agent = minted'  BY <3>1 DEF Fresh
    <3>3. Agents'
      <4>1. \A d \in safe : d.agent <= minted'  BY <1>0, <3>1 DEF PinInv, Agents, Doc
      <4>2. \A s \in served : s[1] # minted'  BY <1>0, <3>1 DEF PinInv, Pinned
      <4>3. minted' # 0  BY <1>0, <3>1
      <4> QED  BY <2>1, <3>2, <4>1, <4>2, <4>3 DEF PinInv, Agents
    <3>4. Pinned'  BY <1>0, <2>1, <3>1 DEF PinInv, Pinned
    <3>5. HasKey'  BY <3>1 DEF HasKey
    <3> QED  BY <2>1, <3>3, <3>4, <3>5 DEF PinInv, PinStable
  <2>3. CASE path.v # 0
    <3>1. UNCHANGED <<op, minted>> /\ proc' \in {"backup", "read"}  BY <1>12, <2>3 DEF Open
    <3>2. path # Absent  BY <2>3 DEF Absent
    <3>3. HasKey'  BY <3>1 DEF HasKey
    <3> QED  BY <2>1, <3>1, <3>2, <3>3, QuietSteps
  <2> QED  BY <2>2, <2>3
<1>13. CASE Backup \/ Copy \/ InferRoles \/ MintTLS
  <2>1. /\ UNCHANGED <<path, safe, minted, served, unsynced>> /\ proc \in {"backup", "copying", "read"}
        /\ proc' # "ready" /\ (proc' = "persisting" => op'.kind = "open")
    BY <1>13 DEF Backup, AlreadyThere, Copy, Migrate, InferRoles, MintTLS, NewlyServed, Writing
  <2>2. path # Absent  BY <2>1 DEF IInv, ComingUp, Absent
  <2>3. HasKey'  BY <2>1 DEF HasKey
  <2> QED  BY <2>1, <2>2, <2>3, QuietSteps
<1>14. CASE Reconcile
  <2>1. UNCHANGED <<path, safe, minted, served, unsynced>> /\ proc = "read" /\ mem' = mem /\ mem.tls # 0
    BY <1>14 DEF Reconcile, Writing
  <2>2. path # Absent  BY <2>1 DEF IInv, ComingUp, Absent
  <2>3. HasKey'  BY <2>1 DEF HasKey
  <2> QED  BY <2>1, <2>2, <2>3, QuietSteps
<1>15. CASE Serve
  <2>1. /\ UNCHANGED <<path, safe, mem, op, minted, unsynced>> /\ proc = "ready" /\ proc' = "up"
        /\ served' = served \cup {<<mem.agent, mem.tls>>}
    BY <1>15 DEF Serve
  <2>2. mem = path /\ path.v = 2 /\ ~wiped /\ MuFree /\ mem.tls # 0
    BY <2>1 DEF IInv, ComingUp, PinInv, HasKey
  <2>3. mem.agent \in Nat /\ mem.tls \in Nat /\ mem.agent <= minted /\ mem.agent # 0
    BY <1>0, <2>2 DEF Doc, PinInv, Agents
  <2>4. ~unsynced => safe = {path}  BY <2>1, <2>2 DEF Reliable, MuFree
  <2>5. Agents'  BY <2>1, <2>2 DEF PinInv, Agents, MuFree, Writes
  <2>6. Pinned'  BY <2>1, <2>2, <2>3, <2>4 DEF PinInv, Pinned
  <2>7. PinStable'
    <3>1. ~unsynced => \A s \in served : s[1] = mem.agent => s = <<mem.agent, mem.tls>>
      BY <1>0, <2>2 DEF PinInv, Pinned
    <3> QED  BY <2>1, <3>1 DEF PinInv, PinStable
  <2> QED  BY <2>1, <2>5, <2>6, <2>7 DEF PinInv, HasKey
<1> QED
  BY <1>1, <1>2, <1>3, <1>4, <1>5, <1>6, <1>7, <1>8, <1>9, <1>10, <1>11, <1>12, <1>13, <1>14, <1>15
     DEF Next, Persisting, Sweeping, Starting

\* Phones pin one key per agent identity (ensureBootTLS persists before anything
\* serves): however often the agent starts and whatever cuts it short, it never
\* serves two under one identity while directory syncs succeed.
THEOREM OneKeyPerIdentity == Spec => []PinStable
<1>1. Init => PinInv
  <2> SUFFICES ASSUME Init PROVE PinInv  OBVIOUS
  <2>1. served = {} /\ op = Free /\ Free.pc = "free" /\ proc = "down" /\ safe = {path} /\ minted = path.agent
    BY DEF Init, Free
  <2>2. path \in Doc  BY InitInv DEF IInv, Typed
  <2>3. path.v # 0 => path.agent # 0
    <3>1. CASE path = Absent  BY <3>1 DEF Absent
    <3>2. CASE path # Absent  BY <3>2 DEF Init, Household
    <3> QED  BY <3>1, <3>2
  <2> QED  BY <2>1, <2>2, <2>3 DEF PinInv, Agents, HasKey, Pinned, PinStable, Doc, Writes
<1>2. PinInv => PinStable  BY DEF PinInv
<1> QED  BY <1>1, <1>2, StepKeepsPins, Invariance, Reliability, PTL DEF Spec

-----------------------------------------------------------------------------
(* What is left of a household that was swept.                             *)

\* Every identity anything knows was handed out: one that is still to come
\* belongs to no household that was swept.
AnyDoc == [v : 0..3, agent : Nat, tls : Nat, token : Nat, n : {0, 1}, roles : BOOLEAN]
Removed == [bak : SUBSET AnyDoc, temps : SUBSET Nat]
HandedOut ==
    /\ \A d \in safe : d.token <= tokens
    /\ mem.token <= tokens /\ op.prev.token <= tokens /\ op.want <= tokens
    /\ \A c \in Callers : call[c].want <= tokens
    /\ clean \subseteq 0..tokens
    /\ bak \in AnyDoc /\ temps \subseteq Nat /\ gone \in Removed /\ faults \in Nat

Other(d, want) == want = 0 \/ d.token # want

\* Neither the document nor what is about to replace it belongs to a household
\* that was swept, or whose sweep is due or under way: a drop has persisted
\* the document without it first.
SweptIsGone ==
    /\ path.token \notin clean \ {0}
    /\ op.pc \in Writes => mem.token \notin clean \ {0}
    /\ op.kind = "drop" /\ op.pc \in Writes \cup {"dirsync"} => mem.token = 0
    /\ op.pc \in {"sweepbak", "sweeptemps"} =>
          IF op.kind = "wipe" THEN path.token = 0 ELSE Other(path, op.want)
    /\ \A c \in Callers : call[c].pc = "sweep" =>
          Other(path, call[c].want) /\ (op.pc \in Writes => Other(mem, call[c].want))

StrayInv == HandedOut /\ SweptIsGone /\ NoStrayCopy

LEMMA TornKeepsToken == \A d \in Doc \cup AnyDoc : Torn(d) \in AnyDoc /\ Torn(d).token = d.token
BY DEF Torn, Doc, AnyDoc

\* A write that begins takes the document's own identity, a new one, or none.
LEMMA WriteKeepsStray ==
  ASSUME IInv, IInv', StrayInv, MuFree, op'.pc = "write", op'.want <= tokens', op'.prev.token <= tokens',
         mem'.token \in {0, path.token} \/ (mem'.token = tokens + 1 /\ tokens' = tokens + 1),
         op'.kind = "drop" => mem'.token = 0,
         tokens' \in {tokens, tokens + 1},
         UNCHANGED <<path, safe, temps, gone, call, clean, faults>>, bak' \in {bak, path}
  PROVE  StrayInv'
<1>1. /\ tokens \in Nat /\ path \in Doc /\ path \in safe /\ path.token \in Nat /\ call \in [Callers -> Calls]
      /\ \A c \in Callers : call[c].want \in Nat
  BY DEF IInv, Typed, Doc, Calls
<1>2. /\ path.token <= tokens /\ clean \subseteq 0..tokens /\ path.token \notin clean \ {0}
      /\ \A c \in Callers : call[c].want <= tokens
      /\ \A c \in Callers : call[c].pc = "sweep" => Other(path, call[c].want)
  BY <1>1 DEF StrayInv, HandedOut, SweptIsGone
<1>3. tokens + 1 \notin clean /\ \A c \in Callers : call[c].want # tokens + 1  BY <1>1, <1>2
<1>4. bak' \in AnyDoc  BY <1>1 DEF StrayInv, HandedOut, Doc, AnyDoc
<1>5. HandedOut'
  <2>1. \A d \in safe : d.token \in Nat  BY DEF IInv, Typed, Doc
  <2>2. \A d \in safe : d.token <= tokens'  BY <1>1, <2>1 DEF StrayInv, HandedOut
  <2>3. mem'.token <= tokens'  BY <1>1, <1>2
  <2>4. \A c \in Callers : call[c].want <= tokens'  BY <1>1, <1>2
  <2>5. clean \subseteq 0..tokens'  BY <1>1, <1>2
  <2> QED  BY <1>4, <2>2, <2>3, <2>4, <2>5 DEF StrayInv, HandedOut
<1>6. mem'.token \notin clean \ {0}  BY <1>2, <1>3
<1>7. \A c \in Callers : call[c].pc = "sweep" => Other(mem', call[c].want)  BY <1>2, <1>3 DEF Other
<1>8. SweptIsGone'  BY <1>2, <1>6, <1>7 DEF SweptIsGone
<1>9. NoStrayCopy'  BY <1>2 DEF StrayInv, NoStrayCopy
<1> QED  BY <1>5, <1>8, <1>9 DEF StrayInv

\* A step that leaves every copy as it is, and the mutex free.
LEMMA FreeKeepsStray ==
  ASSUME IInv, StrayInv, op'.pc = "free", op'.want <= tokens, op'.prev.token <= tokens, mem'.token <= tokens,
         UNCHANGED <<path, tokens>>, safe' \subseteq safe, bak' \in {bak, path, Torn(path), Torn(bak), Absent},
         clean' \subseteq clean, faults' \in Nat,
         \A t \in temps' : t \in temps \/ (op.pc \in Writes /\ t = mem.token), gone' \in Removed,
         \A c \in Callers : /\ call'[c].want <= tokens
                            /\ call'[c].pc = "sweep" => Other(path, call'[c].want)
  PROVE  StrayInv'
<1>1. /\ bak \in AnyDoc /\ path \in Doc /\ mem \in Doc /\ Absent \in AnyDoc /\ Absent.token = 0 /\ Doc \subseteq AnyDoc
      /\ path.token \notin clean \ {0}
  BY DEF StrayInv, HandedOut, SweptIsGone, IInv, Typed, Absent, AnyDoc, Doc
<1>2. bak' \in AnyDoc /\ bak'.token \notin clean \ {0}
  BY <1>1, TornKeepsToken DEF StrayInv, NoStrayCopy
<1>3. HandedOut'  BY <1>1, <1>2 DEF StrayInv, HandedOut, Doc
<1>4. SweptIsGone'  BY <1>1 DEF SweptIsGone, Writes
<1>5. \A t \in temps' : t \notin clean \ {0}
  BY DEF StrayInv, NoStrayCopy, SweptIsGone
<1>6. NoStrayCopy'  BY <1>2, <1>5 DEF NoStrayCopy
<1> QED  BY <1>3, <1>4, <1>6 DEF StrayInv

\* The callers' steps.
LEMMA CallersKeepStray ==
  ASSUME IInv, IInv', StrayInv, NEW c \in Callers,
         \/ \E k \in {"note", "drop"} : Decide(c, k)
         \/ Precheck(c) \/ UpdateBound(c) \/ Tick(c) \/ Pair(c) \/ Wipe(c) \/ Sweep(c)
  PROVE  StrayInv'
<1> USE DEF disk, ghost, count
<1>0. /\ op \in Ops /\ mem \in Doc /\ path \in Doc /\ path \in safe /\ tokens \in Nat /\ call \in [Callers -> Calls]
      /\ mem.token \in Nat /\ Absent.token = 0 /\ op.prev.token <= tokens /\ op.want <= tokens
      /\ mem.token <= tokens /\ faults \in Nat /\ gone \in Removed
  BY DEF IInv, Typed, Doc, Absent, StrayInv, HandedOut
<1>1. \A d \in Callers : call[d].want <= tokens /\ (call[d].pc = "sweep" => Other(path, call[d].want))
  BY DEF StrayInv, HandedOut, SweptIsGone
<1>2. CASE (\E k \in {"note", "drop"} : Decide(c, k)) \/ Precheck(c)
  <2>1. /\ MuFree /\ UNCHANGED <<disk, mem, op, tokens, clean, faults>>
        /\ \/ \E k : call' = [call EXCEPT ![c] = [pc |-> "decided", kind |-> k, want |-> mem.token]]
           \/ call' = [call EXCEPT ![c] = [@ EXCEPT !.pc = "checked"]]
           \/ call' = [call EXCEPT ![c] = Idle]
    BY <1>2 DEF Decide, Precheck
  <2>2. [call[c] EXCEPT !.pc = "checked"].pc = "checked" /\ [call[c] EXCEPT !.pc = "checked"].want = call[c].want
        /\ Idle.pc = "idle" /\ Idle.want = 0 /\ 0 <= tokens
    BY <1>0 DEF Calls, Idle
  <2>3. call'[c].want <= tokens /\ call'[c].pc # "sweep" /\ \A d \in Callers : d # c => call'[d] = call[d]
    <3>1. call[c].want <= tokens  BY <1>1
    <3>2. CASE \E k : call' = [call EXCEPT ![c] = [pc |-> "decided", kind |-> k, want |-> mem.token]]
      BY <1>0, <3>2
    <3>3. CASE call' = [call EXCEPT ![c] = [@ EXCEPT !.pc = "checked"]]
      <4>1. call'[c] = [call[c] EXCEPT !.pc = "checked"]  BY <1>0, <3>3
      <4> QED  BY <1>0, <2>2, <3>1, <3>3, <4>1
    <3>4. CASE call' = [call EXCEPT ![c] = Idle]  BY <1>0, <2>2, <3>4
    <3> QED  BY <2>1, <3>2, <3>3, <3>4
  <2>4. \A d \in Callers : call'[d].want <= tokens /\ (call'[d].pc = "sweep" => Other(path, call'[d].want))
    BY <1>1, <2>3
  <2> QED  BY <1>0, <2>1, <2>4, FreeKeepsStray DEF MuFree
<1>3. ASSUME NEW k \in {"note", "drop", "pair", "tick"}, NEW want \in Nat, want <= tokens, proc = "up", Update(c, k, want),
             UNCHANGED <<disk, call, clean, faults>>,
             tokens' = IF k = "pair" THEN tokens + 1 ELSE tokens
      PROVE  StrayInv'
  <2> DEFINE next == [(IF Applies(k, want) THEN Changed(k) ELSE mem) EXCEPT !.v = 2]
             kind == IF Applies(k, want) THEN k ELSE "stale"
  <2>1. /\ MuFree /\ ~wiped /\ mem' = next
        /\ op' = [pc |-> "write", by |-> c, kind |-> kind, want |-> want, prev |-> mem, synced |-> FALSE]
    BY <1>3 DEF Update, Writable, Writing
  <2>2. mem = path  BY <1>3, <2>1 DEF IInv, Running, MuFree, Writes
  <2>3. /\ Applies("pair", want)
        /\ Changed("pair") = [mem EXCEPT !.token = tokens + 1, !.n = 0]
        /\ Changed("drop") = [mem EXCEPT !.token = 0, !.n = 0]
        /\ k \in {"note", "tick"} => Changed(k) = [mem EXCEPT !.n = 1]
    BY DEF Applies, Changed
  <2>4. /\ k = "pair" => next.token = tokens + 1
        /\ kind = "drop" => next.token = 0
        /\ next.token \in {0, path.token} \/ (k = "pair" /\ next.token = tokens + 1)
    BY <1>0, <2>2, <2>3 DEF Doc
  <2> HIDE DEF next
  <2>5. want <= tokens' /\ mem.token <= tokens'  BY <1>0, <1>3
  <2> QED  BY <1>3, <2>1, <2>4, <2>5, WriteKeepsStray
<1>4. CASE UpdateBound(c)
  <2>1. call[c] \in Calls /\ call[c].want \in Nat /\ call[c].want <= tokens /\ call[c].kind \in {"note", "drop"} /\ proc = "up"
        /\ UNCHANGED <<disk, tokens, clean, faults>>
    BY <1>0, <1>1, <1>4 DEF UpdateBound, Calls, IInv, Running
  <2>2. CASE Update(c, call[c].kind, call[c].want) /\ UNCHANGED call  BY <1>3, <2>1, <2>2
  <2>3. CASE MuFree /\ call' = [call EXCEPT ![c] = Idle] /\ UNCHANGED <<op, mem>>
    <3>1. \A d \in Callers : call'[d].want <= tokens /\ (call'[d].pc = "sweep" => Other(path, call'[d].want))
      BY <1>0, <1>1, <2>3 DEF Idle
    <3> QED  BY <1>0, <2>1, <2>3, <3>1, FreeKeepsStray DEF MuFree
  <2> QED  BY <1>4, <2>2, <2>3 DEF UpdateBound
<1>5. CASE Tick(c)  BY <1>0, <1>3, <1>5 DEF Tick
<1>6. CASE Pair(c)  BY <1>0, <1>3, <1>6 DEF Pair
<1>7. CASE Wipe(c)
  <2>1. /\ op'.pc = "remove" /\ op'.want = 0 /\ op'.prev.token = 0
        /\ UNCHANGED <<path, safe, bak, temps, gone, mem, call, tokens, clean, faults>>
    BY <1>7 DEF Wipe, Free, Absent
  <2>2. HandedOut'  BY <1>0, <2>1 DEF StrayInv, HandedOut
  <2> QED  BY <2>1, <2>2 DEF StrayInv, SweptIsGone, NoStrayCopy, Writes
<1>8. CASE Sweep(c)
  <2>1. /\ op'.pc = "sweepbak" /\ op'.kind = "drop" /\ op'.want = call[c].want /\ op'.prev.token = 0
        /\ call[c].pc = "sweep" /\ UNCHANGED <<path, safe, bak, temps, gone, mem, call, tokens, clean, faults>>
    BY <1>8 DEF Sweep, Free, Absent
  <2>2. HandedOut'  BY <1>0, <1>1, <2>1 DEF StrayInv, HandedOut
  <2>3. SweptIsGone'  BY <1>1, <2>1 DEF StrayInv, SweptIsGone, Writes
  <2> QED  BY <2>1, <2>2, <2>3 DEF StrayInv, NoStrayCopy
<1> QED  BY <1>2, <1>4, <1>5, <1>6, <1>7, <1>8

\* What the disk may still hold after its removal stays a record of copies.
LEMMA RemovedIsTyped ==
  ASSUME IInv, HandedOut, Rename \/ SyncDir \/ WriteFails \/ SweepBackup \/ SweepTemps
  PROVE  gone' \in Removed
<1>1. gone \in Removed /\ Leftover \subseteq Nat /\ bak \in AnyDoc /\ temps \subseteq Nat
  BY DEF HandedOut, Leftover, IInv, Typed, Doc
<1>2. gone.temps \in SUBSET Nat /\ gone.bak \in SUBSET AnyDoc  BY <1>1 DEF Removed
<1>3. \/ UNCHANGED gone \/ gone' = AllReached
      \/ \E lost \in SUBSET Nat : gone' = [gone EXCEPT !.temps = @ \cup lost]
      \/ \E lost \in SUBSET AnyDoc : gone' = [gone EXCEPT !.bak = @ \cup lost]
  <2>1. CASE Rename \/ WriteFails  BY <1>1, <2>1 DEF Rename, WriteFails
  <2>2. CASE SyncDir  BY <2>2 DEF SyncDir
  <2>3. CASE SweepBackup
    <3>1. {bak} \ {Absent} \in SUBSET AnyDoc  BY <1>1
    <3> QED  BY <2>3, <3>1 DEF SweepBackup
  <2>4. CASE SweepTemps
    <3>1. temps \ temps' \in SUBSET Nat  BY <1>1
    <3> QED  BY <2>4, <3>1 DEF SweepTemps
  <2> QED  BY <2>1, <2>2, <2>3, <2>4
<1> QED  BY <1>1, <1>2, <1>3 DEF Removed, AllReached

\* persistLocked: the rename puts what is on its way into the document's place,
\* and a drop whose directory sync is over has the sweep due.
LEMMA PersistingKeepsStray ==
  ASSUME IInv, StrayInv, Persisting
  PROVE  StrayInv'
<1> USE DEF disk, ghost, count
<1>0. /\ op \in Ops /\ mem \in Doc /\ path \in Doc /\ path \in safe /\ tokens \in Nat /\ call \in [Callers -> Calls]
      /\ mem.token \in Nat /\ Absent.token = 0 /\ op.prev.token <= tokens /\ op.want <= tokens
      /\ mem.token <= tokens /\ faults \in Nat /\ faults + 1 \in Nat /\ 0 <= tokens /\ gone \in Removed
  BY DEF IInv, Typed, Doc, Absent, StrayInv, HandedOut
<1>1. \A d \in Callers : call[d].want <= tokens /\ (call[d].pc = "sweep" => Other(path, call[d].want))
  BY DEF StrayInv, HandedOut, SweptIsGone
<1>2. CASE WriteTemp \/ SyncTemp
  <2>1. /\ UNCHANGED <<path, safe, bak, temps, gone, mem, call, tokens, clean, faults>> /\ op.pc \in Writes
        /\ op' = [op EXCEPT !.pc = "sync"] \/ op' = [op EXCEPT !.pc = "rename", !.synced = TRUE]
    BY <1>2 DEF WriteTemp, SyncTemp, AfterWrite, Writes
  <2>2. op'.pc \in Writes /\ op'.kind = op.kind /\ op'.want = op.want /\ op'.prev = op.prev
    BY <1>0, <2>1 DEF Ops, Writes
  <2>3. HandedOut'  BY <2>1, <2>2 DEF StrayInv, HandedOut
  <2>4. SweptIsGone'  BY <2>1, <2>2 DEF StrayInv, SweptIsGone, Writes
  <2> QED  BY <2>1, <2>3, <2>4 DEF StrayInv, NoStrayCopy
<1>3. CASE Rename
  <2>1. /\ op.pc = "rename" /\ op.synced /\ path' = mem /\ safe' = safe \cup {mem}
        /\ op' = [op EXCEPT !.pc = "dirsync"] /\ UNCHANGED <<bak, temps, mem, call, tokens, clean, faults>>
        /\ gone' \in Removed
    BY <1>3, RemovedIsTyped DEF Rename, IInv, OnItsWay, StrayInv
  <2>2. op'.pc = "dirsync" /\ op'.kind = op.kind /\ op'.want = op.want /\ op'.prev = op.prev
    BY <1>0, <2>1 DEF Ops
  <2>3. HandedOut'  BY <2>1, <2>2 DEF StrayInv, HandedOut
  <2>4. SweptIsGone'  BY <2>1, <2>2 DEF StrayInv, SweptIsGone, Writes
  <2> QED  BY <2>1, <2>3, <2>4 DEF StrayInv, NoStrayCopy
<1>4. ASSUME NEW then, Return(then), ~MuFree, op.by \in Callers => then # "sweep" \/ Other(path, op.want)
      PROVE  /\ op'.pc = "free" /\ op'.want <= tokens /\ op'.prev.token <= tokens
             /\ \A d \in Callers : call'[d].want <= tokens /\ (call'[d].pc = "sweep" => Other(path, call'[d].want))
  <2>1. op' = Free /\ Free.pc = "free" /\ Free.want = 0 /\ Free.prev.token = 0  BY <1>4 DEF Return, Free, Absent
  <2>2. CASE op.by = Opener  BY <1>0, <1>1, <1>4, <2>1, <2>2 DEF Return
  <2>3. CASE op.by # Opener
    <3>1. op.by \in Callers  BY <1>0, <2>3 DEF Ops
    <3>2. call' = [call EXCEPT ![op.by] =
                     IF then = "sweep" THEN [pc |-> "sweep", kind |-> "drop", want |-> op.want] ELSE Idle]
      BY <1>4, <2>3 DEF Return
    <3>3. /\ \A d \in Callers : d # op.by => call'[d] = call[d]
          /\ call'[op.by] = IF then = "sweep" THEN [pc |-> "sweep", kind |-> "drop", want |-> op.want] ELSE Idle
      BY <1>0, <3>1, <3>2
    <3>4. call'[op.by].want <= tokens /\ (call'[op.by].pc = "sweep" => Other(path, call'[op.by].want))
      BY <1>0, <1>4, <3>1, <3>3 DEF Idle
    <3> QED  BY <1>0, <1>1, <2>1, <3>3, <3>4
  <2> QED  BY <2>2, <2>3
<1>5. CASE SyncDir
  <2> DEFINE then == IF op.kind = "drop" THEN "sweep" ELSE "done"
  <2>1. /\ UNCHANGED <<path, bak, temps, mem, tokens, clean>> /\ safe' \subseteq safe /\ faults' \in Nat
        /\ op.pc = "dirsync" /\ ~MuFree /\ Return(then) /\ gone' \in Removed
    BY <1>0, <1>5, RemovedIsTyped DEF StrayInv, SyncDir, Reached, MuFree, Fault, NoFault
  <2>2. then = "sweep" => Other(path, op.want)
    BY <2>1 DEF StrayInv, SweptIsGone, Other, IInv, OnItsWay
  <2> HIDE DEF then
  <2>3. /\ op'.pc = "free" /\ op'.want <= tokens /\ op'.prev.token <= tokens
        /\ \A d \in Callers : call'[d].want <= tokens /\ (call'[d].pc = "sweep" => Other(path, call'[d].want))
    BY <1>4, <2>1, <2>2
  <2> QED  BY <1>0, <2>1, <2>3, FreeKeepsStray
<1>6. CASE WriteFails
  <2>1. /\ UNCHANGED <<path, safe, bak, tokens, clean>> /\ faults' \in Nat /\ mem' = op.prev
        /\ op.pc \in Writes /\ ~MuFree /\ Return("failed") /\ temps' \subseteq temps \cup Leftover
        /\ gone' \in Removed
    BY <1>0, <1>6, RemovedIsTyped DEF StrayInv, WriteFails, RolledBack, MuFree, Fault, Writes
  <2>2. /\ op'.pc = "free" /\ op'.want <= tokens /\ op'.prev.token <= tokens
        /\ \A d \in Callers : call'[d].want <= tokens /\ (call'[d].pc = "sweep" => Other(path, call'[d].want))
    BY <1>4, <2>1
  <2>3. Leftover \subseteq {mem.token}  BY DEF Leftover
  <2> QED  BY <1>0, <2>1, <2>2, <2>3, FreeKeepsStray
<1> QED  BY <1>2, <1>3, <1>5, <1>6 DEF Persisting

\* Wipe and the sweeps: a household counts as swept when nothing failed, and
\* then nothing of it is there.
LEMMA SweepingKeepsStray ==
  ASSUME IInv, StrayInv, Sweeping
  PROVE  StrayInv'
<1> USE DEF disk, ghost, count
<1>0. /\ op \in Ops /\ mem \in Doc /\ path \in Doc /\ path \in safe /\ tokens \in Nat /\ call \in [Callers -> Calls]
      /\ path.token \in Nat /\ Absent.token = 0 /\ Absent \in AnyDoc /\ op.prev.token <= tokens /\ op.want <= tokens
      /\ op.want \in Nat /\ mem.token <= tokens /\ faults \in Nat /\ faults + 1 \in Nat /\ faults + 1 # faults /\ 0 <= tokens
      /\ gone \in Removed
  BY DEF IInv, Typed, Doc, AnyDoc, Absent, Ops, StrayInv, HandedOut
<1>1. \A d \in Callers : call[d].want <= tokens /\ (call[d].pc = "sweep" => Other(path, call[d].want))
  BY DEF StrayInv, HandedOut, SweptIsGone
<1>2. ASSUME NEW then, Return(then), then # "sweep"
      PROVE  /\ op'.pc = "free" /\ op'.want <= tokens /\ op'.prev.token <= tokens
             /\ \A d \in Callers : call'[d].want <= tokens /\ (call'[d].pc = "sweep" => Other(path, call'[d].want))
  <2>1. op' = Free /\ Free.pc = "free" /\ Free.want = 0 /\ Free.prev.token = 0  BY <1>2 DEF Return, Free, Absent
  <2>2. call' = call \/ call' = [call EXCEPT ![op.by] = Idle]  BY <1>2 DEF Return
  <2>3. Idle.pc = "idle" /\ Idle.want = 0  BY DEF Idle
  <2> QED  BY <1>0, <1>1, <2>1, <2>2, <2>3
<1>3. CASE RemoveDocument
  <2>1. UNCHANGED <<bak, temps, gone, mem, tokens, clean>> /\ op.pc = "remove"  BY <1>3 DEF RemoveDocument
  <2>2. CASE path' = Absent /\ safe' = safe \cup {Absent} /\ op' = [op EXCEPT !.pc = "sweepbak"] /\ UNCHANGED <<call, faults>>
    <3>1. op'.pc = "sweepbak" /\ op'.want = op.want /\ op'.prev = op.prev  BY <1>0, <2>2 DEF Ops
    <3>2. HandedOut'  BY <1>0, <2>1, <2>2, <3>1 DEF StrayInv, HandedOut
    <3>3. SweptIsGone'  BY <1>0, <2>1, <2>2, <3>1 DEF StrayInv, SweptIsGone, Writes, Other
    <3> QED  BY <2>1, <3>2, <3>3 DEF StrayInv, NoStrayCopy
  <2>3. CASE Fault /\ Return("failed") /\ UNCHANGED <<path, safe>>
    <3>1. faults' \in Nat  BY <1>0, <2>3 DEF Fault
    <3> QED  BY <1>0, <1>2, <2>1, <2>3, <3>1, FreeKeepsStray
  <2> QED  BY <1>3, <2>2, <2>3 DEF RemoveDocument, NoFault
<1>4. CASE SweepBackup
  <2>1. /\ UNCHANGED <<path, safe, temps, mem, call, tokens, clean>> /\ op.pc = "sweepbak" /\ gone' \in Removed
        /\ bak' \in {bak, Absent} /\ faults' \in Nat /\ op' = [op EXCEPT !.pc = "sweeptemps"]
    BY <1>0, <1>4, RemovedIsTyped DEF StrayInv, SweepBackup, NoFault, Fault
  <2>2. op'.pc = "sweeptemps" /\ op'.kind = op.kind /\ op'.want = op.want /\ op'.prev = op.prev  BY <1>0, <2>1 DEF Ops
  <2>3. HandedOut'  BY <1>0, <2>1, <2>2 DEF StrayInv, HandedOut
  <2>4. SweptIsGone'  BY <2>1, <2>2 DEF StrayInv, SweptIsGone, Writes
  <2>5. NoStrayCopy'  BY <1>0, <2>1 DEF StrayInv, NoStrayCopy
  <2> QED  BY <2>3, <2>4, <2>5 DEF StrayInv
<1>5. CASE SweepTemps
  <2> DEFINE more == IF op.kind = "wipe" THEN 1..tokens ELSE {op.want}
  <2>1. UNCHANGED <<path, safe, bak, mem, tokens>> /\ op.pc = "sweeptemps" /\ Return("done") /\ temps' \subseteq temps
        /\ faults' \in Nat /\ gone' \in Removed
    BY <1>0, <1>5, RemovedIsTyped DEF StrayInv, SweepTemps, Swept, NoFault, Fault
  <2>2. CASE clean' = clean
    BY <1>0, <1>2, <2>1, <2>2, FreeKeepsStray
  <2>3. CASE clean' # clean
    <3>1. clean' = clean \cup more /\ faults' = faults /\ bak = Absent  BY <1>5, <2>3 DEF SweepTemps
    <3>2. temps' = {}  BY <1>0, <1>5, <3>1 DEF SweepTemps, Swept, Fault
    <3>3. more \subseteq 0..tokens  BY <1>0
    <3>4. path.token \notin more \ {0}
      BY <1>0, <2>1 DEF StrayInv, SweptIsGone, Other
    <3> HIDE DEF more
    <3>5. /\ op'.pc = "free" /\ op'.want <= tokens /\ op'.prev.token <= tokens
          /\ \A d \in Callers : call'[d].want <= tokens /\ (call'[d].pc = "sweep" => Other(path, call'[d].want))
      BY <1>2, <2>1
    <3>6. HandedOut'  BY <2>1, <3>1, <3>3, <3>5 DEF StrayInv, HandedOut
    <3>7. SweptIsGone'  BY <2>1, <3>1, <3>4, <3>5 DEF StrayInv, SweptIsGone, Writes
    <3>8. NoStrayCopy'  BY <1>0, <2>1, <3>1, <3>2 DEF NoStrayCopy
    <3> QED  BY <3>6, <3>7, <3>8 DEF StrayInv
  <2> QED  BY <2>2, <2>3
<1> QED  BY <1>3, <1>4, <1>5 DEF Sweeping

\* The agent's start reads what is there, and backs up nothing else.
LEMMA StartingKeepsStray ==
  ASSUME IInv, IInv', StrayInv, Starting
  PROVE  StrayInv'
<1> USE DEF disk, ghost, count
<1>0. /\ op \in Ops /\ mem \in Doc /\ path \in Doc /\ path \in safe /\ tokens \in Nat /\ call \in [Callers -> Calls]
      /\ path.token \in Nat /\ op.prev.token <= tokens /\ op.want <= tokens
      /\ mem.token <= tokens /\ path.token <= tokens /\ faults \in Nat /\ faults + 1 \in Nat /\ 0 <= tokens
      /\ gone \in Removed
  BY DEF IInv, Typed, Doc, StrayInv, HandedOut
<1>1. \A d \in Callers : call[d].want <= tokens /\ (call[d].pc = "sweep" => Other(path, call[d].want))
  BY DEF StrayInv, HandedOut, SweptIsGone
<1>2. CASE Open
  <2>1. MuFree /\ UNCHANGED <<path, safe, bak, temps, gone, call, tokens, clean, faults>>
    BY <1>2 DEF Open, IInv, ComingUp
  <2>2. CASE path.v = 0
    <3>1. Writing(Opener, "open", 0, Fresh(minted + 1))  BY <1>2, <2>2 DEF Open
    <3>2. mem'.token = 0 /\ op'.pc = "write" /\ op'.want = 0 /\ op'.kind = "open" /\ op'.prev = mem
      BY <3>1 DEF Writing, Fresh
    <3> QED  BY <1>0, <2>1, <3>2, WriteKeepsStray
  <2>3. CASE path.v # 0
    <3>1. op' = op /\ mem' \in {path, [path EXCEPT !.v = 2]}  BY <1>2, <2>3 DEF Open
    <3>2. mem'.token = path.token  BY <1>0, <3>1 DEF Doc
    <3> QED  BY <1>0, <1>1, <2>1, <3>1, <3>2, FreeKeepsStray DEF MuFree
  <2> QED  BY <2>2, <2>3
\* The migration, of a document that memory already holds.
<1>3. ASSUME MuFree, Migrate, mem.token = path.token, bak' \in {bak, path},
             UNCHANGED <<path, safe, temps, gone, call, tokens, clean, faults>>
      PROVE  StrayInv'
  <2>1. mem' = mem /\ op'.pc = "write" /\ op'.want = 0 /\ op'.kind = "open" /\ op'.prev = mem
    BY <1>3 DEF Migrate, Writing
  <2> QED  BY <1>0, <1>3, <2>1, WriteKeepsStray
<1>4. CASE Backup \/ Copy
  <2>1. MuFree /\ mem.token = path.token /\ UNCHANGED <<path, safe, temps, gone, call, tokens, clean>>
    BY <1>0, <1>4 DEF Backup, Copy, IInv, ComingUp, Doc
  <2>2. CASE Migrate /\ bak' \in {bak, path} /\ UNCHANGED faults  BY <1>3, <2>1, <2>2
  <2>3. CASE bak' \in {bak, Torn(path)} /\ UNCHANGED <<op, mem>> /\ faults' \in Nat
    BY <1>0, <1>1, <2>1, <2>3, FreeKeepsStray DEF MuFree
  <2> QED  BY <1>0, <1>4, <2>2, <2>3 DEF Backup, AlreadyThere, Copy, NoFault, Fault
<1>5. CASE InferRoles \/ MintTLS \/ Reconcile
  <2>1. MuFree /\ mem = path /\ UNCHANGED <<path, safe, bak, temps, gone, call, tokens, clean, faults>>
    BY <1>5 DEF InferRoles, MintTLS, Reconcile, IInv, ComingUp
  <2>2. /\ op'.pc = "write" /\ op'.want = 0 /\ op'.kind \in {"open", "seed"} /\ op'.prev = mem
        /\ mem' \in {[mem EXCEPT !.roles = TRUE], [mem EXCEPT !.tls = keys + 1], mem}
    BY <1>5 DEF InferRoles, MintTLS, Reconcile, Writing
  <2>3. mem'.token = path.token  BY <1>0, <2>1, <2>2 DEF Doc
  <2> QED  BY <1>0, <2>1, <2>2, <2>3, WriteKeepsStray
<1>6. CASE Serve
  <2>1. UNCHANGED <<path, safe, bak, temps, gone, mem, op, call, tokens, clean, faults>>  BY <1>6 DEF Serve
  <2> QED  BY <2>1 DEF StrayInv, HandedOut, SweptIsGone, NoStrayCopy
<1> QED  BY <1>2, <1>4, <1>5, <1>6 DEF Starting

\* Crashes, power cuts and what the system writes back.
LEMMA WorldKeepsStray ==
  ASSUME IInv, StrayInv, Exit \/ WriteBack \/ Kill \/ PowerCut \/ UNCHANGED vars
  PROVE  StrayInv'
<1> USE DEF disk, ghost, count
<1>0. /\ op \in Ops /\ mem \in Doc /\ path \in Doc /\ path \in safe /\ tokens \in Nat /\ call \in [Callers -> Calls]
      /\ path.token \in Nat /\ op.prev.token <= tokens /\ op.want <= tokens /\ Absent.token = 0
      /\ mem.token <= tokens /\ path.token <= tokens /\ faults \in Nat /\ faults + 1 \in Nat /\ 0 <= tokens
      /\ gone \in Removed /\ Leftover \subseteq {mem.token} /\ (op.pc \notin Writes => Leftover = {})
  BY DEF IInv, Typed, Doc, Absent, StrayInv, HandedOut, Leftover, Writes
<1>1. Idle.pc = "idle" /\ Idle.want = 0 /\ Free.pc = "free" /\ Free.want = 0 /\ Free.prev.token = 0
  BY DEF Idle, Free, Absent
<1>2. CASE UNCHANGED vars \/ WriteBack
  <2>1. UNCHANGED <<path, bak, temps, mem, op, call, tokens, clean, faults>> /\ safe' \subseteq safe \cup {path}
        /\ gone' \in {gone, AllReached} /\ AllReached \in Removed
    BY <1>2 DEF vars, WriteBack, AllReached, Removed
  <2> QED  BY <1>0, <2>1 DEF StrayInv, HandedOut, SweptIsGone, NoStrayCopy
<1>3. CASE Exit
  <2>1. /\ UNCHANGED <<path, safe, bak, temps, gone, mem, op, tokens, clean, faults>> /\ MuFree
        /\ call' = [c \in Callers |-> Idle]
    BY <1>3 DEF Exit
  <2> QED  BY <1>0, <1>1, <2>1, FreeKeepsStray DEF MuFree
<1>4. CASE Kill
  <2>1. /\ UNCHANGED <<path, safe, bak, tokens, clean>> /\ op' = Free /\ call' = [c \in Callers |-> Idle]
        /\ mem' = Absent /\ faults' \in Nat /\ temps' = temps \cup Leftover /\ UNCHANGED gone
    BY <1>0, <1>4 DEF Kill, Stopped, Fault
  <2> QED  BY <1>0, <1>1, <2>1, FreeKeepsStray
<1>5. CASE PowerCut
  <2>1. /\ UNCHANGED tokens /\ op' = Free /\ call' = [c \in Callers |-> Idle] /\ mem' = Absent /\ faults' \in Nat
        /\ path' \in safe /\ safe' = {path'} /\ clean' = clean \ ({path'.token} \cup MayReturn)
        /\ bak' \in {Absent, Torn(bak), bak} \cup gone.bak
        /\ temps' \subseteq temps \cup gone.temps \cup Leftover /\ gone' = AllReached
    BY <1>0, <1>5 DEF PowerCut, Stopped, Fault
  <2>2. bak \in AnyDoc /\ Absent \in AnyDoc /\ \A t \in {bak.token} \cup temps : t \notin clean \ {0}
    BY DEF StrayInv, HandedOut, NoStrayCopy, Absent, AnyDoc
  \* What comes back is no longer taken for swept.
  <2>3. bak' \in AnyDoc /\ bak'.token \notin clean' \ {0}
    <3>1. CASE bak' \in gone.bak
      <4>1. bak'.token \in MayReturn  BY <3>1 DEF MayReturn
      <4>2. gone.bak \subseteq AnyDoc  BY <1>0 DEF Removed
      <4> QED  BY <2>1, <3>1, <4>1, <4>2
    <3>2. CASE bak' \in {Absent, Torn(bak), bak}  BY <1>0, <2>1, <2>2, <3>2, TornKeepsToken
    <3> QED  BY <2>1, <3>1, <3>2
  <2>4. \A t \in gone.temps \cup Leftover : t \in Nat /\ t \notin clean' \ {0}
    <3>1. gone.temps \subseteq MayReturn /\ gone.temps \subseteq Nat /\ mem.token \in Nat
      BY <1>0 DEF MayReturn, Removed, Doc
    <3>2. CASE op.pc \in Writes
      <4>1. mem.token \notin clean' \ {0}  BY <2>1, <3>2 DEF StrayInv, SweptIsGone
      <4> QED  BY <1>0, <2>1, <3>1, <4>1
    <3>3. CASE op.pc \notin Writes  BY <1>0, <2>1, <3>1, <3>3
    <3> QED  BY <3>2, <3>3
  <2>5. NoStrayCopy'  BY <2>1, <2>2, <2>3, <2>4 DEF NoStrayCopy
  <2>6. HandedOut'
    <3>1. AllReached \in Removed  BY DEF AllReached, Removed
    <3>2. temps' \subseteq Nat  BY <2>1, <2>4 DEF StrayInv, HandedOut
    <3> QED  BY <1>0, <1>1, <2>1, <2>3, <3>1, <3>2 DEF StrayInv, HandedOut
  <2>7. SweptIsGone'  BY <1>1, <2>1 DEF SweptIsGone, Writes
  <2> QED  BY <2>5, <2>6, <2>7 DEF StrayInv
<1> QED  BY <1>2, <1>3, <1>4, <1>5

\* Once a household's copies have been swept without an error, none is left or
\* comes back: no write, no backup and no leftover of one carries a swept identity
\* (Store.Wipe, DropHouseholdIf), whatever fails or crashes afterwards, except by a
\* power cut before the directory has reached the disk (removeStaleCopiesLocked
\* does not sync it; PowerCut takes the identity out of what counts as clean).
THEOREM NothingStays == Spec => []NoStrayCopy
<1>1. Init => StrayInv
  <2> SUFFICES ASSUME Init PROVE StrayInv  OBVIOUS
  <2>1. path \in Doc /\ tokens = path.token /\ path.token \in Nat  BY InitInv DEF IInv, Typed, Doc, Init
  <2>2. Absent.token = 0 /\ Absent \in AnyDoc  BY DEF Absent, AnyDoc
  <2>3. Free.pc = "free" /\ Free.want = 0 /\ Free.prev = Absent /\ Idle.pc = "idle" /\ Idle.want = 0  BY DEF Free, Idle
  <2>4. HandedOut  BY <2>1, <2>2, <2>3 DEF Init, HandedOut, AllReached, Removed
  <2>5. SweptIsGone  BY <2>3 DEF Init, SweptIsGone, Writes
  <2> QED  BY <2>4, <2>5 DEF Init, StrayInv, NoStrayCopy
<1>2. IInv /\ IInv' /\ StrayInv /\ [Next]_vars => StrayInv'
  BY CallersKeepStray, PersistingKeepsStray, SweepingKeepsStray, StartingKeepsStray, WorldKeepsStray DEF Next
<1>3. StrayInv => NoStrayCopy  BY DEF StrayInv
<1> QED  BY <1>1, <1>2, <1>3, Invariance, PTL DEF Spec
=============================================================================
