-------------------------- MODULE Removals_proofs --------------------------
(***************************************************************************)
(* Proofs about Removals, for every set of devices, every cap on the queue *)
(* and every bound on faults: a removal stays queued until its fate is     *)
(* known, and is reported under the identity it belongs to and no other.   *)
(***************************************************************************)
EXTENDS Removals, SequenceTheorems, FiniteSetTheorems, TLAPS

Distinct(q) == \A i, j \in 1..Len(q) : q[i].d = q[j].d => i = j

\* The queue's operators, on queues that name no device twice.
LEMMA PlaceProperties ==
  ASSUME NEW q \in Seq(Entries4), NEW d \in Queued(q), Distinct(q)
  PROVE  Place(q, d) \in 1..Len(q) /\ q[Place(q, d)].d = d
<1>1. PICK i \in 1..Len(q) : q[i].d = d  BY DEF Queued
<1>2. \A j \in 1..(i - 1) : q[j].d # d  BY <1>1 DEF Distinct
<1> QED  BY <1>1, <1>2 DEF Place

\* Settling an answered entry takes out its device's entry and no other.
LEMMA WithoutProperties ==
  ASSUME NEW q \in Seq(Entries4), NEW d, Distinct(q)
  PROVE  /\ Without(q, d) \in Seq(Entries4) /\ Distinct(Without(q, d))
         /\ Len(Without(q, d)) <= Len(q)
         /\ Queued(Without(q, d)) = Queued(q) \ {d}
         /\ \A i \in 1..Len(Without(q, d)) : \E j \in 1..Len(q) : Without(q, d)[i] = q[j]
<1>1. CASE d \notin Queued(q)  BY <1>1 DEF Without
<1>2. CASE d \in Queued(q)
  <2> DEFINE k == Place(q, d)
             a == SubSeq(q, 1, k - 1)
             b == SubSeq(q, k + 1, Len(q))
             w == Without(q, d)
  <2>1. k \in 1..Len(q) /\ q[k].d = d /\ Len(q) \in Nat  BY <1>2, PlaceProperties
  <2> HIDE DEF k
  <2>2. a \in Seq(Entries4) /\ Len(a) = k - 1 /\ \A i \in 1..(k - 1) : a[i] = q[i]
    <3>1. \A i \in 1..(k - 1) : q[i] \in Entries4  BY <2>1
    <3> QED  BY <2>1, <3>1, SubSeqProperties
  <2>3. b \in Seq(Entries4) /\ Len(b) = Len(q) - k /\ \A i \in 1..(Len(q) - k) : b[i] = q[k + i]
    <3>1. \A i \in (k + 1)..Len(q) : q[i] \in Entries4  BY <2>1
    <3> QED  BY <2>1, <3>1, SubSeqProperties
  <2>4. w = a \o b  BY <1>2 DEF Without, RemoveAt, k
  <2> HIDE DEF a, b, w
  <2>5. /\ w \in Seq(Entries4) /\ Len(w) = Len(q) - 1
        /\ \A i \in 1..(k - 1) : w[i] = q[i]
        /\ \A i \in k..(Len(q) - 1) : w[i] = q[i + 1]
    <3>1. /\ w \in Seq(Entries4) /\ Len(w) = Len(a) + Len(b)
          /\ \A i \in 1..(Len(a) + Len(b)) : w[i] = IF i <= Len(a) THEN a[i] ELSE b[i - Len(a)]
      BY <2>2, <2>3, <2>4, ConcatProperties
    <3>2. Len(a) + Len(b) = Len(q) - 1  BY <2>1, <2>2, <2>3
    <3>3. ASSUME NEW i \in 1..(k - 1) PROVE w[i] = q[i]
      <4>1. i \in 1..(Len(a) + Len(b)) /\ i <= Len(a)  BY <2>1, <2>2, <2>3, <3>2
      <4> QED  BY <2>2, <3>1, <4>1
    <3>4. ASSUME NEW i \in k..(Len(q) - 1) PROVE w[i] = q[i + 1]
      <4>1. i \in 1..(Len(a) + Len(b)) /\ ~(i <= Len(a)) /\ i - Len(a) = i - k + 1 /\ i - k + 1 \in 1..(Len(q) - k)
        BY <2>1, <2>2, <2>3, <3>2
      <4>2. w[i] = b[i - k + 1] /\ b[i - k + 1] = q[k + (i - k + 1)]  BY <2>3, <3>1, <4>1
      <4>3. k + (i - k + 1) = i + 1  BY <2>1
      <4> QED  BY <4>2, <4>3
    <3> QED  BY <3>1, <3>2, <3>3, <3>4
  <2>6. \A i \in 1..Len(w) : w[i] = q[IF i < k THEN i ELSE i + 1]  BY <2>1, <2>5
  <2>7. Distinct(w)  BY <2>1, <2>5, <2>6 DEF Distinct
  <2>8. Queued(w) = Queued(q) \ {d}
    <3>1. ASSUME NEW i \in 1..Len(w) PROVE w[i].d \in Queued(q) \ {d}
      BY <2>1, <2>5, <2>6 DEF Queued, Distinct
    <3>2. ASSUME NEW j \in 1..Len(q), q[j].d # d PROVE q[j].d \in Queued(w)
      <4>1. CASE j < k  BY <2>1, <2>5, <4>1 DEF Queued
      <4>2. CASE j > k
        <5>1. j - 1 \in 1..Len(w) /\ w[j - 1] = q[j]  BY <2>1, <2>5, <4>2
        <5> QED  BY <5>1 DEF Queued
      <4> QED  BY <2>1, <3>2, <4>1, <4>2
    <3> QED  BY <3>1, <3>2 DEF Queued
  <2> QED  BY <2>1, <2>5, <2>6, <2>7, <2>8 DEF w
<1> QED  BY <1>1, <1>2

\* Postponing an entry keeps the queue's devices, identities and order.
LEMMA LaterProperties ==
  ASSUME NEW q \in Seq(Entries4), NEW d, Distinct(q)
  PROVE  /\ Later(q, d) \in Seq(Entries4) /\ Len(Later(q, d)) = Len(q)
         /\ \A i \in 1..Len(q) : Later(q, d)[i].d = q[i].d /\ Later(q, d)[i].id = q[i].id
<1>1. CASE d \notin Queued(q)  BY <1>1 DEF Later
<1>2. CASE d \in Queued(q)
  <2> DEFINE k == Place(q, d)
  <2>1. k \in 1..Len(q)  BY <1>2, PlaceProperties
  <2>2. Later(q, d) = [q EXCEPT ![k] = [q[k] EXCEPT !.due = FALSE]]  BY <1>2 DEF Later
  <2> HIDE DEF k
  <2>3. q[k] \in Entries4  BY <2>1
  <2>4. [q[k] EXCEPT !.due = FALSE] \in Entries4  BY <2>3 DEF Entries4
  <2>5. Later(q, d) \in Seq(Entries4) /\ Len(Later(q, d)) = Len(q)  BY <2>1, <2>2, <2>4
  <2>6. \A i \in 1..Len(q) : Later(q, d)[i] = IF i = k THEN [q[k] EXCEPT !.due = FALSE] ELSE q[i]
    BY <2>1, <2>2
  <2>7. [q[k] EXCEPT !.due = FALSE].d = q[k].d /\ [q[k] EXCEPT !.due = FALSE].id = q[k].id
    BY <2>3 DEF Entries4
  <2> QED  BY <2>5, <2>6, <2>7
<1> QED  BY <1>1, <1>2

\* The cap drops entries from the front and keeps the one that came last.
LEMMA NewestProperties ==
  ASSUME NEW q \in Seq(Entries4), NEW e \in Entries4, Distinct(q), e.d \notin Queued(q)
  PROVE  LET n == Newest(Append(q, e)) IN
         /\ n \in Seq(Entries4) /\ Distinct(n) /\ (Len(q) <= Limit => Len(n) <= Limit)
         /\ e.d \in Queued(n) /\ Queued(n) \subseteq Queued(q) \cup {e.d}
         /\ \A i \in 1..Len(n) : n[i] = e \/ \E j \in 1..Len(q) : n[i] = q[j]
<1> DEFINE a == Append(q, e)
           n == Newest(a)
           c == IF Len(a) > Limit THEN Len(a) - Limit ELSE 0
<1>1. /\ a \in Seq(Entries4) /\ Len(a) = Len(q) + 1 /\ a[Len(q) + 1] = e
      /\ \A i \in 1..Len(q) : a[i] = q[i]
  OBVIOUS
<1>2. Distinct(a)
  <2> SUFFICES ASSUME NEW i \in 1..Len(a), NEW j \in 1..Len(a), a[i].d = a[j].d PROVE i = j
    BY DEF Distinct
  <2>1. CASE i \in 1..Len(q) /\ j \in 1..Len(q)  BY <1>1, <2>1 DEF Distinct
  <2>2. CASE i = Len(q) + 1 /\ j \in 1..Len(q)  BY <1>1, <2>2 DEF Queued
  <2>3. CASE j = Len(q) + 1 /\ i \in 1..Len(q)  BY <1>1, <2>3 DEF Queued
  <2> QED  BY <1>1, <2>1, <2>2, <2>3
<1> HIDE DEF a
<1>3. Limit \in Nat /\ Limit >= 1 /\ Len(a) \in Nat /\ Len(a) >= 1  BY <1>1, LimitAssumption
<1>4. c \in Nat /\ c < Len(a) /\ (Len(a) > Limit => Len(a) - c = Limit) /\ (Len(a) <= Limit => c = 0)  BY <1>3
<1>5. n \in Seq(Entries4) /\ Len(n) = Len(a) - c /\ \A i \in 1..Len(n) : n[i] = a[i + c]
  <2>1. CASE Len(a) > Limit
    <3>1. n = SubSeq(a, c + 1, Len(a))  BY <1>3, <2>1 DEF Newest
    <3>2. \A i \in (c + 1)..Len(a) : a[i] \in Entries4  BY <1>1, <1>4
    <3> HIDE DEF n, c
    <3> QED  BY <1>3, <1>4, <3>1, <3>2, SubSeqProperties
  <2>2. CASE Len(a) <= Limit
    <3>1. n = a /\ c = 0  BY <1>3, <2>2 DEF Newest
    <3> HIDE DEF n, c
    <3> QED  BY <1>1, <1>3, <3>1
  <2> QED  BY <1>3, <2>1, <2>2
<1> HIDE DEF n, c
<1>6. Distinct(n)  BY <1>2, <1>3, <1>4, <1>5 DEF Distinct
<1>7. Len(n) <= Limit  BY <1>3, <1>4, <1>5
<1>8. e.d \in Queued(n)
  <2>1. Len(n) \in 1..Len(n) /\ n[Len(n)] = e  BY <1>1, <1>3, <1>4, <1>5
  <2> QED  BY <2>1 DEF Queued
<1>9. \A i \in 1..Len(n) : n[i] = e \/ \E j \in 1..Len(q) : n[i] = q[j]
  <2> SUFFICES ASSUME NEW i \in 1..Len(n) PROVE n[i] = e \/ \E j \in 1..Len(q) : n[i] = q[j]  OBVIOUS
  <2>1. i + c \in 1..(Len(q) + 1) /\ n[i] = a[i + c]  BY <1>1, <1>3, <1>4, <1>5
  <2> QED  BY <1>1, <2>1
<1>10. Queued(n) \subseteq Queued(q) \cup {e.d}  BY <1>9 DEF Queued
<1> QED  BY <1>5, <1>6, <1>7, <1>8, <1>9, <1>10 DEF n, a

-----------------------------------------------------------------------------
\* The identity a device belongs to for as long as the relay knows it, and an
\* entry that a pass under tok may send for it.
Owner(d) == IF d = Founder THEN 2 ELSE 1
Fits(e, tok) == /\ e.id \in {Owner(e.d), Unmarked}
                /\ e.id = Unmarked => Owner(e.d) = 1 /\ tok = 1
                /\ home[e.d] = Owner(e.d)

Passing == [pc : {"pass"}, tok : Tokens, todo : Seq(Entries4)]
Answering == [pc : {"settle"}, tok : Tokens, todo : Seq(Entries4),
              what : {"retry", "expired", "reported", "refused"}]
Calls == [pc : {"idle", "try", "refused", "leave", "unlocked"}] \cup Passing \cup Answering

Typed ==
    /\ token \in Tokens \cup {NoToken} /\ held \in BOOLEAN
    /\ dev \in [All -> {"absent", "active", "revoked"}]
    /\ queue \in Seq(Entries4) /\ Len(queue) <= Limit
    /\ mu \in Callers \cup {NoOne} /\ rerun \in BOOLEAN
    /\ call \in [Callers -> Calls]
    /\ first \in {"idle", "flushing", "flushed"}
    /\ told \subseteq [d : All, tok : Tokens]
    /\ home \in [All -> Tokens]
    /\ fate \in [All -> {"none", "owed", "reported", "refused", "expired", "capped", "discarded"}]

Homes ==
    /\ \A d \in All : dev[d] = "active" => token = Owner(d)
    /\ first # "idle" => \A d \in All : dev[d] # "active"
    /\ token = NoToken => queue = <<>>
    /\ \A i \in 1..Len(queue) : Fits(queue[i], token)
    /\ \A t \in told : t.tok = Owner(t.d) /\ home[t.d] = Owner(t.d)

\* A snapshot outlives the queue it was taken of, not what its entries say.
SnapshotsFit ==
    \A p \in Callers : call[p].pc \in {"pass", "settle"} =>
        \A i \in 1..Len(call[p].todo) : Fits(call[p].todo[i], call[p].tok)

SettlesSomething == \A p \in Callers : call[p].pc = "settle" => call[p].todo # <<>>

IInv == Typed /\ Distinct(queue) /\ NoneForgotten /\ Homes /\ SnapshotsFit /\ SettlesSomething

\* The invariant holds at the start.
LEMMA InitInv == Init => IInv
<1> SUFFICES ASSUME Init PROVE IInv  OBVIOUS
<1> DEFINE n == Cardinality(Legacy)
<1>1. n \in Nat /\ n <= Limit  BY LegacyAssumption, FS_CardinalityType
<1>2. PICK order \in Bijection(1..n, Legacy) :
        queue = [i \in 1..n |-> [d |-> order[i], id |-> Unmarked, due |-> TRUE, old |-> FALSE]]
  BY DEF Init
<1> HIDE DEF n
<1>3. /\ order \in [1..n -> Legacy] /\ \A i, j \in 1..n : order[i] = order[j] => i = j
      /\ \A d \in Legacy : \E i \in 1..n : order[i] = d
  BY <1>2 DEF Bijection, Injection, Surjection, IsInjective
<1>4. Legacy \subseteq All /\ Founder \notin Legacy  BY DeviceAssumption DEF All
<1>5. /\ queue \in Seq(Entries4) /\ Len(queue) = n
      /\ \A i \in 1..n : queue[i].d = order[i] /\ queue[i].id = Unmarked
  <2>1. \A i \in 1..n : [d |-> order[i], id |-> Unmarked, due |-> TRUE, old |-> FALSE] \in Entries4
    BY <1>3, <1>4 DEF Entries4
  <2> QED  BY <1>1, <1>2, <2>1
<1>6. Queued(queue) = Legacy  BY <1>3, <1>5 DEF Queued
<1>7. Distinct(queue)  BY <1>3, <1>5 DEF Distinct
<1>8. call \in [Callers -> Calls] /\ \A p \in Callers : call[p].pc = "idle"
  BY DEF Init, Idle, Calls
<1>9. Typed  BY <1>1, <1>5, <1>8 DEF Init, Typed, Tokens
<1>10. NoneForgotten  BY <1>4, <1>6 DEF Init, NoneForgotten
<1>11. Homes
  <2>1. \A d \in All : d \in Legacy => Owner(d) = 1  BY <1>4 DEF Owner
  <2>2. \A d \in All : dev[d] = "active" => Owner(d) = 1  BY DEF Init, Owner
  <2>3. token = 1 /\ told = {} /\ first = "idle" /\ \A d \in All : home[d] = 1  BY DEF Init
  <2>4. ASSUME NEW i \in 1..Len(queue) PROVE Fits(queue[i], token)
    <3>1. queue[i].d \in Legacy /\ queue[i].id = Unmarked  BY <1>3, <1>5
    <3> QED  BY <1>4, <2>1, <2>3, <3>1 DEF Fits
  <2> QED  BY <2>2, <2>3, <2>4 DEF Homes, NoToken
<1>12. SnapshotsFit /\ SettlesSomething  BY <1>8 DEF SnapshotsFit, SettlesSomething
<1> QED  BY <1>7, <1>9, <1>10, <1>11, <1>12 DEF IInv

\* What one caller's step may leave it with.
GoodCall(to) ==
    /\ to \in Calls
    /\ to.pc \in {"pass", "settle"} => \A i \in 1..Len(to.todo) : Fits(to.todo[i], to.tok)
    /\ to.pc = "settle" => to.todo # <<>>

\* Steps that touch neither the queue nor what it is about.
LEMMA QuietSteps ==
  ASSUME IInv, NEW p \in Callers, NEW to, GoodCall(to), Goes(p, to),
         UNCHANGED <<token, dev, queue, home, fate>>,
         told' \subseteq [d : All, tok : Tokens],
         \A t \in told' : t.tok = Owner(t.d) /\ home[t.d] = Owner(t.d),
         held' \in BOOLEAN, mu' \in Callers \cup {NoOne}, rerun' \in BOOLEAN,
         first' \in {"idle", "flushing", "flushed"},
         first' = first \/ first' = "idle" \/ \A d \in All : dev[d] # "active"
  PROVE  IInv'
<1>1. call' = [call EXCEPT ![p] = to]  BY DEF Goes
<1>2. call' \in [Callers -> Calls]  BY <1>1 DEF IInv, Typed, GoodCall
<1>3. Typed'  BY <1>2 DEF IInv, Typed
<1>4. \A e, tok : Fits(e, tok)' <=> Fits(e, tok)  BY DEF Fits
<1>5. SnapshotsFit' /\ SettlesSomething'
  BY <1>1, <1>4 DEF IInv, Typed, SnapshotsFit, SettlesSomething, GoodCall
<1>6. Homes'  BY <1>4 DEF IInv, Homes
<1>7. Distinct(queue)' /\ NoneForgotten'  BY DEF IInv, Distinct, NoneForgotten, Queued
<1> QED  BY <1>3, <1>5, <1>6, <1>7 DEF IInv

\* A revoke queues one entry; the cap drops the oldest and says so.
LEMMA RevokeKeepsInv == ASSUME IInv, NEW d \in All, Revoke(d) PROVE IInv'
<1>1. /\ dev[d] = "active" /\ dev' = [dev EXCEPT ![d] = "revoked"] /\ call' = [call EXCEPT ![d] = [pc |-> "try"]]
      /\ UNCHANGED <<token, held, mu, rerun, first, told>>
  BY DEF Revoke, Goes
<1>2. token = Owner(d) /\ d \in Callers  BY <1>1 DEF IInv, Homes, Callers
<1>3. dev' \in [All -> {"absent", "active", "revoked"}] /\ \A e \in All : dev'[e] = "active" => dev[e] = "active"
  BY <1>1 DEF IInv, Typed
<1>4. call' \in [Callers -> Calls]
  <2>1. [pc |-> "try"] \in Calls  BY DEF Calls
  <2> QED  BY <1>1, <1>2, <2>1 DEF IInv, Typed
<1>5. \A p \in Callers : call'[p].pc \in {"pass", "settle"} => call'[p] = call[p]
  BY <1>1, <1>2 DEF IInv, Typed
<1>6. SettlesSomething'  BY <1>5 DEF IInv, SettlesSomething
<1>7. CASE UNCHANGED <<queue, home, fate>>
  <2>1. \A e, tok : Fits(e, tok)' <=> Fits(e, tok)  BY <1>7 DEF Fits
  <2>2. Typed'  BY <1>1, <1>3, <1>4, <1>7 DEF IInv, Typed
  <2>3. Homes'  BY <1>1, <1>3, <1>7, <2>1 DEF IInv, Homes
  <2>4. SnapshotsFit'  BY <1>5, <2>1 DEF IInv, SnapshotsFit
  <2>5. Distinct(queue)' /\ NoneForgotten'  BY <1>7 DEF IInv, Distinct, NoneForgotten, Queued
  <2> QED  BY <1>6, <2>2, <2>3, <2>4, <2>5 DEF IInv
<1>8. CASE /\ token # NoToken /\ d \notin Queued(queue)
           /\ queue' = Newest(Append(queue, Entry(d)))
           /\ home' = [home EXCEPT ![d] = token]
           /\ fate' = [e \in All |-> IF e = d THEN "owed"
                                     ELSE IF e \in Queued(queue) \ Queued(queue') THEN "capped" ELSE fate[e]]
  <2>1. Entry(d) \in Entries4 /\ Entry(d).d = d /\ Entry(d).id = token
    BY <1>8 DEF IInv, Typed, Entry, Entries4
  <2>2. /\ queue' \in Seq(Entries4) /\ Distinct(queue') /\ Len(queue') <= Limit
        /\ d \in Queued(queue') /\ Queued(queue') \subseteq Queued(queue) \cup {d}
        /\ \A i \in 1..Len(queue') : queue'[i] = Entry(d) \/ \E j \in 1..Len(queue) : queue'[i] = queue[j]
    BY <1>8, <2>1, NewestProperties DEF IInv, Typed
  <2>3. home' \in [All -> Tokens] /\ home'[d] = Owner(d) /\ \A e \in All : home'[e] # home[e] => e = d
    BY <1>2, <1>8 DEF IInv, Typed, Owner, Tokens
  <2>4. fate' \in [All -> {"none", "owed", "reported", "refused", "expired", "capped", "discarded"}]
    BY <1>8 DEF IInv, Typed
  <2>5. Typed'  BY <1>1, <1>3, <1>4, <2>2, <2>3, <2>4 DEF IInv, Typed
  <2>7. Fits(Entry(d), token)'  BY <1>1, <1>2, <2>3 DEF Entry, Fits, Owner, Unmarked
  <2>8. Homes'
    <3>1. token' # NoToken  BY <1>1, <1>8
    <3>2. ASSUME NEW i \in 1..Len(queue') PROVE Fits(queue[i], token)'
      <4>1. CASE queue'[i] = Entry(d)  BY <1>1, <2>7, <4>1 DEF Fits, Entry
      <4>2. CASE \E j \in 1..Len(queue) : queue'[i] = queue[j]
        <5>1. PICK j \in 1..Len(queue) : queue'[i] = queue[j]  BY <4>2
        <5>2. queue[j] \in Entries4 /\ Fits(queue[j], token)  BY DEF IInv, Typed, Homes
        <5> QED  BY <1>1, <2>3, <5>1, <5>2 DEF Fits, Entries4
      <4> QED  BY <2>2, <4>1, <4>2
    <3>3. \A t \in told : t.tok = Owner(t.d) /\ home'[t.d] = Owner(t.d)
      BY <2>3 DEF IInv, Typed, Homes
    <3> QED  BY <1>1, <1>3, <3>1, <3>2, <3>3 DEF IInv, Homes
  <2>9. SnapshotsFit'
    <3> SUFFICES ASSUME NEW p \in Callers, call'[p].pc \in {"pass", "settle"},
                        NEW i \in 1..Len(call'[p].todo)
                 PROVE  Fits(call[p].todo[i], call[p].tok)'
      BY DEF SnapshotsFit
    <3>1. call'[p] = call[p]  BY <1>5
    <3>2. call[p].todo \in Seq(Entries4)  BY <3>1 DEF IInv, Typed, Calls, Passing, Answering
    <3>3. call[p].todo[i] \in Entries4 /\ Fits(call[p].todo[i], call[p].tok)
      BY <3>1, <3>2 DEF IInv, SnapshotsFit
    <3> QED  BY <2>3, <3>1, <3>3 DEF Fits, Entries4
  <2>10. NoneForgotten'  BY <1>8, <2>2 DEF IInv, NoneForgotten
  <2> QED  BY <1>6, <2>2, <2>5, <2>8, <2>9, <2>10 DEF IInv
<1> QED  BY <1>7, <1>8 DEF Revoke

\* Steps that change what is due or old, and not what the entries are about.
LEMMA RelabelKeepsInv ==
  ASSUME IInv, NEW p \in Callers, NEW to, GoodCall(to), Goes(p, to) \/ call' = call,
         UNCHANGED <<token, dev, held, mu, rerun, first, home, told, fate>>,
         queue' \in Seq(Entries4), Len(queue') = Len(queue),
         \A i \in 1..Len(queue) : queue'[i].d = queue[i].d /\ queue'[i].id = queue[i].id
  PROVE  IInv'
<1>1. \A i \in 1..Len(queue) : Fits(queue[i], token)'  BY DEF IInv, Homes, Fits
<1>2. Queued(queue') = Queued(queue) /\ Distinct(queue')  BY DEF IInv, Queued, Distinct
<1>3. queue = <<>> => queue' = <<>>  BY DEF IInv, Typed
<1>4. Homes'  BY <1>1, <1>3 DEF IInv, Homes
<1>5. NoneForgotten'  BY <1>2 DEF IInv, NoneForgotten
<1>6. call' \in [Callers -> Calls]  BY DEF IInv, Typed, Goes, GoodCall
<1>7. \A e, tok : Fits(e, tok)' <=> Fits(e, tok)  BY DEF Fits
<1>8. SnapshotsFit' /\ SettlesSomething'
  BY <1>7 DEF IInv, Typed, Goes, GoodCall, SnapshotsFit, SettlesSomething
<1>9. Typed'  BY <1>6 DEF IInv, Typed
<1> QED  BY <1>2, <1>4, <1>5, <1>8, <1>9 DEF IInv

\* Steps that take entries out of the queue.
LEMMA ShrinkKeepsInv ==
  ASSUME IInv, NEW p \in Callers, NEW to, GoodCall(to), Goes(p, to),
         UNCHANGED <<token, dev, held, mu, rerun, first, home, told>>,
         fate' \in [All -> {"none", "owed", "reported", "refused", "expired", "capped", "discarded"}],
         NoneForgotten', queue' \in Seq(Entries4), Distinct(queue'), Len(queue') <= Limit,
         \A i \in 1..Len(queue') : \E j \in 1..Len(queue) : queue'[i] = queue[j]
  PROVE  IInv'
<1>1. \A e, tok : Fits(e, tok)' <=> Fits(e, tok)  BY DEF Fits
<1>2. ASSUME NEW i \in 1..Len(queue') PROVE Fits(queue[i], token)'
  <2>1. PICK j \in 1..Len(queue) : queue'[i] = queue[j]  OBVIOUS
  <2>2. Fits(queue[j], token)  BY DEF IInv, Homes
  <2> QED  BY <2>1, <2>2 DEF Fits
<1>3. queue = <<>> => queue' = <<>>
  <2> SUFFICES ASSUME queue = <<>> PROVE queue' = <<>>  OBVIOUS
  <2>1. Len(queue) = 0  OBVIOUS
  <2>2. ~\E j \in 1..Len(queue) : TRUE  BY <2>1
  <2>3. ~(1 \in 1..Len(queue'))  BY <2>2
  <2>4. Len(queue') = 0  BY <2>3
  <2> QED  BY <2>4, EmptySeq
<1>4. Homes'  BY <1>2, <1>3 DEF IInv, Homes
<1>5. call' \in [Callers -> Calls]  BY DEF IInv, Typed, Goes, GoodCall
<1>6. SnapshotsFit' /\ SettlesSomething'
  BY <1>1 DEF IInv, Typed, Goes, GoodCall, SnapshotsFit, SettlesSomething
<1>7. Typed'  BY <1>5 DEF IInv, Typed
<1> QED  BY <1>4, <1>6, <1>7 DEF IInv

\* The steps of a pass, in which the queue may have changed since its snapshot.
LEMMA PassKeepsInv ==
  ASSUME IInv, NEW p \in Callers, Pass(p) \/ Unanswered(p) \/ SettleFails(p)
  PROVE  IInv'
<1> USE DEF doc, ghost
<1> DEFINE c == call[p]
<1>1. c \in Calls /\ queue \in Seq(Entries4) /\ token \in Tokens \cup {NoToken}  BY DEF IInv, Typed
<1>2. c.pc \in {"pass", "settle"} =>
        c.tok \in Tokens /\ c.todo \in Seq(Entries4) /\ \A i \in 1..Len(c.todo) : Fits(c.todo[i], c.tok)
  BY <1>1 DEF IInv, SnapshotsFit, Calls, Passing, Answering
<1>3. c.pc = "settle" => c.todo # <<>> /\ c.what \in {"retry", "expired", "reported", "refused"}
  BY <1>1 DEF IInv, SettlesSomething, Calls, Passing, Answering
<1>4. \A pc \in {"idle", "try", "refused", "leave", "unlocked"} : GoodCall([pc |-> pc])
  BY DEF GoodCall, Calls
<1>5. GoodCall(Idle)  BY <1>4 DEF Idle
<1>6. \A t \in told : t.tok = Owner(t.d) /\ home[t.d] = Owner(t.d)  BY DEF IInv, Homes
<1>7. c.todo # <<>> /\ c.pc \in {"pass", "settle"} =>
        /\ Head(c.todo) \in Entries4 /\ Fits(Head(c.todo), c.tok)
        /\ Tail(c.todo) \in Seq(Entries4) /\ \A i \in 1..Len(Tail(c.todo)) : Fits(Tail(c.todo)[i], c.tok)
  <2> SUFFICES ASSUME c.todo # <<>>, c.pc \in {"pass", "settle"}
               PROVE  /\ Head(c.todo) \in Entries4 /\ Fits(Head(c.todo), c.tok)
                      /\ Tail(c.todo) \in Seq(Entries4)
                      /\ \A i \in 1..Len(Tail(c.todo)) : Fits(Tail(c.todo)[i], c.tok)
    OBVIOUS
  <2> HIDE DEF c
  <2>1. c.todo \in Seq(Entries4) /\ Len(c.todo) \in Nat /\ Len(c.todo) >= 1 /\ Head(c.todo) = c.todo[1]
    BY <1>2
  <2>2. Head(c.todo) \in Entries4 /\ Fits(Head(c.todo), c.tok)  BY <1>2, <2>1
  <2>3. Tail(c.todo) \in Seq(Entries4) /\ Len(Tail(c.todo)) = Len(c.todo) - 1
        /\ \A i \in 1..Len(Tail(c.todo)) : Tail(c.todo)[i] = c.todo[i + 1]
    BY <2>1, HeadTailProperties
  <2>4. ASSUME NEW i \in 1..Len(Tail(c.todo)) PROVE Fits(Tail(c.todo)[i], c.tok)
    <3>1. i + 1 \in 1..Len(c.todo)  BY <2>1, <2>3
    <3> QED  BY <1>2, <2>3, <3>1
  <2> QED  BY <2>2, <2>3, <2>4
<1>8. CASE Start(p)
  <2>1. Selected(p) \in Seq(Entries4) /\ \A i \in 1..Len(Selected(p)) : \E j \in 1..Len(queue) : Selected(p)[i] = queue[j]
    <3>1. CASE p \notin All  BY <1>1, <3>1 DEF Selected
    <3>2. CASE p \in All /\ p \in Queued(queue)
      <4>1. Place(queue, p) \in 1..Len(queue)  BY <1>1, <3>2, PlaceProperties DEF IInv
      <4>2. Selected(p) = <<queue[Place(queue, p)]>>  BY <3>2 DEF Selected
      <4>3. queue[Place(queue, p)] \in Entries4  BY <1>1, <4>1
      <4> HIDE DEF Selected
      <4> QED  BY <4>1, <4>2, <4>3
    <3>3. CASE p \in All /\ p \notin Queued(queue)  BY <3>3 DEF Selected
    <3> QED  BY <3>1, <3>2, <3>3
  <2> DEFINE to == [pc |-> "pass", tok |-> token, todo |-> Selected(p)]
  <2>2. CASE token = NoToken \/ (held /\ p # Flusher)
    <3>1. Goes(p, [pc |-> "leave"])  BY <1>8, <2>2 DEF Start
    <3> QED  BY <1>4, <1>6, <1>8, <3>1, QuietSteps DEF Start, IInv, Typed
  <2>3. CASE ~(token = NoToken \/ (held /\ p # Flusher))
    <3>1. Goes(p, to)  BY <1>8, <2>3 DEF Start
    <3>2. to \in Calls  BY <1>1, <2>1, <2>3 DEF Calls, Passing
    <3>3. \A i \in 1..Len(to.todo) : Fits(to.todo[i], to.tok)  BY <2>1 DEF IInv, Homes
    <3>4. GoodCall(to)  BY <3>2, <3>3 DEF GoodCall
    <3> HIDE DEF to
    <3> QED  BY <1>6, <1>8, <3>1, <3>4, QuietSteps DEF Start, IInv, Typed
  <2> QED  BY <2>2, <2>3
<1>9. CASE Refused(p)  BY <1>4, <1>6, <1>9, QuietSteps DEF Refused, IInv, Typed
<1>10. CASE AskRerun(p)  BY <1>5, <1>6, <1>10, QuietSteps DEF AskRerun, IInv, Typed
<1>11. ASSUME NEW what \in {"retry", "expired", "reported", "refused"}, c.pc = "pass", c.todo # <<>>
       PROVE  GoodCall([pc |-> "settle", tok |-> c.tok, todo |-> c.todo, what |-> what])
  <2> HIDE DEF c
  <2>1. [pc |-> "settle", tok |-> c.tok, todo |-> c.todo, what |-> what] \in Answering
    BY <1>2, <1>11 DEF Answering
  <2> QED  BY <1>2, <1>11, <2>1 DEF GoodCall, Calls
<1>12. CASE Drop(p)
  <2>1. /\ c.pc = "pass" /\ c.todo # <<>>
        /\ Goes(p, [pc |-> "settle", tok |-> c.tok, todo |-> c.todo, what |-> "expired"])
    BY <1>12 DEF Drop, At, Settling
  <2> HIDE DEF c
  <2>2. GoodCall([pc |-> "settle", tok |-> c.tok, todo |-> c.todo, what |-> "expired"])  BY <1>11, <2>1
  <2> QED  BY <1>6, <1>12, <2>1, <2>2, QuietSteps DEF Drop, IInv, Typed
<1>13. CASE Skip(p)
  <2>1. c.pc = "pass" /\ c.todo # <<>> /\ Goes(p, [c EXCEPT !.todo = Tail(@)])  BY <1>13 DEF Skip, At
  <2>2. c \in Passing  BY <1>1, <2>1 DEF Calls, Answering, Passing
  <2> HIDE DEF c
  <2>3. /\ [c EXCEPT !.todo = Tail(@)] \in Passing
        /\ [c EXCEPT !.todo = Tail(@)].pc = "pass" /\ [c EXCEPT !.todo = Tail(@)].tok = c.tok
        /\ [c EXCEPT !.todo = Tail(@)].todo = Tail(c.todo)
    BY <1>7, <2>1, <2>2 DEF Passing
  <2>4. GoodCall([c EXCEPT !.todo = Tail(@)])  BY <1>7, <2>1, <2>3 DEF GoodCall, Calls
  <2> QED  BY <1>6, <1>13, <2>1, <2>4, QuietSteps DEF Skip, IInv, Typed
<1>14. CASE Answered(p) \/ Unanswered(p)
  <2>1. /\ c.pc = "pass" /\ c.todo # <<>> /\ ~Hopeless(Head(c.todo), c.tok)
        /\ \/ told' = told
           \/ told' = told \cup {[d |-> Head(c.todo).d, tok |-> c.tok]}
    BY <1>14 DEF Answered, Unanswered, Sends, At, Hears, Bearer, Entries
  <2>2. PICK what \in {"retry", "expired", "reported", "refused"} :
          Goes(p, [pc |-> "settle", tok |-> c.tok, todo |-> c.todo, what |-> what])
    BY <1>14 DEF Answered, Unanswered, Settling
  <2>3. UNCHANGED <<token, dev, queue, home, fate, held, mu, rerun, first>>  BY <1>14 DEF Answered, Unanswered
  <2> HIDE DEF c
  <2>4. Head(c.todo) \in Entries4 /\ c.tok \in Tokens /\ Fits(Head(c.todo), c.tok)  BY <1>2, <1>7, <2>1
  <2>5. c.tok = Owner(Head(c.todo).d) /\ home[Head(c.todo).d] = Owner(Head(c.todo).d)
    BY <2>1, <2>4 DEF Hopeless, Fits
  <2>6. told' \subseteq [d : All, tok : Tokens]  BY <2>1, <2>4 DEF IInv, Typed, Entries4
  <2>7. \A t \in told' : t.tok = Owner(t.d) /\ home[t.d] = Owner(t.d)  BY <1>6, <2>1, <2>5
  <2>8. GoodCall([pc |-> "settle", tok |-> c.tok, todo |-> c.todo, what |-> what])  BY <1>11, <2>1
  <2> QED  BY <2>2, <2>3, <2>6, <2>7, <2>8, QuietSteps DEF IInv, Typed
<1>15. CASE Leave(p) \/ SettleFails(p)
  BY <1>4, <1>6, <1>15, QuietSteps DEF Leave, SettleFails, IInv, Typed
<1>16. CASE Unlock(p)
  <2>1. PICK to : GoodCall(to) /\ Goes(p, to)  BY <1>4, <1>5, <1>16 DEF Unlock
  <2> QED  BY <1>6, <1>16, <2>1, QuietSteps DEF Unlock, Freed, IInv, Typed
<1>17. CASE Settle(p)
  <2> DEFINE d == Head(c.todo).d
             to == [pc |-> "pass", tok |-> c.tok, todo |-> Tail(c.todo)]
  <2>1. c.pc = "settle" /\ Goes(p, to) /\ UNCHANGED <<token, dev, held, mu, rerun, first, home, told>>
    BY <1>17 DEF Settle
  <2>2. GoodCall(to)
    <3> HIDE DEF c
    <3>1. to \in Passing  BY <1>2, <1>3, <1>7, <2>1 DEF Passing
    <3> QED  BY <1>3, <1>7, <2>1, <3>1 DEF GoodCall, Calls
  <2>3. CASE queue' = Later(queue, d) /\ fate' = fate
    BY <2>1, <2>2, <2>3, RelabelKeepsInv, LaterProperties DEF IInv, Typed
  <2>4. CASE /\ c.what # "retry" /\ queue' = Without(queue, d)
             /\ Fate(Queued(queue) \cap {d}, c.what)
    <3> HIDE DEF d, to
    <3>1. /\ queue' \in Seq(Entries4) /\ Distinct(queue') /\ Len(queue') <= Len(queue)
          /\ Queued(queue') = Queued(queue) \ {d}
          /\ \A i \in 1..Len(queue') : \E j \in 1..Len(queue) : queue'[i] = queue[j]
      BY <1>1, <2>4, WithoutProperties DEF IInv
    <3>2. fate' = [e \in All |-> IF e \in Queued(queue) \cap {d} THEN c.what ELSE fate[e]]  BY <2>4 DEF Fate
    <3>3. c.what \in {"expired", "reported", "refused"}  BY <1>3, <2>1, <2>4
    <3> HIDE DEF c
    <3>4. fate' \in [All -> {"none", "owed", "reported", "refused", "expired", "capped", "discarded"}]
      BY <3>2, <3>3 DEF IInv, Typed
    <3>5. NoneForgotten'  BY <3>1, <3>2, <3>3 DEF IInv, NoneForgotten
    <3>6. Len(queue') <= Limit  BY <1>1, <3>1, LimitAssumption DEF IInv, Typed
    <3> QED  BY <2>1, <2>2, <3>1, <3>4, <3>5, <3>6, ShrinkKeepsInv
  <2> QED  BY <1>17, <2>3, <2>4 DEF Settle, Entries
<1> QED
  BY <1>8, <1>9, <1>10, <1>12, <1>13, <1>14, <1>15, <1>16, <1>17 DEF Pass

\* Every step.
LEMMA StepKeepsInv == IInv /\ [Next]_vars => IInv'
<1> SUFFICES ASSUME IInv, [Next]_vars PROVE IInv'  OBVIOUS
<1> USE DEF doc, ghost
<1>0. \A t \in told : t.tok = Owner(t.d) /\ home[t.d] = Owner(t.d)  BY DEF IInv, Homes
<1>1. Poller \in Callers /\ Flusher \in Callers  BY DEF Callers
<1>2. GoodCall(Idle) /\ GoodCall([pc |-> "try"])  BY DEF GoodCall, Calls, Idle
<1>3. \A e, tok : UNCHANGED home => (Fits(e, tok)' <=> Fits(e, tok))  BY DEF Fits
\* What changes neither the queue nor what its entries are about.
<1>4. ASSUME UNCHANGED <<token, dev, queue, home, fate, told>>, call' \in [Callers -> Calls],
             \A p \in Callers : call'[p] = call[p] \/ GoodCall(call'[p]),
             held' \in BOOLEAN, mu' \in Callers \cup {NoOne}, rerun' \in BOOLEAN,
             first' \in {"idle", "flushing", "flushed"},
             first' = first \/ first' = "idle" \/ \A d \in All : dev[d] # "active"
      PROVE  IInv'
  <2>1. Typed'  BY <1>4 DEF IInv, Typed
  <2>2. Homes'  BY <1>3, <1>4 DEF IInv, Homes
  <2>3. SnapshotsFit' /\ SettlesSomething'
    BY <1>3, <1>4 DEF IInv, SnapshotsFit, SettlesSomething, GoodCall
  <2>4. Distinct(queue)' /\ NoneForgotten'  BY <1>4 DEF IInv, Distinct, NoneForgotten, Queued
  <2> QED  BY <2>1, <2>2, <2>3, <2>4 DEF IInv
\* What empties the queue, with a device list and an identity of its own.
<1>5. ASSUME queue' = <<>>, fate' = [d \in All |-> IF d \in Queued(queue) THEN "discarded" ELSE fate[d]],
             token' \in Tokens \cup {NoToken}, held' \in BOOLEAN,
             dev' \in [All -> {"absent", "active", "revoked"}],
             \A d \in All : dev'[d] = "active" => token' = Owner(d),
             UNCHANGED <<mu, rerun, call, home, told>>, first' \in {"idle", "flushing", "flushed"},
             first' = "idle" \/ \A d \in All : dev'[d] # "active"
      PROVE  IInv'
  <2>1. queue' \in Seq(Entries4) /\ Len(queue') = 0  BY <1>5
  <2>2. Queued(queue') = {} /\ Distinct(queue')  BY <2>1 DEF Queued, Distinct
  <2>3. Typed'  BY <1>5, <2>1, LimitAssumption DEF IInv, Typed
  <2>4. Homes'  BY <1>0, <1>5, <2>1 DEF Homes
  <2>5. SnapshotsFit' /\ SettlesSomething'  BY <1>3, <1>5 DEF IInv, SnapshotsFit, SettlesSomething
  <2>6. NoneForgotten'  BY <1>5, <2>2 DEF IInv, NoneForgotten
  <2> QED  BY <2>2, <2>3, <2>4, <2>5, <2>6 DEF IInv
<1>6. CASE UNCHANGED vars  BY <1>4, <1>6 DEF vars, IInv, Typed
<1>7. ASSUME NEW d \in All, Revoke(d) PROVE IInv'  BY <1>7, RevokeKeepsInv
<1>8. CASE PollTick
  BY <1>0, <1>1, <1>2, <1>8, QuietSteps DEF PollTick, IInv, Typed
<1>9. CASE Swap
  <2>1. PICK to : GoodCall(to) /\ Goes(Poller, to)  BY <1>2, <1>9 DEF Swap
  <2> QED  BY <1>0, <1>1, <1>9, <2>1, QuietSteps DEF Swap, IInv, Typed
<1>10. ASSUME NEW p \in Callers, Pass(p) \/ Unanswered(p) \/ SettleFails(p) PROVE IInv'
  BY <1>10, PassKeepsInv
<1>11. CASE BeginFirst
  <2>1. CASE Goes(Flusher, [pc |-> "try"]) /\ first' = "flushing"
    BY <1>0, <1>1, <1>2, <1>11, <2>1, QuietSteps DEF BeginFirst, IInv, Typed
  <2>2. CASE call' = call /\ first' = "flushed"  BY <1>4, <1>11, <2>2 DEF BeginFirst, IInv, Typed
  <2> QED  BY <1>11, <2>1, <2>2 DEF BeginFirst
<1>12. CASE EndFlush
  <2>1. \A d \in All : dev[d] # "active"  BY <1>12 DEF EndFlush, IInv, Homes
  <2>2. CASE Goes(Flusher, Idle)
    BY <1>0, <1>1, <1>2, <1>12, <2>1, <2>2, QuietSteps DEF EndFlush, IInv, Typed
  <2>3. CASE call' = call  BY <1>4, <1>12, <2>1, <2>3 DEF EndFlush, IInv, Typed
  <2> QED  BY <1>12, <2>2, <2>3 DEF EndFlush
<1>13. CASE CommitFirst
  <2>1. /\ first = "flushed" /\ first' = "idle" /\ token' = 2 /\ queue' = <<>> /\ held' = FALSE
        /\ dev' = [dev EXCEPT ![Founder] = "active"]
        /\ fate' = [d \in All |-> IF d \in Queued(queue) THEN "discarded" ELSE fate[d]]
        /\ UNCHANGED <<mu, rerun, call, home, told>>
    BY <1>13 DEF CommitFirst, Fate
  <2>2. \A d \in All : dev[d] # "active"  BY <2>1 DEF IInv, Homes
  <2>3. /\ dev' \in [All -> {"absent", "active", "revoked"}]
        /\ \A d \in All : dev'[d] = "active" => d = Founder
    BY <2>1, <2>2 DEF IInv, Typed
  <2>4. token' \in Tokens /\ \A d \in All : dev'[d] = "active" => token' = Owner(d)  BY <2>1, <2>3 DEF Owner, Tokens
  <2> QED  BY <1>5, <2>1, <2>3, <2>4
<1>14. CASE Hold \/ Release  BY <1>4, <1>14 DEF Hold, Release, IInv, Typed
<1>15. CASE DropHousehold
  <2>1. /\ token' = NoToken /\ queue' = <<>> /\ dev' = [d \in All |-> "absent"] /\ held' = FALSE
        /\ fate' = [d \in All |-> IF d \in Queued(queue) THEN "discarded" ELSE fate[d]]
        /\ UNCHANGED <<mu, rerun, call, home, told, first>>
    BY <1>15 DEF DropHousehold, Fate
  <2>2. dev' \in [All -> {"absent", "active", "revoked"}] /\ \A d \in All : dev'[d] # "active"  BY <2>1
  <2>3. first \in {"idle", "flushing", "flushed"}  BY DEF IInv, Typed
  <2> QED  BY <1>5, <2>1, <2>2, <2>3
<1>16. CASE BackoffOver \/ Age
  <2>1. PICK i \in 1..Len(queue) : queue' = [queue EXCEPT ![i].due = TRUE] \/ queue' = [queue EXCEPT ![i].old = TRUE]
    BY <1>16 DEF BackoffOver, Age
  <2>2. queue \in Seq(Entries4) /\ queue[i] \in Entries4  BY DEF IInv, Typed
  <2>3. PICK e \in Entries4 : queue' = [queue EXCEPT ![i] = e] /\ e.d = queue[i].d /\ e.id = queue[i].id
    <3>1. CASE queue' = [queue EXCEPT ![i].due = TRUE]
      <4>1. [queue[i] EXCEPT !.due = TRUE] \in Entries4  BY <2>2 DEF Entries4
      <4>2. queue' = [queue EXCEPT ![i] = [queue[i] EXCEPT !.due = TRUE]]  BY <3>1
      <4> QED  BY <2>2, <4>1, <4>2 DEF Entries4
    <3>2. CASE queue' = [queue EXCEPT ![i].old = TRUE]
      <4>1. [queue[i] EXCEPT !.old = TRUE] \in Entries4  BY <2>2 DEF Entries4
      <4>2. queue' = [queue EXCEPT ![i] = [queue[i] EXCEPT !.old = TRUE]]  BY <3>2
      <4> QED  BY <2>2, <4>1, <4>2 DEF Entries4
    <3> QED  BY <2>1, <3>1, <3>2
  <2>4. /\ queue' \in Seq(Entries4) /\ Len(queue') = Len(queue)
        /\ \A j \in 1..Len(queue) : queue'[j].d = queue[j].d /\ queue'[j].id = queue[j].id
    BY <2>2, <2>3
  <2> QED  BY <1>1, <1>2, <1>16, <2>4, RelabelKeepsInv DEF BackoffOver, Age
<1>17. CASE Restart
  <2>1. call' = [p \in Callers |-> Idle] /\ Idle \in Calls  BY <1>17 DEF Restart, Idle, Calls
  <2> QED  BY <1>2, <1>4, <1>17, <2>1 DEF Restart, IInv, Typed
<1> QED
  BY <1>6, <1>7, <1>8, <1>9, <1>10, <1>11, <1>12, <1>13, <1>14, <1>15, <1>16, <1>17 DEF Next

\* The inductive invariant holds in every state the program reaches.
THEOREM Invariance == Spec => []IInv
BY InitInv, StepKeepsInv, PTL DEF Spec

-----------------------------------------------------------------------------
\* The queue keeps its cap and every variable its type.
THEOREM TypeCorrect == Spec => []TypeOK
<1>1. IInv => TypeOK
  <2> SUFFICES ASSUME IInv PROVE TypeOK  OBVIOUS
  <2>1. ASSUME NEW p \in Callers
        PROVE  call[p].pc \in {"idle", "try", "refused", "pass", "settle", "leave", "unlocked"}
    <3>1. call[p] \in Calls  BY DEF IInv, Typed
    <3>2. CASE call[p] \in Passing  BY <3>2 DEF Passing
    <3>3. CASE call[p] \in Answering  BY <3>3 DEF Answering
    <3> QED  BY <3>1, <3>2, <3>3 DEF Calls
  <2>2. \A i \in 1..Len(queue) : queue[i] \in Entries4  BY DEF IInv, Typed
  <2>3. told \subseteq [d : All, tok : Tokens \cup {NoToken}]  BY DEF IInv, Typed
  <2> QED  BY <2>1, <2>2, <2>3 DEF IInv, Typed, TypeOK
<1> QED  BY <1>1, Invariance, PTL

\* A device's removal is in the queue until it was answered, or it expired, was
\* capped or discarded: no pass, cap or founding loses one (settleRemoval works
\* on the current document, by device).
THEOREM NothingForgotten == Spec => []NoneForgotten
<1>1. IInv => NoneForgotten  BY DEF IInv
<1> QED  BY <1>1, Invariance, PTL

\* No report goes out under another identity than the one its removal was queued
\* under, however old the snapshot of the pass that sends it (removalPass).
THEOREM ReportedUnderOwn == Spec => []OwnIdentity
<1>1. IInv => OwnIdentity  BY DEF IInv, Homes, OwnIdentity
<1> QED  BY <1>1, Invariance, PTL
=============================================================================
