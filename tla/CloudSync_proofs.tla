-------------------------- MODULE CloudSync_proofs --------------------------
(***************************************************************************)
(* Proofs about CloudSync, for every set of controllers, values and        *)
(* goroutines and every bound: no flag is cleared whose change the cloud   *)
(* does not have, and the cloud's rows never go back.                      *)
(***************************************************************************)
EXTENDS CloudSync, TLAPS

AnyItem == [c : Controllers, val : Values, rev : Nat, guid : Nat]
Quiet == [pc : {"idle", "try", "refused", "leave", "unlocked"}]
InRound == [pc : {"round"}, round : Nat]
Sending == [pc : {"send"}, round : Nat, got : BOOLEAN, todo : SUBSET AnyItem]
Waiting == [pc : {"answered"}, round : Nat, got : BOOLEAN, todo : SUBSET AnyItem, item : AnyItem]
AnyCall == Quiet \cup InRound \cup Sending \cup Waiting

Typed ==
    /\ cfg \in [Controllers -> Values] /\ rev \in [Controllers -> Nat]
    /\ pending \in [Controllers -> BOOLEAN]
    /\ guid \in [Controllers -> Nat \ {0}] /\ live \in [Controllers -> Nat \ {0}]
    /\ row \in [Controllers -> [val : Values, rev : Nat]]
    /\ call \in [Callers -> AnyCall]

\* syncMu: one pass at a time.
SingleFlight == \A p \in Callers : call[p].pc \in {"round", "send", "answered", "leave"} => mu = p

\* The cloud is never ahead of the document.
Behind == \A c \in Controllers : row[c].rev <= rev[c] /\ guid[c] <= live[c]

\* What a pass still has to send, of its snapshot: one entry per controller, all
\* of them flagged, and none older than what the cloud has.
Snapshot(item) ==
    /\ item.rev <= rev[item.c] /\ (item.rev = rev[item.c] => item.val = cfg[item.c])
    /\ item.guid <= live[item.c] /\ item.guid # 0
    /\ pending[item.c]

Unsent ==
    \A p \in Callers : call[p].pc \in {"send", "answered"} =>
        /\ \A i \in call[p].todo : Snapshot(i) /\ row[i.c].rev <= i.rev
        /\ \A i, j \in call[p].todo : i.c = j.c => i = j

\* The entry whose answer has come, and what the answer says of the cloud.
Replied ==
    \A p \in Callers : call[p].pc = "answered" =>
        LET item == call[p].item IN
        /\ Snapshot(item)
        /\ \A i \in call[p].todo : i.c # item.c
        /\ live[item.c] = 1 => row[item.c].val = item.val \/ item.val \in Refused

IInv == Typed /\ SingleFlight /\ Behind /\ Unsent /\ Replied /\ CurrentUnlessRotated

\* Where a call is tells what it holds.
LEMMA CallTypes ==
  ASSUME NEW a \in AnyCall
  PROVE  /\ a.pc = "round" => a \in InRound
         /\ a.pc = "send" => a \in Sending
         /\ a.pc = "answered" => a \in Waiting
         /\ a.pc \notin {"round", "send", "answered"} => a \in Quiet
BY DEF AnyCall, Quiet, InRound, Sending, Waiting

\* The invariant holds at the start.
LEMMA InitInv == Init => IInv
<1> SUFFICES ASSUME Init PROVE IInv  OBVIOUS
<1>1. First \in Values  BY FirstAssumption
<1>2. call \in [Callers -> AnyCall] /\ \A p \in Callers : call[p].pc = "idle"
  BY DEF Init, Idle, AnyCall, Quiet
<1>3. Typed  BY <1>1, <1>2 DEF Init, Typed
<1>4. SingleFlight /\ Unsent /\ Replied  BY <1>2 DEF SingleFlight, Unsent, Replied
<1>5. Behind /\ CurrentUnlessRotated  BY DEF Init, Behind, CurrentUnlessRotated, Known
<1> QED  BY <1>3, <1>4, <1>5 DEF IInv

\* A call that moves to a state with nothing to send, the rest unchanged.
LEMMA QuietSteps ==
  ASSUME IInv, UNCHANGED <<cfg, rev, pending, guid, row, live>>,
         call' \in [Callers -> AnyCall], SingleFlight',
         \A q \in Callers : call'[q] = call[q] \/ call'[q].pc \notin {"send", "answered"}
  PROVE  IInv'
<1>1. Typed' /\ Behind'  BY DEF IInv, Typed, Behind
<1>2. \A i : Snapshot(i)' <=> Snapshot(i)  BY DEF Snapshot
<1>3. Unsent'  BY <1>2 DEF IInv, Unsent
<1>4. Replied'  BY <1>2 DEF IInv, Replied
<1>5. CurrentUnlessRotated'  BY DEF IInv, CurrentUnlessRotated, Known
<1> QED  BY <1>1, <1>3, <1>4, <1>5 DEF IInv

\* Changes and rotations, which come between the steps of a pass.
LEMMA RequestsKeepInv ==
  ASSUME IInv, NEW c \in Controllers,
         (\E v \in Values, k \in Kicks : PutController(c, v, k)) \/ RotateInCloud(c) \/ RotateHere(c)
  PROVE  IInv'
<1> USE DEF doc, cloud
<1>1. CASE \E v \in Values, k \in Kicks : PutController(c, v, k)
  <2>1. PICK v \in Values, k \in Kicks : PutController(c, v, k)  BY <1>1
  <2>2. /\ cfg' = [cfg EXCEPT ![c] = v] /\ rev' = [rev EXCEPT ![c] = @ + 1] /\ pending' = [pending EXCEPT ![c] = TRUE]
        /\ call[k] = Idle /\ call' = [call EXCEPT ![k] = [pc |-> "try"]]
        /\ UNCHANGED <<guid, row, live, mu>>
    BY <2>1 DEF PutController
  <2>3. k \in Callers /\ [pc |-> "try"] \in AnyCall  BY DEF Callers, AnyCall, Quiet
  <2>4. Typed'  BY <2>2, <2>3 DEF IInv, Typed
  <2>5. SingleFlight'  BY <2>2, <2>3 DEF IInv, Typed, SingleFlight
  <2>6. Behind'  BY <2>2 DEF IInv, Typed, Behind
  <2>7. \A i \in AnyItem : Snapshot(i) => Snapshot(i)'  BY <2>2 DEF IInv, Typed, Snapshot, AnyItem
  <2>8. \A p \in Callers : call'[p].pc \in {"send", "answered"} => call'[p] = call[p]
    BY <2>2, <2>3 DEF IInv, Typed
  <2>9. Unsent'
    <3> SUFFICES ASSUME NEW p \in Callers, call'[p].pc \in {"send", "answered"}
                 PROVE  /\ \A i \in call[p].todo : Snapshot(i)' /\ row'[i.c].rev <= i.rev
                        /\ \A i, j \in call[p].todo : i.c = j.c => i = j
      BY <2>8 DEF Unsent
    <3>1. call[p] \in Sending \cup Waiting  BY <2>8, CallTypes DEF IInv, Typed
    <3>2. call[p].todo \subseteq AnyItem  BY <3>1 DEF Sending, Waiting
    <3> QED  BY <2>2, <2>7, <2>8, <3>2 DEF IInv, Unsent
  <2>10. Replied'
    <3> SUFFICES ASSUME NEW p \in Callers, call'[p].pc = "answered"
                 PROVE  /\ Snapshot(call[p].item)' /\ \A i \in call[p].todo : i.c # call[p].item.c
                        /\ live'[call[p].item.c] = 1 => \/ row'[call[p].item.c].val = call[p].item.val
                                                       \/ call[p].item.val \in Refused
      BY <2>8 DEF Replied
    <3>1. call[p] \in Waiting  BY <2>8, CallTypes DEF IInv, Typed
    <3>2. call[p].item \in AnyItem  BY <3>1 DEF Waiting
    <3> QED  BY <2>2, <2>7, <2>8, <3>2 DEF IInv, Replied
  <2>11. CurrentUnlessRotated'  BY <2>2 DEF IInv, Typed, CurrentUnlessRotated, Known
  <2> QED  BY <2>4, <2>5, <2>6, <2>9, <2>10, <2>11 DEF IInv
<1>2. CASE RotateInCloud(c)
  <2>1. live' = [live EXCEPT ![c] = @ + 1] /\ UNCHANGED <<cfg, rev, pending, guid, row, mu, call>>
    BY <1>2 DEF RotateInCloud
  <2>2. live' \in [Controllers -> Nat \ {0}] /\ \A d \in Controllers : live[d] <= live'[d] /\ (live'[d] = 1 => live[d] = 1)
    BY <2>1 DEF IInv, Typed
  <2>3. Typed' /\ SingleFlight' /\ Behind'  BY <2>1, <2>2 DEF IInv, Typed, SingleFlight, Behind
  <2>4. ASSUME NEW i \in AnyItem, Snapshot(i) PROVE Snapshot(i)'
    <3>1. i.c \in Controllers /\ i.guid \in Nat /\ i.guid <= live[i.c] /\ live[i.c] \in Nat /\ live'[i.c] \in Nat
      BY <2>2, <2>4 DEF IInv, Typed, Snapshot, AnyItem
    <3>2. i.guid <= live'[i.c]  BY <2>2, <3>1
    <3> QED  BY <2>1, <2>4, <3>2 DEF Snapshot
  <2>5. Unsent'
    <3> SUFFICES ASSUME NEW p \in Callers, call[p].pc \in {"send", "answered"}, NEW i \in call[p].todo
                 PROVE  Snapshot(i)'
      BY <2>1 DEF IInv, Unsent
    <3>1. call[p] \in Sending \cup Waiting  BY CallTypes DEF IInv, Typed
    <3>2. i \in AnyItem  BY <3>1 DEF Sending, Waiting
    <3> QED  BY <2>4, <3>2 DEF IInv, Unsent
  <2>6. Replied'
    <3> SUFFICES ASSUME NEW p \in Callers, call[p].pc = "answered"
                 PROVE  Snapshot(call[p].item)' /\ (live'[call[p].item.c] = 1 => live[call[p].item.c] = 1)
      BY <2>1 DEF IInv, Replied
    <3>1. call[p] \in Waiting  BY CallTypes DEF IInv, Typed
    <3>2. call[p].item \in AnyItem /\ call[p].item.c \in Controllers  BY <3>1 DEF Waiting, AnyItem
    <3>3. Snapshot(call[p].item)  BY DEF IInv, Replied
    <3>4. Snapshot(call[p].item)'  BY <2>1, <2>4, <3>2, <3>3 DEF Snapshot
    <3> QED  BY <2>2, <3>2, <3>4
  <2>7. CurrentUnlessRotated'  BY <2>1, <2>2 DEF IInv, CurrentUnlessRotated, Known
  <2> QED  BY <2>3, <2>5, <2>6, <2>7 DEF IInv
<1>3. CASE RotateHere(c)
  <2>1. guid' = [guid EXCEPT ![c] = live[c]] /\ UNCHANGED <<cfg, rev, pending, row, live, mu, call>>
    BY <1>3 DEF RotateHere
  <2>2. Typed' /\ SingleFlight' /\ Behind'  BY <2>1 DEF IInv, Typed, SingleFlight, Behind
  <2>3. \A i : Snapshot(i)' <=> Snapshot(i)  BY <2>1 DEF Snapshot
  <2> QED  BY <2>1, <2>2, <2>3 DEF IInv, Unsent, Replied, CurrentUnlessRotated, Known
<1> QED  BY <1>1, <1>2, <1>3

\* A pass sends one of its entries, or gives it up.
LEMMA SendingKeepsInv ==
  ASSUME IInv, NEW p \in Callers, Accepted(p) \/ Rejected(p) \/ Unanswered(p)
  PROVE  /\ IInv' /\ \A c \in Controllers : row'[c].rev >= row[c].rev
<1> USE DEF doc, cloud
<1>1. call[p].pc = "send" /\ UNCHANGED <<cfg, rev, pending, guid, live, mu>>
  BY DEF Accepted, Rejected, Unanswered
<1>2. call[p] \in Sending /\ mu = p  BY <1>1, CallTypes DEF IInv, Typed, SingleFlight
<1>3. PICK item \in call[p].todo :
        /\ UNCHANGED row \/ (Reaches(item) /\ Sent(item))
        /\ \/ call' = [call EXCEPT ![p].todo = @ \ {item}]
           \/ /\ Answered(p, item)
              /\ (Reaches(item) /\ Sent(item)) \/ (~Reaches(item) /\ UNCHANGED row)
  BY DEF Accepted, Rejected, Unanswered
<1>4. item \in AnyItem /\ Snapshot(item) /\ row[item.c].rev <= item.rev /\ item.c \in Controllers
  BY <1>1, <1>2 DEF IInv, Unsent, Sending, AnyItem
<1>5. /\ row' \in [Controllers -> [val : Values, rev : Nat]]
      /\ \A c \in Controllers : /\ row'[c].rev >= row[c].rev /\ row'[c].rev <= rev[c]
                                /\ c # item.c => row'[c] = row[c]
  <2>1. CASE UNCHANGED row  BY <2>1 DEF IInv, Typed, Behind
  <2>2. CASE Sent(item)
    <3>1. row' = [row EXCEPT ![item.c] = [val |-> item.val, rev |-> item.rev]]  BY <2>2 DEF Sent
    <3> QED  BY <1>4, <3>1 DEF IInv, Typed, Behind, Snapshot, AnyItem
  <2> QED  BY <1>3, <2>1, <2>2
<1>6. \A i : Snapshot(i)' <=> Snapshot(i)  BY <1>1 DEF Snapshot
<1>7. \A i \in call[p].todo \ {item} : /\ Snapshot(i) /\ i.c # item.c /\ i.c \in Controllers
                                      /\ row'[i.c].rev <= i.rev
  BY <1>1, <1>2, <1>5 DEF IInv, Unsent, Sending, AnyItem
<1>8. \A q \in Callers : q # p => call[q].pc \notin {"send", "answered"}
  BY <1>2 DEF IInv, SingleFlight
<1>9. CurrentUnlessRotated'
  BY <1>1, <1>4, <1>5 DEF IInv, CurrentUnlessRotated, Known, Snapshot
<1>10. Behind'  BY <1>1, <1>5 DEF IInv, Behind
<1>11. CASE call' = [call EXCEPT ![p].todo = @ \ {item}]
  <2>1. [call[p] EXCEPT !.todo = @ \ {item}] \in Sending  BY <1>2 DEF Sending
  <2>2. /\ call' = [call EXCEPT ![p] = [call[p] EXCEPT !.todo = @ \ {item}]]
        /\ call'[p].pc = "send" /\ call'[p].todo = call[p].todo \ {item}
        /\ \A q \in Callers : q # p => call'[q] = call[q]
    BY <1>1, <1>2, <1>11 DEF IInv, Typed, Sending
  <2>3. call' \in [Callers -> AnyCall]  BY <2>1, <2>2 DEF IInv, Typed, AnyCall
  <2>4. Typed'  BY <1>1, <1>5, <2>3 DEF IInv, Typed
  <2>5. SingleFlight'  BY <1>1, <1>2, <2>2 DEF IInv, SingleFlight
  <2>6. Unsent'
    <3>1. \A i, j \in call[p].todo : i.c = j.c => i = j  BY <1>1 DEF IInv, Unsent
    <3> QED  BY <1>6, <1>7, <1>8, <2>2, <3>1 DEF Unsent
  <2>7. Replied'  BY <1>8, <2>2 DEF Replied
  <2> QED  BY <1>5, <1>9, <1>10, <2>4, <2>5, <2>6, <2>7 DEF IInv
<1>12. CASE Answered(p, item) /\ ((Reaches(item) /\ Sent(item)) \/ (~Reaches(item) /\ UNCHANGED row))
  <2> DEFINE to == [pc |-> "answered", round |-> call[p].round, got |-> call[p].got,
                    todo |-> call[p].todo \ {item}, item |-> item]
  <2>1. to \in Waiting  BY <1>2, <1>4 DEF Sending, Waiting
  <2>2. call' = [call EXCEPT ![p] = to]  BY <1>12 DEF Answered
  <2>3. call' \in [Callers -> AnyCall] /\ call'[p] = to /\ \A q \in Callers : q # p => call'[q] = call[q]
    BY <2>1, <2>2 DEF IInv, Typed, AnyCall
  <2>4. Typed'  BY <1>1, <1>5, <2>3 DEF IInv, Typed
  <2>5. SingleFlight'  BY <1>1, <1>2, <2>3 DEF IInv, SingleFlight
  <2>6. Unsent'
    <3>1. \A i, j \in call[p].todo : i.c = j.c => i = j  BY <1>1 DEF IInv, Unsent
    <3> QED  BY <1>6, <1>7, <1>8, <2>3, <3>1 DEF Unsent
  <2>7. live[item.c] = 1 => row'[item.c].val = item.val \/ item.val \in Refused
    <3>1. CASE Reaches(item) /\ Sent(item)  BY <1>4, <3>1 DEF IInv, Typed, Sent
    <3>2. CASE ~Reaches(item) /\ UNCHANGED row
      <4>1. item.guid \in Nat /\ live[item.c] \in Nat  BY <1>4 DEF IInv, Typed, AnyItem
      <4>2. live[item.c] = 1 => item.guid = live[item.c]  BY <1>4, <4>1 DEF Snapshot
      <4> QED  BY <3>2, <4>2 DEF Reaches
    <3> QED  BY <1>12, <3>1, <3>2
  <2>8. Replied'  BY <1>1, <1>4, <1>6, <1>7, <1>8, <2>3, <2>7 DEF Replied
  <2> QED  BY <1>5, <1>9, <1>10, <2>4, <2>5, <2>6, <2>8 DEF IInv
<1> QED  BY <1>3, <1>5, <1>11, <1>12

\* The steps of a pass: only the holder of syncMu writes rows, and what it sends
\* is not older than what is there.
LEMMA PassKeepsInv ==
  ASSUME IInv, NEW p \in Callers, Works(p) \/ Fails(p)
  PROVE  /\ IInv' /\ \A c \in Controllers : row'[c].rev >= row[c].rev
<1> USE DEF doc, cloud
<1>0. call[p] \in AnyCall /\ (UNCHANGED row => \A c \in Controllers : row'[c].rev >= row[c].rev)
  BY DEF IInv, Typed
<1>1. CASE Accepted(p) \/ Rejected(p) \/ Unanswered(p)  BY <1>1, SendingKeepsInv
\* Steps that leave nothing to send behind, under the lock or without it.
<1>2. ASSUME NEW to \in Quiet \cup InRound, call' = [call EXCEPT ![p] = to],
             UNCHANGED <<cfg, rev, pending, guid, row, live>>,
             to.pc \in {"round", "leave"} => mu' = p,
             mu' = mu \/ mu = NoOne \/ mu = p
      PROVE  IInv'
  <2>1. call' \in [Callers -> AnyCall] /\ to.pc \notin {"send", "answered"}
        /\ call'[p] = to /\ \A q \in Callers : q # p => call'[q] = call[q]
    BY <1>2 DEF IInv, Typed, AnyCall, Quiet, InRound
  <2>2. NoOne \notin Callers  BY KicksAssumption DEF NoOne, Callers, Poller
  <2>3. SingleFlight'  BY <1>2, <2>1, <2>2 DEF IInv, SingleFlight
  <2> QED  BY <1>2, <2>1, <2>3, QuietSteps
<1>3. \A pc \in {"idle", "try", "refused", "leave", "unlocked"} : [pc |-> pc] \in Quiet /\ [pc |-> pc].pc = pc
  BY DEF Quiet
<1>4. \A n \in Nat : [pc |-> "round", round |-> n] \in InRound  BY DEF InRound
<1>5. CASE Start(p)
  <2>1. CASE mu' = p /\ call' = [call EXCEPT ![p] = [pc |-> "round", round |-> 1]]
    BY <1>0, <1>2, <1>4, <1>5, <2>1 DEF Start, LockFree
  <2>2. CASE mu' = mu /\ call' = [call EXCEPT ![p] = [pc |-> "refused"]]
    BY <1>0, <1>2, <1>3, <1>5, <2>2 DEF Start
  <2> QED  BY <1>0, <1>5, <2>1, <2>2 DEF Start
<1>6. CASE AskRerun(p)
  BY <1>0, <1>2, <1>3, <1>6 DEF AskRerun, Idle
<1>7. CASE BeginRound(p)
  <2>1. call[p].pc = "round" /\ UNCHANGED <<cfg, rev, pending, guid, row, live, mu>>  BY <1>7 DEF BeginRound
  <2>2. call[p] \in InRound /\ mu = p  BY <1>0, <2>1, CallTypes DEF IInv, SingleFlight
  <2>3. CASE call' = [call EXCEPT ![p] = [pc |-> "leave"]]  BY <1>0, <1>2, <1>3, <2>1, <2>2, <2>3
  <2> DEFINE todo == {[c |-> c, val |-> cfg[c], rev |-> rev[c], guid |-> guid[c]] : c \in Flagged}
             to == [pc |-> "send", round |-> call[p].round, got |-> FALSE, todo |-> todo]
  <2>4. CASE call' = [call EXCEPT ![p] = to]
    <3>1. todo \subseteq AnyItem  BY DEF IInv, Typed, Flagged, AnyItem
    <3>2. \A i \in todo : Snapshot(i) /\ row[i.c].rev <= i.rev
      BY DEF IInv, Typed, Behind, Snapshot, Flagged
    <3>3. \A i, j \in todo : i.c = j.c => i = j  OBVIOUS
    <3> HIDE DEF todo
    <3>4. to \in Sending  BY <2>2, <3>1 DEF InRound, Sending
    <3>5. call' \in [Callers -> AnyCall] /\ call'[p] = to /\ \A q \in Callers : q # p => call'[q] = call[q]
      BY <2>4, <3>4 DEF IInv, Typed, AnyCall
    <3>6. Typed' /\ Behind' /\ CurrentUnlessRotated'
      BY <2>1, <3>5 DEF IInv, Typed, Behind, CurrentUnlessRotated, Known
    <3>7. SingleFlight'  BY <2>1, <2>2, <3>5 DEF IInv, SingleFlight
    <3>8. \A i : Snapshot(i)' <=> Snapshot(i)  BY <2>1 DEF Snapshot
    <3>9. Unsent'
      <4> SUFFICES ASSUME NEW q \in Callers, call'[q].pc \in {"send", "answered"}
                   PROVE  /\ \A i \in call'[q].todo : Snapshot(i)' /\ row'[i.c].rev <= i.rev
                          /\ \A i, j \in call'[q].todo : i.c = j.c => i = j
        BY DEF Unsent
      <4>1. CASE q = p  BY <2>1, <3>2, <3>3, <3>5, <3>8, <4>1
      <4>2. CASE q # p  BY <2>1, <3>5, <3>8, <4>2 DEF IInv, Unsent
      <4> QED  BY <4>1, <4>2
    <3>10. Replied'
      <4>1. \A q \in Callers : q # p => call[q].pc # "answered"  BY <2>2 DEF IInv, SingleFlight
      <4>2. \A q \in Callers : call'[q].pc # "answered"  BY <3>5, <4>1
      <4> QED  BY <4>2 DEF Replied
    <3> QED  BY <1>0, <2>1, <3>6, <3>7, <3>9, <3>10 DEF IInv
  <2> QED  BY <1>0, <1>7, <2>1, <2>3, <2>4 DEF BeginRound
<1>8. CASE Clear(p)
  <2> DEFINE item == call[p].item
             to == [pc |-> "send", round |-> call[p].round, got |-> TRUE, todo |-> call[p].todo]
  <2>1. /\ call[p].pc = "answered" /\ UNCHANGED <<cfg, rev, guid, row, live, mu>>
        /\ pending' = [pending EXCEPT ![item.c] = @ /\ ~Unchanged(item)]
        /\ call' = [call EXCEPT ![p] = to]
    BY <1>8 DEF Clear
  <2>2. call[p] \in Waiting /\ mu = p  BY <1>0, <2>1, CallTypes DEF IInv, SingleFlight
  <2>3. /\ item \in AnyItem /\ Snapshot(item) /\ \A i \in call[p].todo : i.c # item.c
        /\ live[item.c] = 1 => row[item.c].val = item.val \/ item.val \in Refused
    BY <2>1, <2>2 DEF IInv, Replied, Waiting
  <2>4. to \in Sending  BY <2>2 DEF Waiting, Sending
  <2>5. call' \in [Callers -> AnyCall] /\ call'[p] = to /\ \A q \in Callers : q # p => call'[q] = call[q]
    BY <2>1, <2>4 DEF IInv, Typed, AnyCall
  <2> HIDE DEF item
  <2>6. /\ pending' \in [Controllers -> BOOLEAN]
        /\ \A c \in Controllers : c # item.c => pending'[c] = pending[c]
        /\ ~pending'[item.c] => Unchanged(item)
    <3>1. item.c \in Controllers /\ pending[item.c] = TRUE  BY <2>3 DEF IInv, Typed, Snapshot, AnyItem
    <3>2. pending' = [pending EXCEPT ![item.c] = ~Unchanged(item)]  BY <2>1, <3>1 DEF IInv, Typed
    <3>3. (~Unchanged(item)) \in BOOLEAN  BY DEF Unchanged
    <3> HIDE DEF Unchanged
    <3> QED  BY <3>1, <3>2, <3>3 DEF IInv, Typed
  <2>7. Typed' /\ Behind'  BY <2>1, <2>5, <2>6 DEF IInv, Typed, Behind
  <2>8. SingleFlight'  BY <2>1, <2>2, <2>5 DEF IInv, SingleFlight
  <2>9. \A q \in Callers : q # p => call'[q].pc \notin {"send", "answered"}
    BY <2>2, <2>5 DEF IInv, SingleFlight
  <2>10. Unsent'
    <3>1. \A i \in call[p].todo : Snapshot(i) /\ row[i.c].rev <= i.rev /\ i.c # item.c /\ i.c \in Controllers
      BY <2>1, <2>2, <2>3 DEF IInv, Unsent, Waiting, AnyItem
    <3>2. \A i \in call[p].todo : Snapshot(i)'  BY <2>1, <2>6, <3>1 DEF Snapshot
    <3>3. \A i, j \in call[p].todo : i.c = j.c => i = j  BY <2>1 DEF IInv, Unsent
    <3> QED  BY <2>1, <2>5, <2>9, <3>1, <3>2, <3>3 DEF Unsent
  <2>11. Replied'  BY <2>5, <2>9 DEF Replied
  <2>12. CurrentUnlessRotated'
    <3> SUFFICES ASSUME NEW c \in Controllers, live[c] = 1, ~pending'[c] PROVE Known(c)
      BY <2>1 DEF CurrentUnlessRotated, Known
    <3>1. CASE c # item.c  BY <2>6, <3>1 DEF IInv, CurrentUnlessRotated
    <3>2. CASE c = item.c
      <4>1. item.val = cfg[c]  BY <2>3, <2>6, <3>2 DEF Unchanged, Snapshot
      <4> QED  BY <2>3, <3>2, <4>1 DEF Known
    <3> QED  BY <3>1, <3>2
  <2> QED  BY <1>0, <2>1, <2>7, <2>8, <2>10, <2>11, <2>12 DEF IInv
<1>9. CASE ClearFails(p)
  BY <1>0, <1>2, <1>3, <1>9 DEF ClearFails, IInv, SingleFlight
<1>10. CASE EndRound(p)
  <2>1. call[p].pc = "send" /\ UNCHANGED <<cfg, rev, pending, guid, row, live, mu>>  BY <1>10 DEF EndRound
  <2>2. call[p].round \in Nat /\ mu = p  BY <1>0, <2>1, CallTypes DEF IInv, SingleFlight, Sending
  <2>3. call[p].round + 1 \in Nat  BY <2>2
  <2>4. \/ call' = [call EXCEPT ![p] = [pc |-> "leave"]]
        \/ call' = [call EXCEPT ![p] = [pc |-> "round", round |-> call[p].round + 1]]
    BY <1>10 DEF EndRound
  <2> QED  BY <1>0, <1>2, <1>3, <1>4, <2>1, <2>2, <2>3, <2>4
<1>11. CASE Unlock(p)
  <2>1. call[p].pc = "leave" /\ mu' = NoOne /\ UNCHANGED <<cfg, rev, pending, guid, row, live>>
    BY <1>11 DEF Unlock, Freed
  <2>2. call[p] \in Quiet /\ mu = p  BY <1>0, <2>1, CallTypes DEF IInv, SingleFlight
  <2>3. call' = [call EXCEPT ![p] = [pc |-> "unlocked"]]
    <3>1. [call[p] EXCEPT !.pc = "unlocked"] = [pc |-> "unlocked"]  BY <2>2 DEF Quiet
    <3>2. call' = [call EXCEPT ![p] = [call[p] EXCEPT !.pc = "unlocked"]]  BY <1>11 DEF Unlock, Goes
    <3> QED  BY <3>1, <3>2
  <2> QED  BY <1>0, <1>2, <1>3, <2>1, <2>2, <2>3
<1>12. CASE Swap(p)
  <2>1. \/ call' = [call EXCEPT ![p] = [pc |-> "try"]]
        \/ call' = [call EXCEPT ![p] = [pc |-> "idle"]]
    BY <1>12 DEF Swap, Idle
  <2> QED  BY <1>0, <1>2, <1>3, <1>12, <2>1 DEF Swap
<1> QED
  BY <1>1, <1>5, <1>6, <1>7, <1>8, <1>9, <1>10, <1>11, <1>12 DEF Works, Fails

\* Every step.
LEMMA StepKeepsInv ==
  ASSUME IInv, [Next]_vars
  PROVE  /\ IInv' /\ \A c \in Controllers : row'[c].rev >= row[c].rev
<1> USE DEF doc, cloud
<1>0. /\ NoOne \notin Callers /\ [pc |-> "try"] \in Quiet /\ Idle \in Quiet /\ Poller \in Callers
      /\ UNCHANGED row => \A c \in Controllers : row'[c].rev >= row[c].rev
  BY KicksAssumption DEF NoOne, Callers, Poller, Quiet, Idle, IInv, Typed
<1>1. CASE UNCHANGED vars
  BY <1>0, <1>1, QuietSteps DEF vars, IInv, Typed, SingleFlight
<1>2. ASSUME NEW c \in Controllers,
             (\E v \in Values, k \in Kicks : PutController(c, v, k)) \/ RotateInCloud(c) \/ RotateHere(c)
      PROVE  IInv' /\ UNCHANGED row
  BY <1>2, RequestsKeepInv DEF PutController, RotateInCloud, RotateHere
<1>3. CASE RotateFails \/ Park \/ Resume
  BY <1>0, <1>3, QuietSteps DEF RotateFails, Park, Resume, IInv, Typed, SingleFlight
<1>4. CASE PollTick
  <2>1. call' = [call EXCEPT ![Poller] = [pc |-> "try"]] /\ UNCHANGED <<cfg, rev, pending, guid, row, live, mu>>
    BY <1>4 DEF PollTick
  <2>2. call' \in [Callers -> AnyCall]  BY <1>0, <2>1 DEF IInv, Typed, AnyCall
  <2>3. \A q \in Callers : call'[q] = call[q] \/ call'[q].pc = "try"  BY <2>1 DEF IInv, Typed
  <2>4. SingleFlight'  BY <2>1, <2>3 DEF IInv, SingleFlight
  <2> QED  BY <1>0, <2>1, <2>2, <2>3, <2>4, QuietSteps
<1>5. CASE Restart
  <2>1. call' = [q \in Callers |-> Idle] /\ UNCHANGED <<cfg, rev, pending, guid, row, live>>  BY <1>5 DEF Restart
  <2>2. call' \in [Callers -> AnyCall] /\ \A q \in Callers : call'[q].pc = "idle"
    BY <1>0, <2>1 DEF AnyCall, Idle
  <2>3. SingleFlight'  BY <2>2 DEF SingleFlight
  <2> QED  BY <1>0, <2>1, <2>2, <2>3, QuietSteps
<1>6. ASSUME NEW p \in Callers, Works(p) \/ Fails(p)
      PROVE  IInv' /\ \A c \in Controllers : row'[c].rev >= row[c].rev
  BY <1>6, PassKeepsInv
<1> QED  BY <1>0, <1>1, <1>2, <1>3, <1>4, <1>5, <1>6 DEF Next

\* The inductive invariant holds in every state the program reaches: one pass at
\* a time, and what the flags, the rows and the pass in flight have in common.
THEOREM Invariance == Spec => []IInv
BY InitInv, StepKeepsInv, PTL DEF Spec

-----------------------------------------------------------------------------
\* A controller without a flag is known to the cloud as it is, or refused, as
\* long as it was not rotated: the clear is guarded by the revision that was
\* sent, and syncMu keeps an older pass from having the last word.
THEOREM NoChangeLost == Spec => []CurrentUnlessRotated
<1>1. IInv => CurrentUnlessRotated  BY DEF IInv
<1> QED  BY <1>1, Invariance, PTL

\* The cloud's row of a controller never goes back to an older value.
THEOREM RowsOnlyAdvance == Spec => RowNeverOlder
<1>1. IInv /\ [Next]_vars => [\A c \in Controllers : row'[c].rev >= row[c].rev]_vars
  BY StepKeepsInv
<1> QED  BY <1>1, Invariance, PTL DEF Spec, RowNeverOlder
=============================================================================
