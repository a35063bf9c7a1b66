-------------------------- MODULE Lifecycle_proofs --------------------------
(***************************************************************************)
(* Proofs about Lifecycle, for every pacing that keeps the assumptions and *)
(* every number of households: the watcher acts on what the cloud said of  *)
(* the household it has, and a relay the cloud did not recognise asks soon.*)
(***************************************************************************)
EXTENDS Lifecycle, TLAPS

Typed ==
    /\ token \in {NoToken} \cup Tokens
    /\ wait \in Nat /\ backoff \in Nat
    /\ said \in [Tokens -> SUBSET Answers] /\ standing \in [Tokens -> Standings \cup {"none"}]
    /\ ask = Idle \/ (ask.pc # "idle" /\ ask.tok \in Tokens /\ ask.probe \in BOOLEAN /\ (ask.probe => ask.life = "ok"))

\* An answer that has come is one the cloud gave about the household asked for.
Heard == ask.pc \notin {"idle", "asking"} => ask.pc \in said[ask.tok]

\* A parked state changes only at the end of a question, unless the household
\* goes: a question in flight knows it.
KnowsState == ask.pc # "idle" /\ life # "ok" => ask.life = life

\* The tokens the relay holds or asks about have been given out.
GivenOut == /\ Enrolled => standing[token] # "none"
            /\ ask.pc # "idle" => standing[ask.tok] # "none"

IInv == Typed /\ Heard /\ KnowsState /\ GivenOut /\ UnknownAsksSoon

Own == /\ token' = token /\ Parked /\ life' = "ok" => "active" \in said[token]
       /\ token' = token /\ life' # life /\ life' # "ok" => life' \in said[token]
       /\ Enrolled /\ token' = NoToken /\ ask.pc # "idle" /\ ask' = Idle
             => "deleted" \in said[token]

-----------------------------------------------------------------------------

\* No backoff step goes past its cap, nor is it short of its floor.
LEMMA SteppedBounds ==
  ASSUME NEW b \in Nat, NEW lo \in Nat, NEW hi \in Nat, lo <= hi
  PROVE  Stepped(b, lo, hi) \in Nat /\ Stepped(b, lo, hi) <= hi /\ (b = 0 /\ lo > 0 => Stepped(b, lo, hi) = lo)
BY DEF Stepped, Least

\* The constants are in the order the code gives them.
LEMMA Pacing ==
  /\ ActiveMin \in Nat /\ ActiveMax \in Nat /\ NoSignalMax \in Nat /\ Spacing \in Nat
  /\ ParkMin \in Nat /\ ParkMin > 0 /\ ParkMax \in Nat /\ UnknownMax \in Nat
  /\ ActiveMin <= ActiveMax /\ ActiveMin <= NoSignalMax /\ ParkMin <= ParkMax /\ ParkMin <= UnknownMax
<1>1. {Spacing, Grace, NoSignalMax, ProbeFirst, ProbeEvery, MaxChanges} \subseteq Nat  BY PacingAssumption
<1>2. {ActiveMin, ParkMin} \subseteq Nat \ {0}  BY PacingAssumption
<1> QED  BY <1>1, <1>2, PacingAssumption

\* The invariant holds at the start.
LEMMA InitInv == Init => IInv
<1> SUFFICES ASSUME Init PROVE IInv  OBVIOUS
<1>1. Typed  BY DEF Init, Typed, Idle
<1>2. ask.pc = "idle"  BY DEF Init, Idle
<1> QED  BY <1>1, <1>2 DEF Init, IInv, Heard, KnowsState, GivenOut, Enrolled, UnknownAsksSoon

\* What leaves the household and the pacing alone.
LEMMA StepKeepsInv ==
  ASSUME IInv, NEW kicked \in BOOLEAN, Step(kicked)
  PROVE  IInv' /\ Own
<1> USE DEF doc, cloud, pace
<1>1. UNCHANGED <<token, life, standing, forgets, said>> /\ ask = Idle  BY DEF Step
<1>2. /\ wait' \in {wait, 0} /\ backoff' \in {backoff, 0}
      /\ ask' = ask \/ \E probe \in BOOLEAN : Question(probe) /\ Enrolled /\ (probe => life = "ok")
  <2>1. CASE StepUnenrolled \/ StepConnected
    BY <2>1 DEF StepUnenrolled, StepConnected, ResetPacing, NoAsk
  <2>2. CASE StepProbe  BY <2>2 DEF StepProbe, ProbeWanted, Parked, AskProbe
  <2>3. CASE StepParked(kicked)  BY <2>3 DEF StepParked, Parked, Ask, NoAsk
  <2>4. CASE StepIdle
    BY <2>4 DEF StepIdle, ResetPacing, Parked, AskProbe, NoAsk
  <2>5. CASE StepDown  BY <2>5 DEF StepDown, Watching, Parked, Ask, NoAsk
  <2> QED  BY <2>1, <2>2, <2>3, <2>4, <2>5 DEF Step
<1>3. Typed' /\ Heard' /\ KnowsState' /\ GivenOut'
  <2>1. CASE ask' = ask  BY <1>1, <1>2, <2>1 DEF IInv, Typed, Heard, KnowsState, GivenOut, Enrolled, Idle
  <2>2. ASSUME NEW probe \in BOOLEAN, Question(probe), Enrolled, probe => life = "ok"
        PROVE  Typed' /\ Heard' /\ KnowsState' /\ GivenOut'
    <3>1. /\ ask'.pc = "asking" /\ ask'.tok = token /\ ask'.life = life /\ ask'.probe = probe
          /\ token \in Tokens
      BY <2>2 DEF Question, Enrolled, IInv, Typed
    <3> QED  BY <1>1, <1>2, <2>2, <3>1 DEF IInv, Typed, Heard, KnowsState, GivenOut, Enrolled
  <2> QED  BY <1>2, <2>1, <2>2
<1>4. UnknownAsksSoon'
  BY <1>1, <1>2, Pacing DEF IInv, Typed, UnknownAsksSoon
<1>5. Own  BY <1>1 DEF Own, Parked, Enrolled, Idle
<1> QED  BY <1>3, <1>4, <1>5 DEF IInv

\* Answers: acted on for the household they are about, discarded otherwise.
LEMMA AnswerKeepsInv ==
  ASSUME IInv, CloudAnswers \/ NoSignal
  PROVE  IInv' /\ Own
<1> USE DEF doc, cloud, pace
<1>1. ask.pc = "asking" /\ ask # Idle
  <2>1. ask.pc = "asking"  BY DEF CloudAnswers, NoSignal, Answer
  <2> QED  BY <2>1 DEF Idle
<1>2. ask.tok \in Tokens /\ ask.probe \in BOOLEAN /\ (ask.probe => ask.life = "ok")  BY <1>1 DEF IInv, Typed
<1>3. PICK ans \in Answers : Answer(ans)
  <2>1. CASE NoSignal  BY <2>1 DEF NoSignal, Answers
  <2>2. CASE CloudAnswers
    <3>1. standing[ask.tok] \in Standings  BY <1>1, <1>2 DEF IInv, Typed, GivenOut
    <3>2. (IF forgets THEN "unknown" ELSE standing[ask.tok]) \in Answers  BY <3>1 DEF Answers
    <3> QED  BY <2>2, <3>2 DEF CloudAnswers
  <2> QED  BY <2>1, <2>2
<1>4. /\ said' = [said EXCEPT ![ask.tok] = @ \cup {ans}] /\ ask' = [ask EXCEPT !.pc = ans]
      /\ UNCHANGED <<token, life, standing, forgets, wait, backoff>>
  BY <1>3 DEF Answer
\* The answer keeps the question; only its place changes.
<1>5. ans # "idle"  BY DEF Answers, Standings, Suspended
<1>6. ask'.pc = ans /\ ask'.tok = ask.tok /\ ask'.probe = ask.probe /\ ask'.life = ask.life
  BY <1>4
<1>7. said' \in [Tokens -> SUBSET Answers] /\ ans \in said'[ask.tok]  BY <1>2, <1>4 DEF IInv, Typed
<1>8. Typed'  BY <1>2, <1>4, <1>5, <1>6, <1>7 DEF IInv, Typed
<1>9. Heard' /\ KnowsState' /\ GivenOut' /\ UnknownAsksSoon'
  BY <1>1, <1>4, <1>6, <1>7 DEF IInv, Heard, KnowsState, GivenOut, Enrolled, UnknownAsksSoon
<1>10. Own  BY <1>4, <1>5, <1>6 DEF Own, Parked, Enrolled, Idle
<1> QED  BY <1>8, <1>9, <1>10 DEF IInv

\* The end of a question: what the household becomes, and when the next is due.
LEMMA ActKeepsInv ==
  ASSUME IInv, Act
  PROVE  IInv' /\ Own
<1> USE DEF doc, cloud, pace
<1>1. /\ ask.pc \notin {"idle", "asking"} /\ ask' = Idle /\ UNCHANGED <<standing, forgets, said>>
  BY DEF Act, OnActive, OnSuspended, OnDeleted, OnNoSignal, OnUnknown, OnIgnored, Suspended
<1>2. /\ ask.tok \in Tokens /\ (ask.probe => ask.life = "ok") /\ ask.pc \in said[ask.tok]
      /\ (life # "ok" => ask.life = life) /\ wait \in Nat /\ backoff \in Nat
      /\ token \in {NoToken} \cup Tokens /\ (life = "unknown" => wait <= UnknownMax)
  BY <1>1 DEF IInv, Typed, Heard, KnowsState, UnknownAsksSoon, Idle
<1>b. \A b \in Nat : /\ Stepped(b, ParkMin, ParkMax) \in Nat /\ Stepped(b, ParkMin, UnknownMax) \in Nat
                     /\ Stepped(b, ParkMin, UnknownMax) <= UnknownMax
                     /\ Stepped(0, ParkMin, ParkMax) \in Nat /\ Stepped(0, ParkMin, ParkMax) <= UnknownMax
                     /\ Stepped(b, ActiveMin, ActiveMax) \in Nat /\ Stepped(b, ActiveMin, NoSignalMax) \in Nat
  BY Pacing, SteppedBounds
\* It is enough that the household changed as the answer says, if it did.
<1>3. ASSUME wait' \in Nat, backoff' \in Nat,
             \/ UNCHANGED <<token, life>>
             \/ /\ token = ask.tok
                /\ \/ token' = token /\ life' = "ok" /\ ask.pc = "active"
                   \/ token' = token /\ life' = ask.pc /\ ask.pc # "deleted"
                   \/ token' = NoToken /\ life' = "ok" /\ ask.pc = "deleted",
             life' = "unknown" => wait' <= UnknownMax
      PROVE  IInv' /\ Own
  <2>1. Typed'  BY <1>1, <1>2, <1>3 DEF IInv, Typed
  <2>2. ask'.pc = "idle"  BY <1>1 DEF Idle
  <2>3. token' # NoToken => token' = token  BY <1>3
  <2>4. Heard' /\ KnowsState' /\ GivenOut'
    BY <1>1, <2>2, <2>3 DEF IInv, Heard, KnowsState, GivenOut, Enrolled
  <2>5. Own
    <3>1. CASE UNCHANGED <<token, life>>  BY <3>1 DEF Own, Parked, Enrolled
    <3>2. token = ask.tok => ask.pc \in said[token]  BY <1>2
    <3>3. CASE token = ask.tok /\ token' = token /\ life' = "ok" /\ ask.pc = "active"
      BY <3>2, <3>3 DEF Own, Enrolled
    <3>4. CASE token = ask.tok /\ token' = token /\ life' = ask.pc /\ ask.pc # "deleted"
      <4>1. life' = "ok" => FALSE
        <5>1. ask.pc \in Answers  BY <1>2, <3>4 DEF IInv, Typed
        <5> QED  BY <3>4, <5>1 DEF Answers, Standings, Suspended
      <4> QED  BY <3>2, <3>4, <4>1 DEF Own, Enrolled
    <3>5. CASE token = ask.tok /\ token' = NoToken /\ life' = "ok" /\ ask.pc = "deleted"
      BY <3>2, <3>5 DEF Own, Parked, Enrolled
    <3> QED  BY <1>3, <3>1, <3>3, <3>4, <3>5
  <2> QED  BY <1>3, <2>1, <2>4, <2>5 DEF IInv, UnknownAsksSoon
<1>4. ASSUME ResetPacing PROVE wait' = 0 /\ backoff' = 0  BY <1>4 DEF ResetPacing
<1>5. ASSUME NEW l, NEW marks, NEW age, Park(l, marks, age), l = ask.pc, ask.pc # "deleted"
      PROVE  IInv' /\ Own
  <2>1. wait' \in Nat /\ backoff' \in Nat /\ wait' <= UnknownMax  BY <1>2, <1>5, <1>b DEF Park, Schedule
  <2>2. \/ UNCHANGED <<token, life>>
        \/ token = ask.tok /\ token' = token /\ life' = ask.pc
    BY <1>5 DEF Park, Applied, SameHousehold, Failed, Discarded
  <2> QED  BY <1>3, <1>5, <2>1, <2>2
<1>6. CASE OnActive
  <2>1. CASE WasParked
    <3>1. \/ UNCHANGED <<token, life>>
          \/ token = ask.tok /\ token' = token /\ life' = "ok"
      BY <1>6, <2>1 DEF OnActive, Applied, SameHousehold, Failed, Discarded
    <3>2. (wait' = 0 /\ backoff' = 0) \/ UNCHANGED <<wait, backoff>>  BY <1>4, <1>6, <2>1 DEF OnActive
    <3>3. ask.pc = "active"  BY <1>6 DEF OnActive
    <3> QED  BY <1>2, <1>3, <3>1, <3>2, <3>3, Pacing
  <2>2. CASE ~WasParked
    <3>1. UNCHANGED <<token, life>> /\ wait' \in Nat /\ backoff' \in Nat
      BY <1>2, <1>6, <1>b, <2>2 DEF OnActive, Stays, Schedule
    <3>2. life = "ok"  BY <1>2, <2>2 DEF WasParked
    <3> QED  BY <1>3, <3>1, <3>2
  <2> QED  BY <2>1, <2>2
<1>7. CASE OnSuspended
  <2>1. ask.pc \in Suspended /\ ask.pc \notin {"unknown", "deleted"}  BY <1>7 DEF OnSuspended, Suspended
  <2>2. CASE Park(ask.pc, strikes, since) \/ Park(ask.pc, <<>>, 0)  BY <1>5, <2>1, <2>2
  <2>3. CASE ask.life = ask.pc /\ Stays /\ Schedule(backoff, ParkMin, ParkMax)
    <3>1. life # "unknown" /\ UNCHANGED <<token, life>>  BY <1>2, <2>1, <2>3 DEF Stays
    <3> QED  BY <1>2, <1>3, <1>b, <2>3, <3>1 DEF Schedule
  <2> QED  BY <1>7, <2>2, <2>3 DEF OnSuspended
<1>8. CASE OnDeleted
  <2>1. \/ UNCHANGED <<token, life>>
        \/ token = ask.tok /\ token' = NoToken /\ life' = "ok"
    BY <1>8 DEF OnDeleted, Applied, SameHousehold, Failed, Discarded
  <2>2. (wait' = 0 /\ backoff' = 0) \/ UNCHANGED <<wait, backoff>>  BY <1>4, <1>8 DEF OnDeleted
  <2>3. ask.pc = "deleted"  BY <1>8 DEF OnDeleted
  <2> QED  BY <1>2, <1>3, <2>1, <2>2, <2>3, Pacing
<1>9. CASE OnNoSignal
  <2>1. UNCHANGED <<token, life>>  BY <1>9 DEF OnNoSignal, Stays
  <2>2. CASE WasParked
    <3>1. Schedule(backoff, ParkMin, ParkedCap(ask.life))  BY <1>9, <2>2 DEF OnNoSignal
    <3>2. wait' \in Nat /\ backoff' \in Nat /\ (ask.life = "unknown" => wait' <= UnknownMax)
      BY <1>2, <1>b, <3>1 DEF Schedule, ParkedCap
    <3> QED  BY <1>2, <1>3, <2>1, <3>2
  <2>3. CASE ~WasParked
    <3>1. Schedule(backoff, ActiveMin, NoSignalMax) /\ life = "ok"  BY <1>2, <1>9, <2>3 DEF OnNoSignal, WasParked
    <3> QED  BY <1>2, <1>3, <1>b, <2>1, <3>1 DEF Schedule
  <2> QED  BY <2>2, <2>3
<1>10. CASE OnUnknown
  <2>1. ask.pc = "unknown"  BY <1>10 DEF OnUnknown
  <2>2. CASE Park("unknown", Counted, Age)  BY <1>5, <2>1, <2>2
  <2>3. CASE Stays /\ WasParked /\ Schedule(backoff, ParkMin, ParkedCap(ask.life))
    <3>1. wait' \in Nat /\ backoff' \in Nat /\ (ask.life = "unknown" => wait' <= UnknownMax)
      BY <1>2, <1>b, <2>3 DEF Schedule, ParkedCap
    <3> QED  BY <1>2, <1>3, <2>3, <3>1 DEF Stays
  <2>4. CASE Stays /\ ~WasParked /\ wait' = Spacing /\ backoff' = backoff
    <3>1. life = "ok"  BY <1>2, <2>4 DEF WasParked
    <3> QED  BY <1>2, <1>3, <2>4, <3>1, Pacing DEF Stays
  <2> QED  BY <1>10, <2>2, <2>3, <2>4 DEF OnUnknown
<1>11. CASE OnIgnored
  BY <1>2, <1>3, <1>11 DEF OnIgnored, Stays
<1> QED  BY <1>6, <1>7, <1>8, <1>9, <1>10, <1>11 DEF Act

\* What happens around the watcher while it waits or asks.
LEMMA WorldKeepsInv ==
  ASSUME IInv, Kick \/ Probe \/ SetUp \/ Reset \/ World \/ LinkUp \/ LinkDown \/ Tick
  PROVE  IInv' /\ Own
<1> USE DEF doc, cloud, pace, memory
<1>1. CASE Kick \/ Probe \/ LinkUp \/ LinkDown
  <2>1. UNCHANGED <<token, life, standing, said, wait, backoff, ask>>
    BY <1>1 DEF Kick, Probe, LinkUp, LinkDown
  <2> QED  BY <2>1 DEF IInv, Typed, Heard, KnowsState, GivenOut, UnknownAsksSoon, Own, Enrolled, Parked
<1>2. CASE Tick
  <2>1. UNCHANGED <<token, life, standing, said, backoff, ask>> /\ wait' = Sooner(wait, 0)
    BY <1>2 DEF Tick
  <2>2. wait' \in Nat /\ wait' <= wait  BY <2>1 DEF Sooner, IInv, Typed
  <2>3. UnknownAsksSoon'  BY <2>1, <2>2, Pacing DEF IInv, Typed, UnknownAsksSoon
  <2>4. Typed' /\ Heard' /\ KnowsState' /\ GivenOut'
    BY <2>1, <2>2 DEF IInv, Typed, Heard, KnowsState, GivenOut, Enrolled
  <2>5. Own  BY <2>1 DEF Own, Parked, Enrolled
  <2> QED  BY <2>3, <2>4, <2>5 DEF IInv
<1>3. CASE SetUp
  <2>1. PICK t \in Tokens : /\ standing[t] = "none" /\ token' = t /\ life' = "ok"
                            /\ standing' = [standing EXCEPT ![t] = "active"]
                            /\ UNCHANGED <<said, wait, backoff, ask>>
    BY <1>3 DEF SetUp
  <2>2. t # NoToken /\ t # token  BY <2>1 DEF Tokens, NoToken, IInv, GivenOut, Enrolled
  <2>3. Own  BY <2>1, <2>2 DEF Own
  <2>4. Typed' /\ Heard' /\ KnowsState' /\ UnknownAsksSoon'
    BY <2>1 DEF IInv, Typed, Heard, KnowsState, UnknownAsksSoon, Standings
  <2>5. GivenOut'
    <3>1. ask.pc # "idle" => ask.tok \in Tokens  BY DEF IInv, Typed, Idle
    <3> QED  BY <2>1, <3>1 DEF IInv, Typed, GivenOut, Enrolled
  <2> QED  BY <2>3, <2>4, <2>5 DEF IInv
<1>4. CASE Reset
  <2>1. token' = NoToken /\ life' = "ok" /\ Enrolled /\ UNCHANGED <<standing, said, wait, backoff, ask>>
    BY <1>4 DEF Reset
  <2> QED  BY <2>1 DEF IInv, Typed, Heard, KnowsState, GivenOut, UnknownAsksSoon, Own, Enrolled, Idle
<1>5. CASE World
  <2>1. UNCHANGED <<token, life, said>>  BY <1>5 DEF World
  <2>2. Own  BY <2>1 DEF Own, Parked, Enrolled
  <2>3. CASE ask' = ask /\ UNCHANGED <<wait, backoff, standing>>
    BY <2>1, <2>2, <2>3 DEF IInv, Typed, Heard, KnowsState, GivenOut, UnknownAsksSoon, Enrolled
  <2>4. CASE ResetPacing /\ ask' = Idle /\ UNCHANGED standing
    BY <2>1, <2>2, <2>4, Pacing DEF ResetPacing, IInv, Typed, Heard, KnowsState, GivenOut, UnknownAsksSoon, Enrolled, Idle
  <2>5. ASSUME NEW t \in Tokens, NEW s \in Standings, standing' = [standing EXCEPT ![t] = s],
               ask' = ask, UNCHANGED <<wait, backoff>>
        PROVE  IInv'
    <3>1. s # "none"  BY DEF Standings, Suspended
    <3>2. ask.pc # "idle" => ask.tok \in Tokens  BY DEF IInv, Typed, Idle
    <3>3. GivenOut'  BY <2>1, <2>5, <3>1, <3>2 DEF IInv, Typed, GivenOut, Enrolled
    <3> QED  BY <2>1, <2>5, <3>3 DEF IInv, Typed, Heard, KnowsState, UnknownAsksSoon
  <2> QED  BY <1>5, <2>2, <2>3, <2>4, <2>5 DEF World
<1> QED  BY <1>1, <1>2, <1>3, <1>4, <1>5

-----------------------------------------------------------------------------
(* The theorems.                                                           *)

LEMMA EveryStep == IInv /\ [Next]_vars => IInv' /\ (Own \/ UNCHANGED vars)
<1> SUFFICES ASSUME IInv, [Next]_vars PROVE IInv' /\ (Own \/ UNCHANGED vars)  OBVIOUS
<1>1. CASE Next
  BY <1>1, StepKeepsInv, AnswerKeepsInv, ActKeepsInv, WorldKeepsInv DEF Next
<1>2. CASE UNCHANGED vars
  BY <1>2 DEF vars, IInv, Typed, Heard, KnowsState, GivenOut, UnknownAsksSoon, Enrolled
<1> QED  BY <1>1, <1>2

\* The inductive invariant.
THEOREM Invariance == Spec => []IInv
BY InitInv, EveryStep, PTL DEF Spec

\* The watcher parks, resumes or forgets the household only on an answer about
\* that household, whatever was set up while it asked (ask, UpdateIfToken,
\* DropHouseholdIf).
THEOREM OwnAnswers == Spec => ActsOnOwnAnswer
<1>1. IInv /\ [Next]_vars => [Own]_vars  BY EveryStep
<1> QED  BY <1>1, Invariance, PTL DEF Spec, ActsOnOwnAnswer, Own

\* A relay parked because the cloud did not recognise it never waits longer than
\* the shorter cap: no answer to an earlier question stretches it (parkedCap).
THEOREM SoonAgain == Spec => []UnknownAsksSoon
BY Invariance, PTL DEF IInv
=============================================================================
