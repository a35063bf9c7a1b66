-------------------------- MODULE Household_proofs --------------------------
(***************************************************************************)
(* Proofs about Household, for every set of devices and requests, every    *)
(* cap, and every number of identities and recovery windows.               *)
(***************************************************************************)
EXTENDS Household, FiniteSetTheorems, TLAPS

\* Types hold at the start.
LEMMA InitTypeOK == Init => TypeOK
<1> SUFFICES ASSUME Init PROVE TypeOK  OBVIOUS
<1> USE BoundsAssumption DEF Init, NoToken, Tokens, Windows, Roles
<1>1. DocType    BY DEF DocType
<1>2. PairType   BY DEF PairType, Idle
<1>3. RevType    BY DEF RevType
<1>4. RstType    BY DEF RstType
<1>5. PutType    BY DEF PutType
<1>6. WorldType
  <2>1. redeemed \in [Windows -> SUBSET Devices]  OBVIOUS
  <2>2. clock \in Windows  OBVIOUS
  <2> QED  BY <2>1, <2>2 DEF WorldType
<1> QED  BY <1>1, <1>2, <1>3, <1>4, <1>5, <1>6 DEF TypeOK

\* Pairing requests keep the types: the only voucher roles are the known ones.
LEMMA PairingKeepsType == ASSUME TypeOK, NEW d \in Devices, Pairing(d) PROVE TypeOK'
<1> USE BoundsAssumption DEF NoToken, Tokens, Windows, Roles
<1>1. CASE BeginPair(d)
  <2>1. DocType' /\ RevType' /\ RstType' /\ PutType' /\ WorldType'
    BY <1>1 DEF BeginPair, OthersThanPair, doc, cloud, TypeOK, DocType, RevType, RstType, PutType, WorldType
  <2>2. PairType'  BY <1>1 DEF BeginPair, OthersThanPair, VerifiedWindows, doc, cloud, TypeOK, PairType
  <2> QED  BY <2>1, <2>2 DEF TypeOK
<1>2. CASE CheckPair(d)
  <2>1. DocType' /\ RevType' /\ RstType' /\ PutType' /\ WorldType'
    BY <1>2 DEF CheckPair, OthersThanPair, doc, cloud, TypeOK, DocType, RevType, RstType, PutType, WorldType
  <2>2. PairType'  BY <1>2 DEF CheckPair, OthersThanPair, Paired, doc, cloud, TypeOK, PairType
  <2> QED  BY <2>1, <2>2 DEF TypeOK
<1>3. CASE RedeemCode(d)
  <2>1. DocType' /\ RevType' /\ RstType' /\ PutType'
    BY <1>3 DEF RedeemCode, OthersThanPair, doc, cloud, TypeOK, DocType, RevType, RstType, PutType
  <2>2. PairType'
    <3>1. minted + 1 \in Tokens  BY <1>3 DEF RedeemCode, TypeOK, WorldType
    <3>2. pair' = [pair EXCEPT ![d].pc = "brokered", ![d].tok = minted + 1]  BY <1>3 DEF RedeemCode
    <3> QED  BY <3>1, <3>2 DEF TypeOK, PairType
  <2>3. WorldType'  BY <1>3 DEF RedeemCode, OthersThanPair, WorldType, doc, cloud, TypeOK
  <2> QED  BY <2>1, <2>2, <2>3 DEF TypeOK
<1>4. CASE BrokerVoucher(d)
  <2>1. DocType' /\ RevType' /\ RstType' /\ PutType' /\ WorldType'
    BY <1>4 DEF BrokerVoucher, OthersThanPair, doc, cloud, TypeOK, DocType, RevType, RstType, PutType, WorldType
  <2>2. PairType'  BY <1>4 DEF BrokerVoucher, OthersThanPair, PairMoves, doc, cloud, TypeOK, PairType
  <2> QED  BY <2>1, <2>2 DEF TypeOK
<1>5. CASE CommitFirst(d)
  <2>1. RevType' /\ RstType' /\ PutType' /\ WorldType'
    BY <1>5 DEF CommitFirst, OthersThanPair, doc, cloud, TypeOK, RevType, RstType, PutType, WorldType
  <2>2. PairType'  BY <1>5 DEF CommitFirst, OthersThanPair, PairMoves, PairType, doc, cloud, TypeOK
  <2>3. DocType'  BY <1>5 DEF CommitFirst, OthersThanPair, PairMoves, PairType, doc, cloud, TypeOK, DocType
  <2> QED  BY <2>1, <2>2, <2>3 DEF TypeOK
<1>6. CASE CommitVoucher(d)
  <2>1. RevType' /\ RstType' /\ PutType'
    BY <1>6 DEF CommitVoucher, OthersThanPair, doc, cloud, TypeOK, RevType, RstType, PutType
  <2>2. PairType'  BY RolesAssumption, <1>6 DEF CommitVoucher, OthersThanPair, VoucherRoles, PairMoves, PairType, doc, cloud, TypeOK
  <2>3. DocType'  BY RolesAssumption, <1>6 DEF CommitVoucher, OthersThanPair, VoucherRoles, PairMoves, PairType, doc, cloud, TypeOK, DocType
  <2>4. WorldType'
    <3>1. UNCHANGED <<mdns, mu, minted, gone, clock>>  BY <1>6 DEF CommitVoucher, cloud
    <3>2. redeemed' = redeemed \/ redeemed' = [redeemed EXCEPT ![pair[d].win] = @ \cup {d}]
      BY <1>6 DEF CommitVoucher
    <3>3. redeemed' \in [Windows -> SUBSET Devices]  BY <3>2 DEF TypeOK, WorldType
    <3> QED  BY <3>1, <3>3 DEF TypeOK, WorldType
  <2> QED  BY <2>1, <2>2, <2>3, <2>4 DEF TypeOK
<1>7. CASE FailPair(d)
  <2>1. DocType' /\ RevType' /\ RstType' /\ PutType' /\ WorldType'
    BY <1>7 DEF FailPair, OthersThanPair, doc, cloud, TypeOK, DocType, RevType, RstType, PutType, WorldType
  <2>2. PairType'  BY <1>7 DEF FailPair, OthersThanPair, Idle, doc, cloud, TypeOK, PairType
  <2> QED  BY <2>1, <2>2 DEF TypeOK
<1>8. CASE AnnouncePaired(d)
  <2>1. DocType' /\ RevType' /\ RstType' /\ PutType'
    BY <1>8 DEF AnnouncePaired, OthersThanPair, doc, cloud, TypeOK, DocType, RevType, RstType, PutType
  <2>2. PairType'  BY <1>8 DEF AnnouncePaired, OthersThanPair, PairMoves, doc, cloud, TypeOK, PairType
  <2>3. WorldType'  BY <1>8 DEF AnnouncePaired, OthersThanPair, PairMoves, doc, cloud, TypeOK, WorldType
  <2> QED  BY <2>1, <2>2, <2>3 DEF TypeOK
<1> QED  BY <1>1, <1>2, <1>3, <1>4, <1>5, <1>6, <1>7, <1>8 DEF Pairing

\* Revoke requests keep the types.
LEMMA RevokingKeepsType == ASSUME TypeOK, NEW r \in Revokes, Revoking(r) PROVE TypeOK'
<1> USE BoundsAssumption DEF NoToken, Tokens, Windows, Roles
<1>1. CASE GateRevoke(r)
  <2>1. DocType' /\ PairType' /\ RstType' /\ PutType' /\ WorldType'
    BY <1>1 DEF GateRevoke, OthersThanRev, doc, cloud, TypeOK, DocType, PairType, RstType, PutType, WorldType
  <2>2. RevType'  BY <1>1 DEF GateRevoke, OthersThanRev, Active, doc, cloud, TypeOK, RevType
  <2> QED  BY <2>1, <2>2 DEF TypeOK
<1>2. CASE CommitRevoke(r)
  <2>1. PairType' /\ RstType' /\ PutType' /\ WorldType'
    BY <1>2 DEF CommitRevoke, OthersThanRev, doc, cloud, TypeOK, PairType, RstType, PutType, WorldType
  <2>2. RevType'  BY <1>2 DEF CommitRevoke, OthersThanRev, doc, cloud, TypeOK, RevType
  <2>3. DocType'  BY <1>2 DEF CommitRevoke, OthersThanRev, doc, cloud, TypeOK, DocType
  <2> QED  BY <2>1, <2>2, <2>3 DEF TypeOK
<1>3. CASE FailRevoke(r)
  <2>1. DocType' /\ PairType' /\ RstType' /\ PutType' /\ WorldType'
    BY <1>3 DEF FailRevoke, OthersThanRev, doc, cloud, TypeOK, DocType, PairType, RstType, PutType, WorldType
  <2>2. RevType'  BY <1>3 DEF FailRevoke, OthersThanRev, doc, cloud, TypeOK, RevType
  <2> QED  BY <2>1, <2>2 DEF TypeOK
<1>4. CASE AnnounceUnpaired(r)
  <2>1. DocType' /\ PairType' /\ RstType' /\ PutType'
    BY <1>4 DEF AnnounceUnpaired, OthersThanRev, doc, cloud, TypeOK, DocType, PairType, RstType, PutType
  <2>2. RevType'  BY <1>4 DEF AnnounceUnpaired, OthersThanRev, doc, cloud, TypeOK, RevType
  <2>3. WorldType'  BY <1>4 DEF AnnounceUnpaired, OthersThanRev, doc, cloud, TypeOK, WorldType
  <2> QED  BY <2>1, <2>2, <2>3 DEF TypeOK
<1> QED  BY <1>1, <1>2, <1>3, <1>4 DEF Revoking

\* Household resets keep the types.
LEMMA ResettingKeepsType == ASSUME TypeOK, Resetting PROVE TypeOK'
<1> USE BoundsAssumption DEF NoToken, Tokens, Windows, Roles
<1>1. CASE AskStatus
  <2>1. DocType' /\ PairType' /\ RevType' /\ PutType' /\ WorldType'
    BY <1>1 DEF AskStatus, OthersThanRst, doc, cloud, TypeOK, DocType, PairType, RevType, PutType, WorldType
  <2>2. RstType'  BY <1>1 DEF AskStatus, OthersThanRst, Enrolled, DocType, doc, cloud, TypeOK, RstType
  <2> QED  BY <2>1, <2>2 DEF TypeOK
<1>2. CASE GateReset
  <2>1. DocType' /\ PairType' /\ RevType' /\ PutType' /\ WorldType'
    BY <1>2 DEF GateReset, OthersThanRst, doc, cloud, TypeOK, DocType, PairType, RevType, PutType, WorldType
  <2>2. RstType'  BY <1>2 DEF GateReset, OthersThanRst, doc, cloud, TypeOK, RstType
  <2> QED  BY <2>1, <2>2 DEF TypeOK
<1>3. CASE \E a \in Resetters : DropHousehold(a)
  <2>1. PairType' /\ RevType' /\ PutType'
    BY <1>3 DEF DropHousehold, OthersThanRst, doc, cloud, TypeOK, PairType, RevType, PutType
  <2>2. RstType'  BY <1>3 DEF DropHousehold, OthersThanRst, ForgetHousehold, doc, cloud, TypeOK, RstType
  <2>3. DocType'  BY <1>3 DEF DropHousehold, OthersThanRst, ForgetHousehold, doc, cloud, TypeOK, DocType
  <2>4. WorldType'  BY <1>3 DEF DropHousehold, OthersThanRst, ForgetHousehold, doc, cloud, TypeOK, WorldType
  <2> QED  BY <2>1, <2>2, <2>3, <2>4 DEF TypeOK
<1>4. CASE \E a \in Resetters : FailReset(a)
  <2>1. DocType' /\ PairType' /\ RevType' /\ PutType' /\ WorldType'
    BY <1>4 DEF FailReset, OthersThanRst, doc, cloud, TypeOK, DocType, PairType, RevType, PutType, WorldType
  <2>2. RstType'  BY <1>4 DEF FailReset, OthersThanRst, doc, cloud, TypeOK, RstType
  <2> QED  BY <2>1, <2>2 DEF TypeOK
<1>5. CASE \E a \in Resetters : ReadPaired(a)
  <2>1. DocType' /\ PairType' /\ RevType' /\ PutType' /\ WorldType'
    BY <1>5 DEF ReadPaired, OthersThanRst, doc, cloud, TypeOK, DocType, PairType, RevType, PutType, WorldType
  <2>2. RstType'  BY <1>5 DEF ReadPaired, OthersThanRst, Paired, doc, cloud, TypeOK, RstType
  <2> QED  BY <2>1, <2>2 DEF TypeOK
<1>6. CASE \E a \in Resetters : AnnounceRead(a)
  <2>1. DocType' /\ PairType' /\ RevType' /\ PutType'
    BY <1>6 DEF AnnounceRead, OthersThanRst, doc, cloud, TypeOK, DocType, PairType, RevType, PutType
  <2>2. RstType'  BY <1>6 DEF AnnounceRead, OthersThanRst, RstType, doc, cloud, TypeOK
  <2>3. WorldType'  BY <1>6 DEF AnnounceRead, OthersThanRst, RstType, doc, cloud, TypeOK, WorldType
  <2> QED  BY <2>1, <2>2, <2>3 DEF TypeOK
<1> QED  BY <1>1, <1>2, <1>3, <1>4, <1>5, <1>6 DEF Resetting

\* Controller upserts and removals keep the types.
LEMMA UpsertingKeepsType == ASSUME TypeOK, Upserting PROVE TypeOK'
<1> USE BoundsAssumption DEF NoToken, Tokens, Windows, Roles
<1>1. CASE \E u \in Upserts : GateUpsert(u)
  <2>1. DocType' /\ PairType' /\ RevType' /\ RstType' /\ WorldType'
    BY <1>1 DEF GateUpsert, OthersThanPut, doc, cloud, TypeOK, DocType, PairType, RevType, RstType, WorldType
  <2>2. PutType'  BY <1>1 DEF GateUpsert, OthersThanPut, doc, cloud, TypeOK, PutType
  <2> QED  BY <2>1, <2>2 DEF TypeOK
<1>2. CASE \E u \in Upserts : LockUpsert(u)
  <2>1. DocType' /\ PairType' /\ RevType' /\ RstType'
    BY <1>2 DEF LockUpsert, OthersThanPut, doc, cloud, TypeOK, DocType, PairType, RevType, RstType
  <2>2. PutType'  BY <1>2 DEF LockUpsert, OthersThanPut, DocType, doc, cloud, TypeOK, PutType
  <2>3. WorldType'  BY <1>2 DEF LockUpsert, OthersThanPut, DocType, doc, cloud, TypeOK, WorldType
  <2> QED  BY <2>1, <2>2, <2>3 DEF TypeOK
<1>3. CASE \E u \in Upserts : RegisterController(u)
  <2>1. DocType' /\ PairType' /\ RevType' /\ RstType' /\ WorldType'
    BY <1>3 DEF RegisterController, OthersThanPut, doc, cloud, TypeOK, DocType, PairType, RevType, RstType, WorldType
  <2>2. PutType'  BY <1>3 DEF RegisterController, OthersThanPut, Enrolled, DocType, doc, cloud, TypeOK, PutType
  <2> QED  BY <2>1, <2>2 DEF TypeOK
<1>4. CASE \E u \in Upserts : PersistController(u)
  <2>1. PairType' /\ RevType' /\ RstType'
    BY <1>4 DEF PersistController, OthersThanPut, doc, cloud, TypeOK, PairType, RevType, RstType
  <2>2. PutType'  BY <1>4 DEF PersistController, OthersThanPut, PutType, doc, cloud, TypeOK
  <2>3. DocType'  BY <1>4 DEF PersistController, OthersThanPut, PutType, doc, cloud, TypeOK, DocType
  <2>4. WorldType'  BY <1>4 DEF PersistController, OthersThanPut, PutType, doc, cloud, TypeOK, WorldType
  <2> QED  BY <2>1, <2>2, <2>3, <2>4 DEF TypeOK
<1>5. CASE \E u \in Upserts : FailUpsert(u)
  <2>1. DocType' /\ PairType' /\ RevType' /\ RstType'
    BY <1>5 DEF FailUpsert, OthersThanPut, doc, cloud, TypeOK, DocType, PairType, RevType, RstType
  <2>2. PutType'  BY <1>5 DEF FailUpsert, OthersThanPut, doc, cloud, TypeOK, PutType
  <2>3. WorldType'  BY <1>5 DEF FailUpsert, OthersThanPut, doc, cloud, TypeOK, WorldType
  <2> QED  BY <2>1, <2>2, <2>3 DEF TypeOK
<1>6. CASE \E c \in ctrls : RemoveController(c)
  <2>1. PairType' /\ RevType' /\ RstType' /\ PutType' /\ WorldType'
    BY <1>6 DEF RemoveController, doc, cloud, TypeOK, PairType, RevType, RstType, PutType, WorldType
  <2>2. DocType'  BY <1>6 DEF RemoveController, doc, cloud, TypeOK, DocType
  <2> QED  BY <2>1, <2>2 DEF TypeOK
<1> QED  BY <1>1, <1>2, <1>3, <1>4, <1>5, <1>6 DEF Upserting

\* The cloud, the clock and a restart keep the types.
LEMMA WorldKeepsType == ASSUME TypeOK, (\E t \in Tokens : CloudDeletes(t)) \/ Tick \/ Restart PROVE TypeOK'
<1> USE BoundsAssumption DEF NoToken, Tokens, Windows, Roles
<1>1. CASE \E t \in Tokens : CloudDeletes(t)
  <2>1. DocType' /\ PairType' /\ RevType' /\ RstType' /\ PutType'
    BY <1>1 DEF CloudDeletes, doc, cloud, TypeOK, DocType, PairType, RevType, RstType, PutType
  <2>2. WorldType'  BY <1>1 DEF CloudDeletes, doc, cloud, TypeOK, WorldType
  <2> QED  BY <2>1, <2>2 DEF TypeOK
<1>2. CASE Tick
  <2>1. DocType' /\ PairType' /\ RevType' /\ RstType' /\ PutType'
    BY <1>2 DEF Tick, doc, cloud, TypeOK, DocType, PairType, RevType, RstType, PutType
  <2>2. WorldType'  BY <1>2 DEF Tick, doc, cloud, TypeOK, WorldType
  <2> QED  BY <2>1, <2>2 DEF TypeOK
<1>3. CASE Restart
  <2>1. DocType'
    BY <1>3 DEF Restart, doc, cloud, TypeOK, DocType
  <2>2. PairType'  BY <1>3 DEF Restart, Idle, Paired, doc, cloud, TypeOK, PairType
  <2>3. RevType'  BY <1>3 DEF Restart, Idle, Paired, doc, cloud, TypeOK, RevType
  <2>4. RstType'  BY <1>3 DEF Restart, Idle, Paired, doc, cloud, TypeOK, RstType
  <2>5. PutType'  BY <1>3 DEF Restart, Idle, Paired, doc, cloud, TypeOK, PutType
  <2>6. WorldType'  BY <1>3 DEF Restart, Idle, Paired, doc, cloud, TypeOK, WorldType
  <2> QED  BY <2>1, <2>2, <2>3, <2>4, <2>5, <2>6 DEF TypeOK
<1> QED  BY <1>1, <1>2, <1>3

\* Every step keeps the types.
LEMMA TypeStep == TypeOK /\ [Next]_vars => TypeOK'
<1> SUFFICES ASSUME TypeOK, [Next]_vars PROVE TypeOK'  OBVIOUS
<1>1. CASE \E d \in Devices : Pairing(d)  BY <1>1, PairingKeepsType
<1>2. CASE \E r \in Revokes : Revoking(r)  BY <1>2, RevokingKeepsType
<1>3. CASE Resetting  BY <1>3, ResettingKeepsType
<1>4. CASE Upserting  BY <1>4, UpsertingKeepsType
<1>5. CASE (\E t \in Tokens : CloudDeletes(t)) \/ Tick \/ Restart  BY <1>5, WorldKeepsType
<1>6. CASE UNCHANGED vars
  BY <1>6 DEF vars, TypeOK, DocType, PairType, RevType, RstType, PutType, WorldType
<1> QED  BY <1>1, <1>2, <1>3, <1>4, <1>5, <1>6 DEF Next

\* The document, the requests in flight and the cloud keep their types.
THEOREM TypeCorrect == Spec => []TypeOK
<1> QED  BY InitTypeOK, TypeStep, PTL DEF Spec

-----------------------------------------------------------------------------
(* Recovery codes.  The mark the relay keeps bounds every window that has  *)
(* been redeemed: the recheck under the store lock maintains it, and       *)
(* nothing lowers the mark, not even a household reset.                    *)

MarkBoundsRedeemed == \A w \in Windows : redeemed[w] # {} => w <= used

RecoveryInv == TypeOK /\ MarkBoundsRedeemed /\ RecoverySingleUse

\* What a step does to the mark and to the windows redeemed so far.
Redeems == \E d \in Devices :
    /\ pair[d].win \in Windows /\ pair[d].win > used
    /\ used' = pair[d].win
    /\ redeemed' = [redeemed EXCEPT ![pair[d].win] = @ \cup {d}]

\* Only the commit of a recovery touches the recovery code.
LEMMA OnlyCommitsRedeem ==
  ASSUME TypeOK, [Next]_vars
  PROVE  Redeems \/ UNCHANGED <<used, redeemed>>
<1>1. CASE \E d \in Devices : Pairing(d)
  <2> PICK d \in Devices : Pairing(d)  BY <1>1
  <2>1. CASE CommitVoucher(d)
    <3>1. CASE Kind[d] = "recover"
      <4>1. pair[d].win \in {0} \cup Windows /\ used \in {0} \cup Windows
        BY DEF TypeOK, PairType, DocType
      <4>2. pair[d].win > used  BY <2>1, <3>1 DEF CommitVoucher, WindowStillFree
      <4>3. pair[d].win \in Windows  BY <4>1, <4>2, BoundsAssumption DEF Windows
      <4>4. /\ used' = pair[d].win
            /\ redeemed' = [redeemed EXCEPT ![pair[d].win] = @ \cup {d}]
        BY <2>1, <3>1, <4>2 DEF CommitVoucher
      <4> QED  BY <4>2, <4>3, <4>4 DEF Redeems
    <3>2. CASE Kind[d] # "recover"  BY <2>1, <3>2 DEF CommitVoucher
    <3> QED  BY <3>1, <3>2
  <2>2. CASE ~CommitVoucher(d)
    BY <2>2 DEF Pairing, BeginPair, CheckPair, RedeemCode, BrokerVoucher, CommitFirst, FailPair,
                AnnouncePaired, doc
  <2> QED  BY <2>1, <2>2
<1>2. CASE \E r \in Revokes : Revoking(r)
  BY <1>2 DEF Revoking, GateRevoke, CommitRevoke, FailRevoke, AnnounceUnpaired, doc
<1>3. CASE Resetting
  BY <1>3 DEF Resetting, AskStatus, GateReset, DropHousehold, FailReset, ReadPaired, AnnounceRead, doc
<1>4. CASE Upserting
  BY <1>4 DEF Upserting, GateUpsert, LockUpsert, RegisterController, PersistController, FailUpsert,
              RemoveController, doc
<1>5. CASE (\E t \in Tokens : CloudDeletes(t)) \/ Tick \/ Restart
  BY <1>5 DEF CloudDeletes, Tick, Restart, doc
<1>6. CASE UNCHANGED vars  BY <1>6 DEF vars
<1> QED  BY <1>1, <1>2, <1>3, <1>4, <1>5, <1>6 DEF Next

\* The strengthened invariant of the recovery code is inductive.
LEMMA RecoveryInvInductive == RecoveryInv /\ [Next]_vars => RecoveryInv'
<1> SUFFICES ASSUME RecoveryInv, [Next]_vars, TypeOK' PROVE MarkBoundsRedeemed' /\ RecoverySingleUse'
  BY TypeStep DEF RecoveryInv
<1>1. CASE Redeems
  <2> PICK d \in Devices : /\ pair[d].win \in Windows /\ pair[d].win > used
                          /\ used' = pair[d].win
                          /\ redeemed' = [redeemed EXCEPT ![pair[d].win] = @ \cup {d}]
    BY <1>1 DEF Redeems
  <2>1. redeemed \in [Windows -> SUBSET Devices] /\ used \in {0} \cup Windows
    BY DEF RecoveryInv, TypeOK, WorldType, DocType
  <2>2. redeemed[pair[d].win] = {}
    BY <2>1, BoundsAssumption DEF RecoveryInv, MarkBoundsRedeemed, Windows
  <2>3. \A w \in Windows : redeemed'[w] = IF w = pair[d].win THEN {d} ELSE redeemed[w]
    BY <2>1, <2>2
  <2>4. MarkBoundsRedeemed'
    BY <2>1, <2>3, BoundsAssumption DEF RecoveryInv, MarkBoundsRedeemed, Windows
  <2>5. RecoverySingleUse'
    BY <2>3 DEF RecoveryInv, RecoverySingleUse
  <2> QED  BY <2>4, <2>5
<1>2. CASE UNCHANGED <<used, redeemed>>
  BY <1>2 DEF RecoveryInv, MarkBoundsRedeemed, RecoverySingleUse
<1> QED  BY <1>1, <1>2, OnlyCommitsRedeem DEF RecoveryInv

\* The strengthened invariant holds in every state the program reaches.
LEMMA RecoveryInvariant == Spec => []RecoveryInv
<1>1. Init => RecoveryInv
  BY InitTypeOK DEF Init, RecoveryInv, MarkBoundsRedeemed, RecoverySingleUse
<1> QED  BY <1>1, RecoveryInvInductive, PTL DEF Spec

\* A recovery code admits one phone, however its requests interleave with each
\* other, with resets, revokes and restarts (lanapi.Server.pairWithVoucher).
THEOREM RecoveryCodeUsedOnce == Spec => []RecoverySingleUse
<1>1. RecoveryInv => RecoverySingleUse  BY DEF RecoveryInv
<1> QED  BY <1>1, RecoveryInvariant, PTL

\* The relay implements the promise of the recovery code: every commit of a
\* recovery is one redemption of a window that is still open.
THEOREM RecoveryImplemented == Spec => ImplementsRecoveryCode
<1>1. Init => Code!Init  BY DEF Init, Code!Init
<1>2. RecoveryInv /\ [Next]_vars => [Code!Next]_redeemed
  <2> SUFFICES ASSUME RecoveryInv, [Next]_vars PROVE [Code!Next]_redeemed  OBVIOUS
  <2>1. CASE Redeems
    <3> PICK d \in Devices : /\ pair[d].win \in Windows /\ pair[d].win > used
                            /\ used' = pair[d].win
                            /\ redeemed' = [redeemed EXCEPT ![pair[d].win] = @ \cup {d}]
      BY <2>1 DEF Redeems
    <3>1. redeemed \in [Windows -> SUBSET Devices] /\ used \in {0} \cup Windows
      BY DEF RecoveryInv, TypeOK, WorldType, DocType
    <3>2. \A v \in Windows : v >= pair[d].win => redeemed[v] = {}
      BY <3>1, BoundsAssumption DEF RecoveryInv, MarkBoundsRedeemed, Windows
    <3>3. ~Code!Closed(pair[d].win)  BY <3>2 DEF Code!Closed
    <3>4. redeemed[pair[d].win] = {}  BY <3>2, BoundsAssumption DEF Windows
    <3>5. redeemed' = [redeemed EXCEPT ![pair[d].win] = {d}]
      <4>1. redeemed[pair[d].win] \cup {d} = {d}  BY <3>4
      <4> QED  BY <4>1
    <3>6. Code!Redeem(pair[d].win, d)  BY <3>3, <3>5 DEF Code!Redeem
    <3> QED  BY <3>6 DEF Code!Next
  <2>2. CASE UNCHANGED <<used, redeemed>>  BY <2>2
  <2> QED  BY <2>1, <2>2, OnlyCommitsRedeem DEF RecoveryInv
<1> QED  BY <1>1, <1>2, RecoveryInvariant, PTL DEF Spec, ImplementsRecoveryCode, Code!Spec

-----------------------------------------------------------------------------
(* Identities.  A founding in flight holds an identity that nothing else   *)
(* does: it becomes the relay's when that founding commits, and once it    *)
(* is replaced it never comes back.  So an upsert that finds the token of  *)
(* its snapshot has had it all along.                                      *)

Holds(d) == Kind[d] = "first" /\ pair[d].pc = "brokered"

Identities ==
    /\ token <= minted
    /\ \A d \in Devices : Holds(d) => pair[d].tok \in 1..minted /\ pair[d].tok # token
    /\ \A d, e \in Devices : Holds(d) /\ Holds(e) /\ pair[d].tok = pair[e].tok => d = e

UnderWay(u) == put[u].pc \in {"locked", "registered"}
Bound ==
    \A u \in Upserts : UnderWay(u) =>
        /\ put[u].tok <= minted
        /\ \A d \in Devices : Holds(d) => pair[d].tok # put[u].tok
        /\ put[u].pc = "registered" => token = NoToken \/ token # put[u].tok \/ put[u].guid = put[u].tok

\* The watcher's binding is a household that was deleted.
Deleted == "watcher" \in Resetters /\ rst["watcher"].pc = "bound" => rst["watcher"].to \in gone

\* A device is in the document only once its request has committed.
Newcomers == \A d \in Devices : dev[d] # "absent" => pair[d].pc \in {"committed", "done"}

IInv == TypeOK /\ Identities /\ Bound /\ Deleted /\ Newcomers

\* Steps that take no identity into use leave every identity with its holder.
LEMMA NoNewIdentity ==
  ASSUME TypeOK, Identities, Bound, token' \in {token, NoToken}, minted' = minted,
         \A d \in Devices : Holds(d)' => Holds(d) /\ pair'[d].tok = pair[d].tok,
         \A u \in Upserts : UnderWay(u)' => UnderWay(u) /\ put'[u] = put[u]
  PROVE  Identities' /\ Bound'
<1>1. /\ minted \in Nat /\ token \in Nat
      /\ NoToken = 0
  BY BoundsAssumption DEF TypeOK, WorldType, DocType, Tokens, NoToken
<1>2. Identities'  BY <1>1 DEF Identities
<1>3. Bound'
  <2> SUFFICES ASSUME NEW u \in Upserts, UnderWay(u)'
               PROVE  /\ put'[u].tok <= minted'
                      /\ \A d \in Devices : Holds(d)' => pair'[d].tok # put'[u].tok
                      /\ put'[u].pc = "registered" =>
                           token' = NoToken \/ token' # put'[u].tok \/ put'[u].guid = put'[u].tok
    BY DEF Bound
  <2>1. UnderWay(u) /\ put'[u] = put[u]  OBVIOUS
  <2> QED  BY <2>1 DEF Bound
<1> QED  BY <1>2, <1>3

\* A redeemed code brings an identity that nothing holds yet.
LEMMA RedeemKeepsIdentities ==
  ASSUME TypeOK, Identities, Bound, NEW d \in Devices, RedeemCode(d)
  PROVE  Identities' /\ Bound'
<1>1. /\ minted' = minted + 1 /\ token' = token /\ put' = put
      /\ pair' = [pair EXCEPT ![d].pc = "brokered", ![d].tok = minted + 1]
      /\ Kind[d] = "first"
  BY DEF RedeemCode, doc, OthersThanPair
<1>2. minted \in Nat /\ token \in Nat /\ NoToken = 0
  BY BoundsAssumption DEF TypeOK, WorldType, DocType, Tokens, NoToken
<1>3. \A e \in Devices : /\ e # d => pair'[e] = pair[e]
                         /\ pair'[d].tok = minted + 1 /\ pair'[d].pc = "brokered"
  BY <1>1 DEF TypeOK, PairType
<1>4. \A e \in Devices : e # d => (Holds(e)' <=> Holds(e))  BY <1>3 DEF Holds
<1>5. Identities'
  <2>1. token' <= minted'  BY <1>1, <1>2 DEF Identities
  <2>2. ASSUME NEW e \in Devices, Holds(e)' PROVE pair'[e].tok \in 1..minted' /\ pair'[e].tok # token'
    <3>1. CASE e = d
      <4>1. pair'[e].tok = minted + 1 /\ token' = token /\ minted' = minted + 1  BY <1>1, <1>3, <3>1
      <4>2. token <= minted  BY DEF Identities
      <4> QED  BY <1>2, <4>1, <4>2
    <3>2. CASE e # d
      <4>1. pair[e].tok \in 1..minted /\ pair[e].tok # token  BY <1>4, <2>2, <3>2 DEF Identities
      <4>2. pair'[e].tok = pair[e].tok /\ token' = token /\ minted' = minted + 1  BY <1>1, <1>3, <3>2
      <4> QED  BY <1>2, <4>1, <4>2
    <3> QED  BY <3>1, <3>2
  <2>3. ASSUME NEW e \in Devices, NEW f \in Devices, Holds(e)', Holds(f)', pair'[e].tok = pair'[f].tok PROVE e = f
    <3>1. \A g \in Devices : g # d /\ Holds(g)' => pair'[g].tok \in 1..minted /\ Holds(g) /\ pair'[g].tok = pair[g].tok
      BY <1>3, <1>4 DEF Identities
    <3>2. minted + 1 \notin 1..minted  BY <1>2
    <3> QED  BY <1>3, <2>3, <3>1, <3>2 DEF Identities
  <2> QED  BY <2>1, <2>2, <2>3 DEF Identities
<1>6. Bound'
  <2> SUFFICES ASSUME NEW u \in Upserts, UnderWay(u)'
               PROVE  /\ put[u].tok <= minted'
                      /\ \A e \in Devices : Holds(e)' => pair'[e].tok # put[u].tok
                      /\ put[u].pc = "registered" =>
                           token = NoToken \/ token # put[u].tok \/ put[u].guid = put[u].tok
    BY <1>1 DEF Bound
  <2>1. UnderWay(u)  BY <1>1 DEF UnderWay
  <2>2. put[u].tok <= minted /\ put[u].tok \in Nat
    BY <2>1, BoundsAssumption DEF Bound, UnderWay, TypeOK, PutType, Tokens, NoToken
  <2>3. ASSUME NEW e \in Devices, Holds(e)' PROVE pair'[e].tok # put[u].tok
    <3>1. CASE e = d  BY <1>2, <1>3, <2>2, <3>1
    <3>2. CASE e # d  BY <1>3, <1>4, <2>1, <2>3, <3>2 DEF Bound
    <3> QED  BY <3>1, <3>2
  <2>4. put[u].tok <= minted'
    <3>1. minted' = minted + 1  BY <1>1
    <3> QED  BY <1>2, <2>2, <3>1
  <2>5. put[u].pc = "registered" => token = NoToken \/ token # put[u].tok \/ put[u].guid = put[u].tok
    BY <2>1 DEF Bound
  <2> QED  BY <2>3, <2>4, <2>5
<1> QED  BY <1>5, <1>6

\* A founding makes the identity it holds the relay's, and no upsert waits for it.
LEMMA FoundingKeepsIdentities ==
  ASSUME TypeOK, Identities, Bound, NEW d \in Devices, CommitFirst(d)
  PROVE  Identities' /\ Bound' /\ token' # NoToken
<1>1. /\ minted' = minted /\ token' = pair[d].tok /\ put' = put /\ Holds(d)
      /\ pair' = [pair EXCEPT ![d].pc = "committed"]
  BY DEF CommitFirst, PairMoves, cloud, OthersThanPair, Holds
<1>2. minted \in Nat /\ NoToken = 0 /\ pair[d].tok \in 1..minted
  BY <1>1, BoundsAssumption DEF TypeOK, WorldType, Tokens, NoToken, Identities
<1>3. \A e \in Devices : Holds(e)' => e # d /\ Holds(e) /\ pair'[e] = pair[e]
  BY <1>1 DEF TypeOK, PairType, Holds
<1>4. Identities'  BY <1>1, <1>2, <1>3 DEF Identities
<1>5. Bound'
  <2> SUFFICES ASSUME NEW u \in Upserts, UnderWay(u)'
               PROVE  /\ put[u].tok <= minted
                      /\ \A e \in Devices : Holds(e)' => pair'[e].tok # put[u].tok
                      /\ put[u].pc = "registered" =>
                           token' = NoToken \/ token' # put[u].tok \/ put[u].guid = put[u].tok
    BY <1>1 DEF Bound
  <2>1. UnderWay(u)  BY <1>1 DEF UnderWay
  <2>2. token' # put[u].tok  BY <1>1, <2>1 DEF Bound
  <2> QED  BY <1>3, <2>1, <2>2 DEF Bound
<1> QED  BY <1>1, <1>2, <1>4, <1>5

\* An upsert takes its snapshot, and its GUID, of the identity that is current.
LEMMA UpsertKeepsIdentities ==
  ASSUME TypeOK, Identities, Bound, NEW u \in Upserts, LockUpsert(u) \/ RegisterController(u)
  PROVE  Identities' /\ Bound'
<1>1. UNCHANGED <<token, minted, pair>>  BY DEF LockUpsert, RegisterController, doc, cloud, OthersThanPut
<1>2. \A d \in Devices : Holds(d)' <=> Holds(d)  BY <1>1 DEF Holds
<1>3. Identities'  BY <1>1, <1>2 DEF Identities
<1>4. ASSUME NEW v \in Upserts, UnderWay(v)'
      PROVE  /\ put'[v].tok <= minted
             /\ \A d \in Devices : Holds(d) => pair[d].tok # put'[v].tok
             /\ put'[v].pc = "registered" =>
                  token = NoToken \/ token # put'[v].tok \/ put'[v].guid = put'[v].tok
  <2>1. CASE v # u
    <3>1. put'[v] = put[v]  BY <2>1 DEF LockUpsert, RegisterController, TypeOK, PutType
    <3>2. UnderWay(v)  BY <1>4, <3>1 DEF UnderWay
    <3> QED  BY <3>1, <3>2 DEF Bound
  <2>2. CASE v = u /\ LockUpsert(u)
    <3>1. put'[u] = [pc |-> "locked", tok |-> token]  BY <2>2 DEF LockUpsert, TypeOK, PutType
    <3>2. put'[u].pc = "locked" /\ put'[u].tok = token  BY <3>1
    <3> QED  BY <2>2, <3>2 DEF Identities
  <2>3. CASE v = u /\ RegisterController(u)
    <3>1. put'[u] = [pc |-> "registered", tok |-> put[u].tok, guid |-> token] /\ put[u].pc = "locked"
      BY <2>3 DEF RegisterController, TypeOK, PutType
    <3>2. put'[u].tok = put[u].tok /\ put'[u].guid = token  BY <3>1
    <3>3. UnderWay(u)  BY <3>1 DEF UnderWay
    <3> QED  BY <2>3, <3>2, <3>3 DEF Bound
  <2> QED  BY <2>1, <2>2, <2>3
<1>5. Bound'  BY <1>1, <1>2, <1>4 DEF Bound
<1> QED  BY <1>3, <1>5

\* Every step leaves every identity with one holder.
LEMMA IdentityStep == TypeOK /\ Identities /\ Bound /\ [Next]_vars => Identities' /\ Bound'
<1> SUFFICES ASSUME TypeOK, Identities, Bound, [Next]_vars PROVE Identities' /\ Bound'  OBVIOUS
<1> USE DEF doc, cloud
<1>1. ASSUME token' \in {token, NoToken}, UNCHANGED <<minted, put, pair>> PROVE Identities' /\ Bound'
  BY <1>1, NoNewIdentity DEF Holds, UnderWay
<1>2. ASSUME NEW d \in Devices, Pairing(d) PROVE Identities' /\ Bound'
  <2>1. CASE BeginPair(d) \/ CheckPair(d) \/ BrokerVoucher(d) \/ CommitVoucher(d) \/ FailPair(d) \/ AnnouncePaired(d)
    <3>1. UNCHANGED <<token, minted, put>>
      BY <2>1 DEF BeginPair, CheckPair, BrokerVoucher, CommitVoucher, FailPair, AnnouncePaired, OthersThanPair
    <3>2. \A e \in Devices : Holds(e)' => Holds(e) /\ pair'[e].tok = pair[e].tok
      BY <2>1 DEF BeginPair, CheckPair, BrokerVoucher, CommitVoucher, FailPair, AnnouncePaired, PairMoves, Holds, Idle,
         TypeOK, PairType
    <3> QED  BY <3>1, <3>2, NoNewIdentity DEF UnderWay
  <2> QED  BY <1>2, <2>1, RedeemKeepsIdentities, FoundingKeepsIdentities DEF Pairing
<1>3. ASSUME NEW r \in Revokes, Revoking(r) PROVE Identities' /\ Bound'
  BY <1>1, <1>3 DEF Revoking, GateRevoke, CommitRevoke, FailRevoke, AnnounceUnpaired, OthersThanRev
<1>4. CASE Resetting
  BY <1>1, <1>4 DEF Resetting, AskStatus, GateReset, DropHousehold, ForgetHousehold, FailReset, ReadPaired, AnnounceRead,
     OthersThanRst
<1>5. CASE Upserting
  <2>1. ASSUME NEW u \in Upserts, GateUpsert(u) \/ PersistController(u) \/ FailUpsert(u) PROVE Identities' /\ Bound'
    <3>1. UNCHANGED <<token, minted, pair>>
      BY <2>1 DEF GateUpsert, PersistController, FailUpsert, OthersThanPut
    <3>2. \A v \in Upserts : UnderWay(v)' => UnderWay(v) /\ put'[v] = put[v]
      BY <2>1 DEF GateUpsert, PersistController, FailUpsert, UnderWay, TypeOK, PutType
    <3> QED  BY <3>1, <3>2, NoNewIdentity DEF Holds
  <2> QED  BY <1>1, <1>5, <2>1, UpsertKeepsIdentities DEF Upserting, RemoveController
<1>6. CASE (\E t \in Tokens : CloudDeletes(t)) \/ Tick  BY <1>1, <1>6 DEF CloudDeletes, Tick
<1>7. CASE Restart
  <2>1. UNCHANGED <<token, minted>>  BY <1>7 DEF Restart
  <2>2. \A e \in Devices : ~Holds(e)'  BY <1>7 DEF Restart, Holds, Idle
  <2>3. \A v \in Upserts : ~UnderWay(v)'  BY <1>7 DEF Restart, UnderWay
  <2> QED  BY <2>1, <2>2, <2>3, NoNewIdentity
<1>8. CASE UNCHANGED vars  BY <1>1, <1>8 DEF vars
<1> QED  BY <1>2, <1>3, <1>4, <1>5, <1>6, <1>7, <1>8 DEF Next

\* What was deleted stays deleted, and only such a household is ever bound.
LEMMA DeletedStep == TypeOK /\ Deleted /\ [Next]_vars => Deleted'
<1> SUFFICES ASSUME TypeOK, Deleted, [Next]_vars, "watcher" \in Resetters, rst'["watcher"].pc = "bound"
             PROVE  rst'["watcher"].to \in gone'
  BY DEF Deleted
<1> USE DEF doc, cloud
<1>1. ASSUME rst' = rst, gone \subseteq gone' PROVE rst'["watcher"].to \in gone'  BY <1>1 DEF Deleted
<1>2. CASE AskStatus  BY <1>2 DEF AskStatus, TypeOK, RstType
<1>3. CASE GateReset
  <2>1. rst'["watcher"] = rst["watcher"] /\ gone' = gone  BY <1>3 DEF GateReset, TypeOK, RstType
  <2> QED  BY <2>1 DEF Deleted
<1>4. ASSUME NEW a \in Resetters, DropHousehold(a) \/ FailReset(a) \/ ReadPaired(a) \/ AnnounceRead(a)
      PROVE  rst'["watcher"].to \in gone'
  <2>1. gone' = gone /\ rst'[a].pc # "bound" /\ \A b \in Resetters : b # a => rst'[b] = rst[b]
    BY <1>4 DEF DropHousehold, FailReset, ReadPaired, AnnounceRead, TypeOK, RstType
  <2> QED  BY <2>1 DEF Deleted
<1>5. CASE \E d \in Devices : Pairing(d)
  BY <1>1, <1>5 DEF Pairing, BeginPair, CheckPair, RedeemCode, BrokerVoucher, CommitFirst, CommitVoucher, FailPair,
     AnnouncePaired, OthersThanPair
<1>6. CASE \E r \in Revokes : Revoking(r)
  BY <1>1, <1>6 DEF Revoking, GateRevoke, CommitRevoke, FailRevoke, AnnounceUnpaired, OthersThanRev
<1>7. CASE Upserting
  BY <1>1, <1>7 DEF Upserting, GateUpsert, LockUpsert, RegisterController, PersistController, FailUpsert,
     RemoveController, OthersThanPut
<1>8. CASE (\E t \in Tokens : CloudDeletes(t)) \/ Tick  BY <1>1, <1>8 DEF CloudDeletes, Tick
<1>9. CASE Restart  BY <1>9 DEF Restart
<1>10. CASE UNCHANGED vars  BY <1>1, <1>10 DEF vars
<1> QED  BY <1>2, <1>3, <1>4, <1>5, <1>6, <1>7, <1>8, <1>9, <1>10 DEF Next, Resetting

\* A device enters the document with the commit of its request, and by nothing else.
LEMMA NewcomersStep == TypeOK /\ Newcomers /\ [Next]_vars => Newcomers'
<1> SUFFICES ASSUME TypeOK, Newcomers, [Next]_vars, NEW d \in Devices, dev'[d] # "absent"
             PROVE  pair'[d].pc \in {"committed", "done"}
  BY DEF Newcomers
<1> USE DEF doc, cloud
<1>1. ASSUME dev[d] # "absent", pair'[d].pc \in {pair[d].pc, "done"} PROVE pair'[d].pc \in {"committed", "done"}
  BY <1>1 DEF Newcomers
<1>2. ASSUME NEW e \in Devices, Pairing(e) PROVE pair'[d].pc \in {"committed", "done"}
  <2>1. CASE CommitFirst(e) \/ CommitVoucher(e)
    <3>1. CASE d = e  BY <2>1, <3>1 DEF CommitFirst, CommitVoucher, PairMoves, TypeOK, PairType
    <3>2. CASE d # e
      <4>1. dev'[d] = dev[d] /\ pair'[d] = pair[d]
        BY <2>1, <3>2 DEF CommitFirst, CommitVoucher, PairMoves, TypeOK, PairType, DocType
      <4> QED  BY <1>1, <4>1
    <3> QED  BY <3>1, <3>2
  <2>2. CASE ~CommitFirst(e) /\ ~CommitVoucher(e)
    <3>1. dev' = dev
      BY <1>2, <2>2 DEF Pairing, BeginPair, CheckPair, RedeemCode, BrokerVoucher, FailPair, AnnouncePaired
    <3>2. CASE d # e
      <4>1. pair'[d] = pair[d]
        BY <1>2, <2>2, <3>2 DEF Pairing, BeginPair, CheckPair, RedeemCode, BrokerVoucher, FailPair, AnnouncePaired,
           PairMoves, TypeOK, PairType
      <4> QED  BY <1>1, <3>1, <4>1
    <3>3. CASE d = e
      <4>1. pair[e].pc \in {"committed", "done"}  BY <3>1, <3>3 DEF Newcomers
      <4> QED
        BY <1>2, <2>2, <3>3, <4>1 DEF Pairing, BeginPair, CheckPair, RedeemCode, BrokerVoucher, FailPair, AnnouncePaired,
           PairMoves, TypeOK, PairType
    <3> QED  BY <3>2, <3>3
  <2> QED  BY <2>1, <2>2
<1>3. ASSUME NEW r \in Revokes, Revoking(r) PROVE pair'[d].pc \in {"committed", "done"}
  <2>1. dev[d] # "absent" /\ pair' = pair
    BY <1>3 DEF Revoking, GateRevoke, CommitRevoke, FailRevoke, AnnounceUnpaired, OthersThanRev, Active, Roles, TypeOK, DocType
  <2> QED  BY <1>1, <2>1
<1>4. CASE Resetting
  <2>1. dev[d] # "absent" /\ pair' = pair
    BY <1>4 DEF Resetting, AskStatus, GateReset, DropHousehold, ForgetHousehold, FailReset, ReadPaired, AnnounceRead,
       OthersThanRst
  <2> QED  BY <1>1, <2>1
<1>5. CASE Upserting
  <2>1. dev' = dev /\ pair' = pair
    BY <1>5 DEF Upserting, GateUpsert, LockUpsert, RegisterController, PersistController, FailUpsert,
       RemoveController, OthersThanPut
  <2> QED  BY <1>1, <2>1
<1>6. CASE (\E t \in Tokens : CloudDeletes(t)) \/ Tick \/ UNCHANGED vars
  BY <1>1, <1>6 DEF CloudDeletes, Tick, vars
<1>7. CASE Restart
  <2>1. dev' = dev /\ pair'[d].pc \in {pair[d].pc, "done"}  BY <1>7 DEF Restart, Idle
  <2> QED  BY <1>1, <2>1
<1> QED  BY <1>2, <1>3, <1>4, <1>5, <1>6, <1>7 DEF Next

\* The inductive invariant holds in every state the program reaches.
THEOREM Invariance == Spec => []IInv
<1>1. Init => IInv
  <2> SUFFICES ASSUME Init PROVE IInv  OBVIOUS
  <2>1. Identities  BY DEF Init, Identities, Holds, Idle, NoToken
  <2>2. Bound /\ Deleted /\ Newcomers  BY DEF Init, Bound, UnderWay, Deleted, Newcomers
  <2> QED  BY <2>1, <2>2, InitTypeOK DEF IInv
<1>2. IInv /\ [Next]_vars => IInv'  BY TypeStep, IdentityStep, DeletedStep, NewcomersStep DEF IInv
<1> QED  BY <1>1, <1>2, PTL DEF Spec

-----------------------------------------------------------------------------
(* What a step may never do.                                               *)

\* A controller enters the document only under the identity that minted its
\* GUID: the token an upsert finds again has been there all along
\* (putControllers, UpdateIfToken).
THEOREM UnderOwnIdentity == Spec => RegisteredUnderOwn
<1>1. IInv /\ [Next]_vars => [\A c \in ctrls' \ ctrls : c = token']_vars
  <2> SUFFICES ASSUME IInv, Next, NEW c \in ctrls' \ ctrls PROVE c = token'  OBVIOUS
  <2> USE DEF doc
  <2>1. PICK u \in Upserts : PersistController(u)
    <3>1. CASE \E d \in Devices : Pairing(d)
      BY <3>1 DEF Pairing, BeginPair, CheckPair, RedeemCode, BrokerVoucher, CommitFirst, CommitVoucher, FailPair, AnnouncePaired
    <3>2. CASE \E r \in Revokes : Revoking(r)
      BY <3>2 DEF Revoking, GateRevoke, CommitRevoke, FailRevoke, AnnounceUnpaired
    <3>3. CASE Resetting
      BY <3>3 DEF Resetting, AskStatus, GateReset, DropHousehold, ForgetHousehold, FailReset, ReadPaired, AnnounceRead
    <3>4. CASE Upserting
      BY <3>4 DEF Upserting, GateUpsert, LockUpsert, RegisterController, FailUpsert, RemoveController
    <3>5. CASE (\E t \in Tokens : CloudDeletes(t)) \/ Tick \/ Restart  BY <3>5 DEF CloudDeletes, Tick, Restart
    <3> QED  BY <3>1, <3>2, <3>3, <3>4, <3>5 DEF Next
  <2>2. c = put[u].guid /\ token # NoToken /\ token = put[u].tok /\ token' = token /\ put[u].pc = "registered"
    BY <2>1 DEF PersistController, UpsertBound
  <2>3. put[u].guid = put[u].tok  BY <2>2 DEF IInv, Bound, UnderWay
  <2> QED  BY <2>2, <2>3
<1> QED  BY <1>1, Invariance, PTL DEF Spec, RegisteredUnderOwn

\* A household is forgotten only if it was deleted or one of its own devices
\* asked for it: the bindings of both resets are about the current household
\* when they are evaluated (DropHouseholdIf).
THEOREM ResetsOwnHousehold == Spec => ResetReachesOwnHousehold
<1> DEFINE A == (Enrolled /\ ~Enrolled') =>
                   \/ token \in gone
                   \/ "lan" \in Resetters /\ rst["lan"].pc = "bound" /\ rst["lan"].to \in Active
<1>1. IInv /\ [Next]_vars => [A]_vars
  <2> SUFFICES ASSUME IInv, Next, token # NoToken, token' = NoToken
               PROVE  \/ token \in gone
                      \/ "lan" \in Resetters /\ rst["lan"].pc = "bound" /\ rst["lan"].to \in Active
    BY DEF Enrolled
  <2> USE DEF doc
  <2>1. PICK a \in Resetters : DropHousehold(a)
    <3>1. CASE \E d \in Devices : Pairing(d)
      <4> PICK d \in Devices : Pairing(d)  BY <3>1
      <4>1. ~CommitFirst(d)  BY FoundingKeepsIdentities DEF IInv
      <4> QED
        BY <4>1 DEF Pairing, BeginPair, CheckPair, RedeemCode, BrokerVoucher, CommitVoucher, FailPair, AnnouncePaired
    <3>2. CASE \E r \in Revokes : Revoking(r)
      BY <3>2 DEF Revoking, GateRevoke, CommitRevoke, FailRevoke, AnnounceUnpaired
    <3>3. CASE Resetting
      BY <3>3 DEF Resetting, AskStatus, GateReset, FailReset, ReadPaired, AnnounceRead
    <3>4. CASE Upserting
      BY <3>4 DEF Upserting, GateUpsert, LockUpsert, RegisterController, PersistController, FailUpsert, RemoveController
    <3>5. CASE (\E t \in Tokens : CloudDeletes(t)) \/ Tick \/ Restart  BY <3>5 DEF CloudDeletes, Tick, Restart
    <3> QED  BY <3>1, <3>2, <3>3, <3>4, <3>5 DEF Next
  <2>2. rst[a].pc = "bound" /\ Still(a)  BY <2>1 DEF DropHousehold
  <2>3. CASE a = "watcher"  BY <2>2, <2>3 DEF Still, IInv, Deleted
  <2>4. CASE a = "lan"  BY <2>2, <2>4 DEF Still
  <2> QED  BY <2>3, <2>4, ResettersAssumption
<1>2. IInv /\ [Next]_vars =>
        [(Enrolled /\ ~Enrolled') =>
            \/ token \in gone
            \/ "lan" \in Resetters /\ rst["lan"].pc = "bound" /\ rst["lan"].to \in Active]_vars
  BY <1>1
<1> QED  BY <1>2, Invariance, PTL DEF Spec, ResetReachesOwnHousehold

\* Nobody takes the last owner from a household that goes on, however many
\* revokes are gated at the same time (deleteDevice's guards inside Update).
THEOREM OwnerStays == Spec => OwnerKept
<1> DEFINE A == \A d \in Devices :
                  (LastOwner(d) /\ Paired' /\ ~\E e \in Devices : IsOwner(e)') => SelfRevoke(d)
<1>1. IInv /\ [Next]_vars => [A]_vars
  <2> SUFFICES ASSUME IInv, Next, NEW d \in Devices, LastOwner(d), Paired', ~\E e \in Devices : IsOwner(e)'
               PROVE  SelfRevoke(d)
    OBVIOUS
  <2> USE DEF doc
  <2>1. dev[d] = "owner" /\ dev'[d] # "owner" /\ \A e \in Devices : dev'[e] # "owner"
    BY DEF LastOwner, IsOwner
  <2>2. PICK r \in Revokes : CommitRevoke(r)
    <3>1. CASE \E x \in Devices : Pairing(x)
      <4> PICK x \in Devices : Pairing(x)  BY <3>1
      <4>1. CASE CommitFirst(x)
        <5>1. dev'[x] = "owner"  BY <4>1 DEF CommitFirst, IInv, TypeOK, DocType
        <5> QED  BY <2>1, <5>1
      <4>2. CASE CommitVoucher(x)
        <5>1. pair[x].pc = "brokered"  BY <4>2 DEF CommitVoucher, PairMoves
        <5>2. x # d  BY <2>1, <5>1 DEF IInv, Newcomers
        <5>3. dev'[d] = dev[d]  BY <4>2, <5>2 DEF CommitVoucher, IInv, TypeOK, DocType
        <5> QED  BY <2>1, <5>3
      <4> QED
        BY <2>1, <4>1, <4>2 DEF Pairing, BeginPair, CheckPair, RedeemCode, BrokerVoucher, FailPair, AnnouncePaired
    <3>2. CASE \E r \in Revokes : Revoking(r)
      BY <2>1, <3>2 DEF Revoking, GateRevoke, FailRevoke, AnnounceUnpaired
    <3>3. CASE Resetting
      <4>1. ASSUME NEW a \in Resetters, DropHousehold(a) PROVE FALSE
        BY <4>1 DEF DropHousehold, ForgetHousehold, Paired, Active, Roles
      <4> QED  BY <2>1, <3>3, <4>1 DEF Resetting, AskStatus, GateReset, FailReset, ReadPaired, AnnounceRead
    <3>4. CASE Upserting
      BY <2>1, <3>4 DEF Upserting, GateUpsert, LockUpsert, RegisterController, PersistController, FailUpsert, RemoveController
    <3>5. CASE (\E t \in Tokens : CloudDeletes(t)) \/ Tick \/ Restart  BY <2>1, <3>5 DEF CloudDeletes, Tick, Restart
    <3> QED  BY <3>1, <3>2, <3>3, <3>4, <3>5 DEF Next
  <2>3. /\ rev[r].pc = "gated" /\ RevokeAllowed(r) /\ dev' = [dev EXCEPT ![rev[r].target] = "revoked"]
        /\ rev'[r].pc \in {"revoked", "unpaired"}
    BY <2>2 DEF CommitRevoke, IInv, TypeOK, RevType
  <2>4. rev[r].target = d  BY <2>1, <2>3 DEF IInv, TypeOK, DocType
  <2>5. rev[r].caller = d  BY <2>3, <2>4 DEF RevokeAllowed
  <2> QED  BY <2>3, <2>4, <2>5 DEF SelfRevoke
<1> HIDE DEF A
<1>2. IInv /\ [Next]_vars =>
        [\A d \in Devices : (LastOwner(d) /\ Paired' /\ ~\E e \in Devices : IsOwner(e)') => SelfRevoke(d)]_vars
  BY <1>1 DEF A
<1> QED  BY <1>2, Invariance, PTL DEF Spec, OwnerKept

\* The tunnel leg never unpairs the relay: a revoke that takes the last device
\* came in on the LAN (deleteDevice).
THEOREM TunnelKeepsPaired == Spec => TunnelNeverUnpairs
<1>1. IInv /\ [Next]_vars =>
        [(Paired /\ ~Paired') =>
            \A r \in Revokes : (rev[r].pc = "gated" /\ rev'[r].pc = "unpaired") => rev[r].leg = "lan"]_vars
  <2> SUFFICES ASSUME IInv, Next, NEW r \in Revokes, rev[r].pc = "gated", rev'[r].pc = "unpaired"
               PROVE  rev[r].leg = "lan"
    OBVIOUS
  <2>1. CommitRevoke(r)
    <3>1. CASE \E s \in Revokes : Revoking(s)
      <4> PICK s \in Revokes : Revoking(s)  BY <3>1
      <4>1. CommitRevoke(s)
        BY DEF Revoking, GateRevoke, FailRevoke, AnnounceUnpaired, IInv, TypeOK, RevType
      <4>2. s = r  BY <4>1 DEF CommitRevoke, IInv, TypeOK, RevType
      <4> QED  BY <4>1, <4>2
    <3>2. CASE \E d \in Devices : Pairing(d)
      BY <3>2 DEF Pairing, BeginPair, CheckPair, RedeemCode, BrokerVoucher, CommitFirst, CommitVoucher, FailPair,
         AnnouncePaired, OthersThanPair
    <3>3. CASE Resetting
      BY <3>3 DEF Resetting, AskStatus, GateReset, DropHousehold, FailReset, ReadPaired, AnnounceRead, OthersThanRst
    <3>4. CASE Upserting
      BY <3>4 DEF Upserting, GateUpsert, LockUpsert, RegisterController, PersistController, FailUpsert, RemoveController,
         OthersThanPut
    <3>5. CASE (\E t \in Tokens : CloudDeletes(t)) \/ Tick  BY <3>5 DEF CloudDeletes, Tick
    <3>6. CASE Restart
      <4>1. rev'[r] = [rev[r] EXCEPT !.pc = "refused"]  BY <3>6 DEF Restart
      <4> QED  BY <4>1 DEF IInv, TypeOK, RevType
    <3> QED  BY <3>1, <3>2, <3>3, <3>4, <3>5, <3>6 DEF Next
  <2>2. LastActive(rev[r].target) /\ RevokeAllowed(r)  BY <2>1 DEF CommitRevoke, IInv, TypeOK, RevType
  <2>3. rev[r].leg \in Legs  BY DEF IInv, TypeOK, RevType
  <2> QED  BY <2>2, <2>3, LegsAssumption DEF RevokeAllowed
<1> QED  BY <1>1, Invariance, PTL DEF Spec, TunnelNeverUnpairs

-----------------------------------------------------------------------------
(* The cap on devices.                                                     *)

\* A founding that commits finds the relay without a device, which pairFirst
\* does not look at again.
FoundsUnpaired == \A d \in Devices : CommitFirst(d) => ~Paired

\* A step adds at most the device whose request commits.
LEMMA ActiveStep ==
  ASSUME TypeOK, [Next]_vars
  PROVE  \/ Active' \subseteq Active
         \/ \E d \in Devices : CommitFirst(d) /\ Active' = Active \cup {d}
         \/ \E d \in Devices : CapStillFree /\ Kind[d] # "first" /\ pair[d].pc = "brokered" /\ Active' = Active \cup {d}
<1> USE DEF doc
<1>1. ASSUME NEW d \in Devices, NEW role \in Roles, dev' = [dev EXCEPT ![d] = role]
      PROVE  Active' = Active \cup {d}
  BY <1>1 DEF Active, TypeOK, DocType
<1>2. ASSUME dev' = dev PROVE Active' \subseteq Active  BY <1>2 DEF Active
<1>3. CASE \E d \in Devices : Pairing(d)
  <2> PICK d \in Devices : Pairing(d)  BY <1>3
  <2>1. CASE CommitFirst(d)  BY <1>1, <2>1 DEF CommitFirst, Roles
  <2>2. CASE CommitVoucher(d)
    <3>1. PICK role \in VoucherRoles(d) : dev' = [dev EXCEPT ![d] = role]  BY <2>2 DEF CommitVoucher
    <3>2. role \in Roles  BY <3>1, RolesAssumption DEF VoucherRoles, Roles
    <3>3. CapStillFree /\ Kind[d] # "first" /\ pair[d].pc = "brokered"  BY <2>2 DEF CommitVoucher, PairMoves
    <3> QED  BY <1>1, <3>1, <3>2, <3>3
  <2>3. CASE ~CommitFirst(d) /\ ~CommitVoucher(d)
    BY <1>2, <2>3 DEF Pairing, BeginPair, CheckPair, RedeemCode, BrokerVoucher, FailPair, AnnouncePaired
  <2> QED  BY <2>1, <2>2, <2>3
<1>4. CASE \E r \in Revokes : Revoking(r)
  BY <1>4 DEF Revoking, GateRevoke, CommitRevoke, FailRevoke, AnnounceUnpaired, Active, Roles, TypeOK, DocType
<1>5. CASE Resetting
  BY <1>5 DEF Resetting, AskStatus, GateReset, DropHousehold, ForgetHousehold, FailReset, ReadPaired, AnnounceRead,
     Active, Roles
<1>6. CASE Upserting
  BY <1>2, <1>6 DEF Upserting, GateUpsert, LockUpsert, RegisterController, PersistController, FailUpsert, RemoveController
<1>7. CASE (\E t \in Tokens : CloudDeletes(t)) \/ Tick \/ Restart \/ UNCHANGED vars
  BY <1>2, <1>7 DEF CloudDeletes, Tick, Restart, vars
<1> QED  BY <1>3, <1>4, <1>5, <1>6, <1>7 DEF Next

\* The cap, with what makes counting devices mean something.
Counted == IsFiniteSet(Active) /\ CapHeld

LEMMA CountedStep == TypeOK /\ Counted /\ FoundsUnpaired /\ [Next]_vars => Counted'
<1> SUFFICES ASSUME TypeOK, Counted, FoundsUnpaired, [Next]_vars PROVE Counted'  OBVIOUS
<1>1. IsFiniteSet(Active) /\ Cardinality(Active) \in Nat /\ Cardinality(Active) <= DeviceCap /\ DeviceCap \in Nat \ {0}
  BY FS_CardinalityType, BoundsAssumption DEF Counted, CapHeld
<1>2. CASE Active' \subseteq Active
  <2>1. IsFiniteSet(Active') /\ Cardinality(Active') <= Cardinality(Active)  BY <1>1, <1>2, FS_Subset
  <2>2. Cardinality(Active') \in Nat  BY <2>1, FS_CardinalityType
  <2> QED  BY <1>1, <2>1, <2>2 DEF Counted, CapHeld
<1>3. ASSUME NEW d \in Devices, CommitFirst(d), Active' = Active \cup {d} PROVE Counted'
  <2>1. Active = {}  BY <1>3 DEF FoundsUnpaired, Paired
  <2>2. Active' = {d}  BY <1>3, <2>1
  <2>3. IsFiniteSet(Active') /\ Cardinality(Active') = 1  BY <2>2, FS_Singleton
  <2> QED  BY <1>1, <2>3 DEF Counted, CapHeld
<1>4. ASSUME NEW d \in Devices, CapStillFree, Active' = Active \cup {d} PROVE Counted'
  <2>1. IsFiniteSet(Active') /\ Cardinality(Active') = IF d \in Active THEN Cardinality(Active) ELSE Cardinality(Active) + 1
    BY <1>1, <1>4, FS_AddElement
  <2>2. Cardinality(Active') <= DeviceCap  BY <1>1, <1>4, <2>1 DEF CapStillFree
  <2> QED  BY <2>1, <2>2 DEF Counted, CapHeld
<1> QED  BY <1>2, <1>3, <1>4, ActiveStep

LEMMA InitCounted == Init => Counted
<1> SUFFICES ASSUME Init PROVE Counted  OBVIOUS
<1>1. Active = {}  BY DEF Init, Active, Roles
<1>2. IsFiniteSet(Active) /\ Cardinality(Active) = 0  BY <1>1, FS_EmptySet
<1> QED  BY <1>2, BoundsAssumption DEF Counted, CapHeld

\* The recheck under the store's lock holds the cap against any number of
\* joins and recoveries, resets, revokes and restarts: only a founding that
\* commits into a relay another request has paired in between can pass it.
THEOREM CapKeptByRecheck == Spec /\ [][FoundsUnpaired]_vars => []CapHeld
<1>1. TypeOK /\ Counted /\ [Next]_vars /\ [FoundsUnpaired]_vars => Counted'
  <2> SUFFICES ASSUME TypeOK, Counted, [Next]_vars, [FoundsUnpaired]_vars PROVE Counted'  OBVIOUS
  <2>1. CASE FoundsUnpaired  BY <2>1, CountedStep
  <2>2. CASE UNCHANGED vars
    <3>1. Active' = Active  BY <2>2 DEF vars, Active
    <3> QED  BY <3>1 DEF Counted, CapHeld
  <2> QED  BY <2>1, <2>2
<1>2. Counted => CapHeld  BY DEF Counted
<1> QED  BY InitCounted, TypeCorrect, <1>1, <1>2, PTL DEF Spec

\* Until a relay's only founding commits, it is neither paired nor enrolled,
\* and no voucher gets past the cloud.
Unfounded(f) == pair[f].pc \notin {"committed", "done"} =>
    Active = {} /\ token = NoToken /\ \A d \in Devices : Kind[d] # "first" => pair[d].pc # "brokered"

LEMMA UnfoundedStep ==
  ASSUME NEW f \in Devices, Kind[f] = "first", \A d \in Devices : Kind[d] = "first" => d = f,
         TypeOK, Unfounded(f), [Next]_vars
  PROVE  Unfounded(f)'
<1> SUFFICES ASSUME pair'[f].pc \notin {"committed", "done"}
             PROVE  Active' = {} /\ token' = NoToken /\ \A d \in Devices : Kind[d] # "first" => pair'[d].pc # "brokered"
  BY DEF Unfounded
<1> USE DEF doc
<1>1. pair[f].pc \notin {"committed", "done"} /\ ~CommitFirst(f)
  <2>1. CASE \E d \in Devices : Pairing(d)
    BY <2>1 DEF Pairing, BeginPair, CheckPair, RedeemCode, BrokerVoucher, CommitFirst, CommitVoucher, FailPair,
       AnnouncePaired, PairMoves, TypeOK, PairType
  <2>2. CASE ~\E d \in Devices : Pairing(d)
    <3>1. ~CommitFirst(f)  BY <2>2 DEF Pairing
    <3>2. pair' = pair \/ Restart
      BY <2>2 DEF Next, vars, Revoking, GateRevoke, CommitRevoke, FailRevoke, AnnounceUnpaired, OthersThanRev,
         Resetting, AskStatus, GateReset, DropHousehold, FailReset, ReadPaired, AnnounceRead, OthersThanRst,
         Upserting, GateUpsert, LockUpsert, RegisterController, PersistController, FailUpsert, RemoveController,
         OthersThanPut, CloudDeletes, Tick
    <3> QED  BY <3>1, <3>2 DEF Restart, Idle
  <2> QED  BY <2>1, <2>2
<1>2. Active = {} /\ token = NoToken /\ \A d \in Devices : Kind[d] # "first" => pair[d].pc # "brokered"
  BY <1>1 DEF Unfounded
<1>3. \A d \in Devices : ~CommitFirst(d)  BY <1>1 DEF CommitFirst
<1>4. Active' = {}
  <2>1. ~\E d \in Devices : Kind[d] # "first" /\ pair[d].pc = "brokered"  BY <1>2
  <2> QED  BY <1>2, <1>3, <2>1, ActiveStep
<1>5. token' = NoToken
  BY <1>2, <1>3 DEF Next, vars, Pairing, BeginPair, CheckPair, RedeemCode, BrokerVoucher, CommitVoucher, FailPair,
     AnnouncePaired, Revoking, GateRevoke, CommitRevoke, FailRevoke, AnnounceUnpaired,
     Resetting, AskStatus, GateReset, DropHousehold, ForgetHousehold, FailReset, ReadPaired, AnnounceRead,
     Upserting, GateUpsert, LockUpsert, RegisterController, PersistController, FailUpsert, RemoveController,
     CloudDeletes, Tick, Restart
<1>6. ASSUME NEW d \in Devices, Kind[d] # "first" PROVE pair'[d].pc # "brokered"
  <2>1. pair[d].pc # "brokered" /\ ~Enrolled  BY <1>2, <1>6 DEF Enrolled
  <2>2. CASE \E e \in Devices : Pairing(e)
    <3> PICK e \in Devices : Pairing(e)  BY <2>2
    <3>1. CASE d # e
      <4>1. pair'[d] = pair[d]
        BY <3>1 DEF Pairing, BeginPair, CheckPair, RedeemCode, BrokerVoucher, CommitFirst, CommitVoucher, FailPair,
           AnnouncePaired, PairMoves, TypeOK, PairType
      <4> QED  BY <2>1, <4>1
    <3>2. CASE d = e
      BY <1>6, <2>1, <3>2 DEF Pairing, BeginPair, CheckPair, RedeemCode, BrokerVoucher, CommitFirst, CommitVoucher,
         FailPair, AnnouncePaired, PairMoves, TypeOK, PairType, Idle
    <3> QED  BY <3>1, <3>2
  <2>3. CASE ~\E e \in Devices : Pairing(e)
    <3>1. pair' = pair \/ Restart
      BY <2>3 DEF Next, vars, Revoking, GateRevoke, CommitRevoke, FailRevoke, AnnounceUnpaired, OthersThanRev,
         Resetting, AskStatus, GateReset, DropHousehold, FailReset, ReadPaired, AnnounceRead, OthersThanRst,
         Upserting, GateUpsert, LockUpsert, RegisterController, PersistController, FailUpsert, RemoveController,
         OthersThanPut, CloudDeletes, Tick
    <3> QED  BY <2>1, <3>1 DEF Restart, Idle
  <2> QED  BY <2>2, <2>3
<1> QED  BY <1>4, <1>5, <1>6

\* So a relay that is founded once keeps its cap, however many phones join and
\* recover at the same time.  Two foundings may pass it: each of them adds its
\* device whatever has been paired meanwhile.
THEOREM CapKept ==
  ASSUME NEW f \in Devices, Kind[f] = "first", \A d \in Devices : Kind[d] = "first" => d = f
  PROVE  Spec => []CapHeld
<1>1. Init => Unfounded(f)
  <2> SUFFICES ASSUME Init PROVE Unfounded(f)  OBVIOUS
  <2>1. Active = {}  BY DEF Init, Active, Roles
  <2> QED  BY <2>1 DEF Init, Unfounded, Idle
<1>2. TypeOK /\ Unfounded(f) /\ [Next]_vars => Unfounded(f)'  BY UnfoundedStep
<1>3. TypeOK /\ Unfounded(f) => FoundsUnpaired
  BY DEF FoundsUnpaired, Unfounded, CommitFirst, PairMoves, Paired
<1>4. TypeOK /\ Unfounded(f) /\ Counted /\ [Next]_vars => Counted'  BY <1>3, CountedStep
<1>5. Counted => CapHeld  BY DEF Counted
<1> QED  BY InitCounted, TypeCorrect, <1>1, <1>2, <1>4, <1>5, PTL DEF Spec
=============================================================================
