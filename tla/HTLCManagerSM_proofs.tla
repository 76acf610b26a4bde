------------------------ MODULE HTLCManagerSM_proofs ------------------------
(***************************************************************************)
(* Proofs about HTLCManagerSM, for any ids, amounts, feerates and bounds.  *)
(* IInv is inductive, and stronger than the invariants the runs check: it  *)
(* also says in which order updates enter the two ctxs, and what the cache *)
(* may lack.  What each method of HTLCManager keeps is proved in           *)
(* HTLCManager_proofs; here is which calls the actions make, and what      *)
(* depends on the reports and on what is kept for a replay.                *)
(***************************************************************************)
EXTENDS HTLCManagerSM, HTLCManager_proofs, TLAPS

UnackedOK(u) == DOMAIN u \subseteq Nat /\ \A c \in DOMAIN u : u[c] \in Seq(Messages)

\* What TypeOK says of the log that TypedLog does not
AsideOK(m) == UnackedOK(m.unacked) /\ m.revokeLast \in BOOLEAN

LEMMA TypeOKSplits ==
    TypeOK <=> TypedLog(hm) /\ AsideOK(hm) /\ resolved \in [HtlcIds -> Nat]
  BY DEF TypeOK, AsideOK, UnackedOK

\* store_local_update_raw_msg changes the stored messages only, and keeps their type.
LEMMA StoreEffect ==
    ASSUME NEW m, DOMAIN m = Fields, LogOK(m), AsideOK(m), NEW msg \in Messages, NEW b \in BOOLEAN
    PROVE  LET n == store_local_update_raw_msg(m, msg, b)
           IN  OnlyChanges({"unacked"}, m, n) /\ AsideOK(n)
<1> DEFINE n == store_local_update_raw_msg(m, msg, b)
           c == IF b THEN ctn_latest(m, Remote) ELSE next_ctn(m, Remote)
           stored == IF c \in DOMAIN m.unacked THEN m.unacked[c] ELSE << >>
<1>1. c \in Nat
  BY DEF ctn_latest, next_ctn, Owner, LogOK
<1>2. Append(stored, msg) \in Seq(Messages)
  BY DEF UnackedOK, AsideOK
<1>3. n.unacked = [d \in DOMAIN m.unacked \cup {c} |-> IF d = c THEN Append(stored, msg) ELSE m.unacked[d]]
  BY DEF store_local_update_raw_msg, Fields
<1>4. OnlyChanges({"unacked"}, m, n)
  BY DEF store_local_update_raw_msg, Fields, OnlyChanges
<1>5. QED
  <2> HIDE DEF c, stored, n
  <2>1. UnackedOK(n.unacked)
    BY <1>1, <1>2, <1>3 DEF UnackedOK, AsideOK
  <2>2. n.revokeLast = m.revokeLast
    BY <1>4 DEF OnlyChanges, Fields
  <2>3. QED BY <2>1, <2>2, <1>4 DEF n, AsideOK

\* So does Stored, which stores what Local sends.
LEMMA StoredEffect ==
    ASSUME NEW m, DOMAIN m = Fields, LogOK(m), AsideOK(m), NEW s
    PROVE  OnlyChanges({"unacked"}, m, Stored(m, s)) /\ AsideOK(Stored(m, s))
<1>1. "update" \in Messages /\ FALSE \in BOOLEAN
  BY DEF Messages
<1>2. CASE s = Remote
  BY <1>1, <1>2, StoreEffect DEF Stored
<1>3. CASE s # Remote
  BY <1>3 DEF Stored, OnlyChanges
<1>4. QED BY <1>2, <1>3

\* A call and what it stores
LEMMA StoredCall ==
    ASSUME NEW F, F \subseteq {"next", "adds", "locked", "settles", "fails", "fees", "active"}, TypeOK,
           NEW n, OnlyChanges(F, hm, n), NEW s, hm' = Stored(n, s)
    PROVE  OnlyChanges(Aside, n, hm') /\ AsideOK(hm')
<1>1. /\ DOMAIN n = Fields /\ n.ctn = hm.ctn /\ n.revack = hm.revack
      /\ n.unacked = hm.unacked /\ n.revokeLast = hm.revokeLast
  BY DEF OnlyChanges, Fields
<1>2. LogOK(n) /\ AsideOK(n)
  BY <1>1, TypeOKSplits, TypedLogOK DEF LogOK, AsideOK
<1>3. OnlyChanges({"unacked"}, n, hm') /\ AsideOK(hm')
  BY <1>1, <1>2, StoredEffect
<1>4. QED BY <1>3 DEF OnlyChanges, Aside

-----------------------------------------------------------------------------
(* The calls that the actions make *)

\* Channel.add_htlc, Channel.receive_htlc
LEMMA AddHtlcCalls ==
    ASSUME TypeOK, NEW p \in Owner, AddHtlc(p)
    PROVE  /\ \E amount \in Amounts : IsAdded(hm, hm', p, amount)
           /\ AsideOK(hm') /\ resolved' = resolved
<1>1. TypedLog(hm) /\ DOMAIN hm = Fields
  BY LogFieldsAre DEF TypeOK
<1>2. PICK amount \in Amounts : hm' = Stored(add_htlc(hm, p, amount), Other(p))
  BY DEF AddHtlc
<1>3. OnlyChanges({"next", "adds", "locked", "active"}, hm, add_htlc(hm, p, amount))
  BY <1>1 DEF add_htlc, Fields, OnlyChanges
<1>4. OnlyChanges(Aside, add_htlc(hm, p, amount), hm') /\ AsideOK(hm')
  BY <1>2, <1>3, StoredCall
<1>5. IsAdded(hm, hm', p, amount)
  BY <1>1, <1>4, AddHtlcIsAdded DEF AddHtlc
<1>6. QED BY <1>4, <1>5 DEF AddHtlc

\* Channel.settle_htlc, Channel.receive_htlc_settle
LEMMA SettleHtlcCalls ==
    ASSUME TypeOK, NEW p \in Owner, NEW i \in HtlcIds, SettleHtlc(p, i)
    PROVE  IsSettled(hm, hm', p, i) /\ AsideOK(hm') /\ resolved' = resolved
<1>1. TypedLog(hm) /\ DOMAIN hm = Fields
  BY LogFieldsAre DEF TypeOK
<1>2. OnlyChanges({"settles"}, hm, settle_htlc(hm, p, i))
  BY <1>1 DEF settle_htlc, Fields, OnlyChanges
<1>3. OnlyChanges(Aside, settle_htlc(hm, p, i), hm') /\ AsideOK(hm')
  BY <1>2, StoredCall DEF SettleHtlc
<1>4. QED BY <1>1, <1>3, SettleHtlcIsSettled DEF SettleHtlc, Removable

\* Channel.fail_htlc, Channel.receive_fail_htlc
LEMMA FailHtlcCalls ==
    ASSUME TypeOK, NEW p \in Owner, NEW i \in HtlcIds, FailHtlc(p, i)
    PROVE  IsFailed(hm, hm', p, i) /\ AsideOK(hm') /\ resolved' = resolved
<1>1. TypedLog(hm) /\ DOMAIN hm = Fields
  BY LogFieldsAre DEF TypeOK
<1>2. OnlyChanges({"fails"}, hm, fail_htlc(hm, p, i))
  BY <1>1 DEF fail_htlc, Fields, OnlyChanges
<1>3. OnlyChanges(Aside, fail_htlc(hm, p, i), hm') /\ AsideOK(hm')
  BY <1>2, StoredCall DEF FailHtlc
<1>4. QED BY <1>1, <1>3, FailHtlcIsFailed DEF FailHtlc, Removable

\* Channel.update_fee
LEMMA UpdateFeeCalls ==
    ASSUME TypeOK, NEW rate \in Rates, UpdateFee(rate)
    PROVE  IsFeeUpdated(hm, hm', rate) /\ AsideOK(hm') /\ resolved' = resolved
<1> DEFINE s == Other(hm.initiator)
<1>1. TypedLog(hm) /\ DOMAIN hm = Fields
  BY LogFieldsAre DEF TypeOK
<1>2. hm' = Stored(update_fee(hm, s, rate), s) /\ resolved' = resolved
  BY DEF UpdateFee
<1>3. OnlyChanges({"fees"}, hm, update_fee(hm, s, rate))
  <2>1. \E fees : update_fee(hm, s, rate) = [hm EXCEPT !.fees = fees]
    BY DEF update_fee
  <2>2. QED BY <1>1, <2>1 DEF OnlyChanges, Fields
<1>4. OnlyChanges(Aside, update_fee(hm, s, rate), hm') /\ AsideOK(hm')
  BY <1>2, <1>3, StoredCall
<1>5. QED BY <1>1, <1>2, <1>4, UpdateFeeIsFeeUpdated

\* Channel.sign_next_commitment
LEMMA SendCtxCalls ==
    ASSUME TypeOK, SendCtx
    PROVE  IsSigned(hm, hm', Remote) /\ AsideOK(hm') /\ resolved' = resolved
<1> DEFINE n == send_ctx(hm)
<1>1. TypedLog(hm) /\ DOMAIN hm = Fields /\ LogOK(hm) /\ AsideOK(hm)
  BY LogFieldsAre, TypedLogOK, TypeOKSplits
<1>2. /\ OnlyChanges({"revack", "revokeLast"}, hm, n) /\ n.revack = [hm.revack EXCEPT ![Remote] = TRUE]
      /\ n.revokeLast = FALSE
  BY <1>1 DEF send_ctx, OnlyChanges, Fields
<1>3. hm' = store_local_update_raw_msg(n, "commitment_signed", TRUE) /\ resolved' = resolved /\ can_sign(hm, Remote)
  BY DEF SendCtx
<1> HIDE DEF n
<1>4. DOMAIN n = Fields /\ n.ctn = hm.ctn /\ n.unacked = hm.unacked
  BY <1>2 DEF OnlyChanges, Fields
<1>5. LogOK(n) /\ AsideOK(n)
  BY <1>1, <1>2, <1>4 DEF LogOK, AsideOK
<1>6. "commitment_signed" \in Messages /\ TRUE \in BOOLEAN
  BY DEF Messages
<1>7. OnlyChanges({"unacked"}, n, hm') /\ AsideOK(hm')
  BY <1>3, <1>4, <1>5, <1>6, StoreEffect
<1>8. OnlyChanges(Aside, n, hm')
  BY <1>7 DEF OnlyChanges, Aside
<1>9. QED BY <1>1, <1>3, <1>7, <1>8, CtxIsSigned DEF n

\* Channel.receive_new_commitment
LEMMA RecvCtxCalls ==
    ASSUME TypeOK, RecvCtx
    PROVE  IsSigned(hm, hm', Local) /\ AsideOK(hm') /\ resolved' = resolved
<1>1. TypedLog(hm) /\ DOMAIN hm = Fields /\ AsideOK(hm)
  BY LogFieldsAre, TypeOKSplits
<1>2. hm' = recv_ctx(hm) /\ can_sign(hm, Local) /\ resolved' = resolved
  BY DEF RecvCtx
<1>3. OnlyChanges({"revack"}, hm, hm')
  BY <1>1, <1>2 DEF recv_ctx, OnlyChanges, Fields
<1>4. OnlyChanges(Aside, recv_ctx(hm), hm') /\ AsideOK(hm')
  BY <1>1, <1>2, <1>3 DEF OnlyChanges, AsideOK, Fields
<1>5. QED BY <1>1, <1>2, <1>4, CtxIsSigned

\* Channel.revoke_current_commitment
LEMMA SendRevCalls ==
    ASSUME TypeOK, SendRev
    PROVE  /\ IsRevoked(hm, hm', Local) /\ AsideOK(hm') /\ resolved' = resolved
           /\ hm'.unacked = hm.unacked
<1>1. TypedLog(hm) /\ AsideOK(hm) /\ Local \in Owner
  BY TypeOKSplits DEF Owner
<1>2. DOMAIN Revoked(hm, Local) = Fields /\ Revoked(hm, Local).unacked = hm.unacked
  BY <1>1, RevokedEffect
<1>3. /\ can_revoke(hm, Local) /\ resolved' = resolved
      /\ hm' = [Revoked(hm, Local) EXCEPT !.revokeLast = TRUE]
  BY DEF SendRev, send_rev
<1>4. OnlyChanges(Aside, Revoked(hm, Local), hm') /\ hm'.unacked = hm.unacked /\ hm'.revokeLast = TRUE
  BY <1>2, <1>3 DEF OnlyChanges, Fields, Aside
<1>5. QED BY <1>1, <1>3, <1>4 DEF IsRevoked, AsideOK

\* Channel.receive_revocation
LEMMA RecvRevCalls ==
    ASSUME TypeOK, RecvRev
    PROVE  /\ IsRevoked(hm, hm', Remote) /\ AsideOK(hm')
           /\ hm'.unacked = [c \in DOMAIN hm.unacked \ {hm'.ctn[Remote]} |-> hm.unacked[c]]
<1> DEFINE n == Revoked(hm, Remote)
           kept == [c \in DOMAIN n.unacked \ {n.ctn[Remote]} |-> n.unacked[c]]
<1>1. TypedLog(hm) /\ AsideOK(hm) /\ Remote \in Owner
  BY TypeOKSplits DEF Owner
<1>2. DOMAIN n = Fields /\ n.unacked = hm.unacked /\ n.revokeLast = hm.revokeLast
  BY <1>1, RevokedEffect
<1>3. can_revoke(hm, Remote) /\ hm' = [n EXCEPT !.unacked = kept]
  BY DEF RecvRev, recv_rev
<1>4. kept = [c \in DOMAIN hm.unacked \ {n.ctn[Remote]} |-> hm.unacked[c]]
  BY <1>2
<1> HIDE DEF n, kept
<1>5. /\ OnlyChanges(Aside, n, hm') /\ hm'.unacked = kept /\ hm'.ctn = n.ctn /\ hm'.revokeLast = hm.revokeLast
  BY <1>2, <1>3 DEF OnlyChanges, Fields, Aside
<1>6. IsRevoked(hm, hm', Remote)
  BY <1>3, <1>5 DEF n, IsRevoked
<1>7. AsideOK(hm')
  BY <1>1, <1>4, <1>5 DEF AsideOK, UnackedOK
<1>8. QED BY <1>4, <1>5, <1>6, <1>7

\* Peer.reestablish_channel
LEMMA DiscardCalls ==
    ASSUME TypeOK, Discard
    PROVE  /\ IsDiscarded(hm, hm') /\ AsideOK(hm') /\ resolved' = resolved
           /\ hm'.ctn = hm.ctn /\ hm'.revack = hm.revack /\ hm'.unacked = hm.unacked
<1>1. IsDiscarded(hm, hm') /\ resolved' = resolved
  BY DEF Discard, IsDiscarded
<1>2. OnlyChanges({"next", "adds", "locked", "settles", "fails", "active", "fees"}, hm, hm')
  BY <1>1, TypeOKSplits, DiscardEffect
<1>3. QED BY <1>1, <1>2, TypeOKSplits DEF OnlyChanges, AsideOK, Fields

\* HTLCManager.__init__ on the stored log
LEMMA ReloadCalls ==
    ASSUME TypeOK, Reload
    PROVE  /\ IsReloaded(hm, hm') /\ AsideOK(hm') /\ resolved' = resolved
           /\ hm'.ctn = hm.ctn /\ hm'.revack = hm.revack /\ hm'.unacked = hm.unacked
<1>1. IsReloaded(hm, hm') /\ resolved' = resolved
  BY DEF Reload, IsReloaded
<1>2. OnlyChanges({"active", "delta"}, hm, hm')
  BY <1>1, TypeOKSplits, ReloadEffect
<1>3. QED BY <1>1, <1>2, TypeOKSplits DEF OnlyChanges, AsideOK, Fields

-----------------------------------------------------------------------------
(* The invariant *)

\* Each step is a call, or leaves the log alone.
LEMMA NextCalls ==
    ASSUME TypeOK, [Next]_vars
    PROVE  IsCall(hm, hm') /\ AsideOK(hm')
<1>1. ASSUME NEW p \in Owner, AddHtlc(p) PROVE IsCall(hm, hm') /\ AsideOK(hm')
  BY <1>1, AddHtlcCalls DEF IsCall
<1>2. ASSUME NEW p \in Owner, NEW i \in HtlcIds, SettleHtlc(p, i) \/ FailHtlc(p, i)
      PROVE  IsCall(hm, hm') /\ AsideOK(hm')
  BY <1>2, SettleHtlcCalls, FailHtlcCalls DEF IsCall, IsRemoved
<1>3. ASSUME NEW rate \in Rates, UpdateFee(rate) PROVE IsCall(hm, hm') /\ AsideOK(hm')
  BY <1>3, UpdateFeeCalls DEF IsCall
<1>4. CASE SendCtx \/ RecvCtx
  BY <1>4, SendCtxCalls, RecvCtxCalls DEF IsCall, Owner
<1>5. CASE SendRev \/ RecvRev
  BY <1>5, SendRevCalls, RecvRevCalls DEF IsCall, Owner
<1>6. CASE Discard \/ Reload
  BY <1>6, DiscardCalls, ReloadCalls DEF IsCall
<1>7. CASE UNCHANGED vars
  <2>1. hm' = hm /\ DOMAIN hm = Fields /\ AsideOK(hm)
    BY <1>7, TypeOKSplits, LogFieldsAre DEF vars
  <2>2. QED BY <2>1 DEF IsCall, OnlyChanges
<1>8. QED BY <1>1, <1>2, <1>3, <1>4, <1>5, <1>6, <1>7 DEF Next

LEMMA InitHolds == Init => IInv
<1> SUFFICES ASSUME Init PROVE IInv
  OBVIOUS
<1>1. PICK s \in Initiators, rate \in Rates : hm = NewLog(s, rate)
  BY DEF Init
<1>2. s \in Owner
  BY InitiatorsAssumption
<1>3. ConsistentLog(hm)
  BY <1>1, <1>2, NewLogIsConsistent
<1>4. hm.unacked = << >> /\ hm.revokeLast = FALSE
  BY <1>1 DEF NewLog
<1>5. UnackedOK(<< >>)
  BY DEF UnackedOK
<1>6. AsideOK(hm)
  BY <1>4, <1>5 DEF AsideOK
<1>7. resolved \in [HtlcIds -> Nat]
  BY DEF Init
<1>8. QED BY <1>3, <1>6, <1>7, TypeOKSplits DEF IInv, ConsistentLog

LEMMA NextPreserves == IInv /\ [Next]_vars => IInv'
<1> SUFFICES ASSUME IInv, [Next]_vars PROVE IInv'
  OBVIOUS
<1>1. TypeOK /\ ConsistentLog(hm)
  BY DEF IInv
<1>2. IsCall(hm, hm') /\ AsideOK(hm')
  BY <1>1, NextCalls
<1>3. ConsistentLog(hm')
  BY <1>1, <1>2, CallPreserves
<1>4. resolved' \in [HtlcIds -> Nat]
  <2>1. resolved \in [HtlcIds -> Nat]
    BY <1>1, TypeOKSplits
  <2>2. CASE RecvRev
    BY <2>1, <2>2 DEF RecvRev
  <2>3. CASE ~RecvRev
    BY <2>1, <2>3
       DEF Next, AddHtlc, SettleHtlc, FailHtlc, UpdateFee, SendCtx, RecvCtx, SendRev, Discard, Reload, vars
  <2>4. QED BY <2>2, <2>3
<1>5. TypeOK'
  BY <1>2, <1>3, <1>4 DEF TypeOK, AsideOK, UnackedOK, ConsistentLog
<1>6. QED BY <1>3, <1>5 DEF IInv

\* The log is consistent after any sequence of calls, reconnections and restarts:
\* its entries are in the order the protocol gives them, an htlc is removed at most
\* once and only from both ctxs, and the cache lacks only what is long gone.
THEOREM LogIsConsistent == Spec => []IInv
  BY InitHolds, NextPreserves, PTL DEF Spec

\* Every field of the log keeps its type.
THEOREM LogIsTyped == Spec => []TypeOK
<1>1. IInv => TypeOK
  BY DEF IInv
<1>2. QED BY <1>1, LogIsConsistent, PTL

\* The ids a side has used are 0 .. next - 1, also when discard_unsigned_remote_updates
\* has dropped some: the check `htlc_id >= next_htlc_id' is enough.
THEOREM LogIdsAreContiguous == Spec => []IdsAreContiguous
<1>1. IInv => IdsAreContiguous
  BY DEF IInv, ConsistentLog, IdsAreContiguous
<1>2. QED BY <1>1, LogIsConsistent, PTL

\* No htlc is both fulfilled and failed, in any interleaving of the calls.
THEOREM HtlcIsRemovedOnce == Spec => []NeverSettledAndFailed
<1>1. IInv => NeverSettledAndFailed
  BY DEF IInv, ConsistentLog, NeverSettledAndFailed
<1>2. QED BY <1>1, LogIsConsistent, PTL

\* The ids in _maybe_active_htlc_ids suffice to build every unrevoked ctx and the
\* next one.
THEOREM CacheIsComplete == Spec => []CacheComplete
<1>1. IInv => CacheComplete
  BY SoundCacheIsComplete DEF IInv, CacheComplete
<1>2. QED BY <1>1, LogIsConsistent, PTL

-----------------------------------------------------------------------------
(* What is signed is final *)

\* Every step leaves alone what was signed.
LEMMA StepFreezes ==
    ASSUME IInv, [Next]_vars
    PROVE  /\ IsCall(hm, hm') /\ ConsistentLog(hm) /\ ConsistentLog(hm')
           /\ CtnsGrow(hm, hm') /\ EntriesFrozen(hm, hm')
<1>1. TypeOK /\ ConsistentLog(hm)
  BY DEF IInv
<1>2. IsCall(hm, hm')
  BY <1>1, NextCalls
<1>3. ConsistentLog(hm')
  BY <1>1, <1>2, CallPreserves
<1>4. CtnsGrow(hm, hm') /\ EntriesFrozen(hm, hm')
  BY <1>1, <1>2, CallFreezes
<1>5. QED BY <1>1, <1>2, <1>3, <1>4

\* The htlcs of a ctx that was signed never change, by no call, reconnection or
\* restart, and whether they are computed from the cache or from the whole log.
THEOREM SignedHtlcsAreFinalAlways == Spec => SignedHtlcsAreFinal
<1>1. IInv /\ [Next]_vars => [SignedHtlcsStay(hm, hm')]_vars
  BY StepFreezes, SignedHtlcsFinal
<1>2. [][SignedHtlcsStay(hm, hm')]_vars => SignedHtlcsAreFinal
  BY PTL DEF SignedHtlcsAreFinal, SignedHtlcsStay
<1>3. QED BY <1>1, <1>2, LogIsConsistent, PTL DEF Spec

\* What is irrevocably added or removed stays so, also when updates are discarded.
THEOREM IrrevocableIsForeverAlways == Spec => IrrevocableIsForever
<1> DEFINE Stays == \A p \in Owner, i \in HtlcIds :
               /\ is_htlc_irrevocably_added_yet(hm, p, i) => is_htlc_irrevocably_added_yet(hm, p, i)'
               /\ is_htlc_irrevocably_removed_yet(hm, p, i) => is_htlc_irrevocably_removed_yet(hm, p, i)'
<1>1. IInv /\ [Next]_vars => Stays
  BY StepFreezes, IrrevocableIsFinal DEF IrrevocableStays
<1>2. IInv /\ [Next]_vars => [Stays]_vars
  BY <1>1
<1>3. [][Stays]_vars => IrrevocableIsForever
  BY PTL DEF IrrevocableIsForever
<1> HIDE DEF Stays
<1>4. QED BY <1>2, <1>3, LogIsConsistent, PTL DEF Spec

-----------------------------------------------------------------------------
(* Reports of removals *)

\* The htlcs of Local that are removed, as Remote's ctx tells: a removal enters
\* Local's ctx first.
RemovedIds(m) ==
    {i \in HtlcIds : \/ InCtx(m.settles[Local][i], Remote, m.ctn[Remote])
                     \/ InCtx(m.fails[Local][i], Remote, m.ctn[Remote])}

LEMMA RemoteIsLast ==
    ASSUME NEW h, ConsistentLog(h), NEW i \in HtlcIds
    PROVE  is_htlc_irrevocably_removed_yet(h, Local, i) <=> i \in RemovedIds(h)
<1>1. /\ TypedLog(h) /\ OrderedEntries(h) /\ LogOK(h)
      /\ Local \in Owner /\ Remote \in Owner /\ Other(Local) = Remote
      /\ \A s \in Owner : s = Local \/ s = Remote
  BY TypedLogOK DEF ConsistentLog, Owner, Other
<1>2. \A s \in Owner : irrevocably_removed(h, s, Local, i) <=>
          InCtx(h.settles[Local][i], s, h.ctn[s]) \/ InCtx(h.fails[Local][i], s, h.ctn[s])
  BY <1>1, RemovedWhen DEF RemovedByEntry
<1>3. ASSUME NEW e \in Entry, EntryOK(h, e, Local), InCtx(e, Remote, h.ctn[Remote])
      PROVE  InCtx(e, Local, h.ctn[Local])
  <2>1. e[Remote] # None /\ e # Absent
    BY <1>1, <1>3 DEF InCtx, Absent
  <2>2. e[Local] \in 1 .. next_ctn(h, Local) /\ ~(e[Local] > h.ctn[Local])
    BY <1>1, <1>3, <2>1 DEF EntryOK
  <2>3. h.ctn[Local] \in Nat /\ next_ctn(h, Local) \in Nat
    BY <1>1, CtnTypes
  <2> QED BY <2>2, <2>3 DEF InCtx, None
<1>4. /\ h.settles[Local][i] \in Entry /\ EntryOK(h, h.settles[Local][i], Local)
      /\ h.fails[Local][i] \in Entry /\ EntryOK(h, h.fails[Local][i], Local)
  BY <1>1, EntryTypes DEF OrderedEntries
<1> QED BY <1>1, <1>2, <1>3, <1>4 DEF is_htlc_irrevocably_removed_yet, RemovedIds

\* Only a revocation by Remote completes a removal.
LEMMA RemovedIdsStay ==
    ASSUME IInv, [Next]_vars, hm'.ctn[Remote] = hm.ctn[Remote]
    PROVE  RemovedIds(hm') = RemovedIds(hm)
<1>1. CtnsGrow(hm, hm') /\ EntriesFrozen(hm, hm') /\ ConsistentLog(hm) /\ ConsistentLog(hm')
  BY StepFreezes
<1>2. TypedLog(hm) /\ TypedLog(hm') /\ LogOK(hm) /\ Local \in Owner /\ Remote \in Owner
  BY <1>1, TypedLogOK DEF ConsistentLog, Owner
<1>3. /\ hm.ctn[Remote] \in Nat /\ ctn_latest(hm, Remote) \in Nat
      /\ hm.ctn[Remote] <= ctn_latest(hm, Remote)
  BY <1>2, CtnTypes
<1>4. ASSUME NEW e \in Entry, NEW d \in Entry, Frozen(hm, e, d)
      PROVE  InCtx(d, Remote, hm'.ctn[Remote]) <=> InCtx(e, Remote, hm.ctn[Remote])
  <2>1. e[Remote] \in Int /\ d[Remote] \in Int
    BY <1>2 DEF Entry, Ctn, None
  <2> QED BY <1>2, <1>3, <1>4, <2>1 DEF Frozen, InCtx
<1>5. ASSUME NEW i \in HtlcIds
      PROVE  /\ hm.settles[Local][i] \in Entry /\ hm'.settles[Local][i] \in Entry
             /\ hm.fails[Local][i] \in Entry /\ hm'.fails[Local][i] \in Entry
             /\ Frozen(hm, hm.settles[Local][i], hm'.settles[Local][i])
             /\ Frozen(hm, hm.fails[Local][i], hm'.fails[Local][i])
  <2>1. /\ hm.settles \in [Owner -> [HtlcIds -> Entry]] /\ hm.fails \in [Owner -> [HtlcIds -> Entry]]
        /\ hm'.settles \in [Owner -> [HtlcIds -> Entry]] /\ hm'.fails \in [Owner -> [HtlcIds -> Entry]]
    BY <1>2 DEF TypedLog
  <2> QED BY <1>1, <1>2, <2>1 DEF EntriesFrozen
<1> QED BY <1>4, <1>5 DEF RemovedIds

\* What recv_rev reports is what it makes irrevocable.
LEMMA ReportsWhatIsRemoved ==
    ASSUME IInv, RecvRev
    PROVE  LET c    == hm'.ctn[Remote]
               gone == sent_in_ctn(hm', c) \cup failed_in_ctn(hm', c)
           IN  gone = RemovedIds(hm') \ RemovedIds(hm)
<1> DEFINE c    == hm'.ctn[Remote]
           gone == sent_in_ctn(hm', c) \cup failed_in_ctn(hm', c)
           n    == Revoked(hm, Remote)
<1>0. IsRevoked(hm, hm', Remote) /\ ConsistentLog(hm) /\ ConsistentLog(hm')
  BY RecvRevCalls, StepFreezes DEF IInv, Next
<1>1. /\ TypedLog(hm) /\ LogOK(hm) /\ OrderedEntries(hm) /\ SoundCache(hm) /\ RemovedOnce(hm) /\ ContiguousIds(hm)
      /\ TypedLog(hm') /\ SoundCache(hm') /\ RemovedOnce(hm')
      /\ Local \in Owner /\ Remote \in Owner /\ Other(Remote) = Local /\ Other(Local) = Remote /\ Local # Remote
  BY <1>0, TypedLogOK DEF ConsistentLog, Owner, Other, Local, Remote
<1>2. can_revoke(hm, Remote) /\ OnlyChanges(Aside, n, hm')
  BY <1>0 DEF IsRevoked
<1>3. /\ CtnMoved(hm, n, Remote)
      /\ \A f \in {"next", "adds", "initiator", "unacked", "revokeLast"} : n[f] = hm[f]
      /\ \E row : n.settles = [hm.settles EXCEPT ![Remote] = row]
      /\ \E row : n.fails = [hm.fails EXCEPT ![Remote] = row]
  <2> DEFINE Carried(table) == [i \in HtlcIds |->
                 IF i \in hm.active[Remote] THEN CarryOver(n, Remote, table[i]) ELSE table[i]]
  <2>1. /\ CtnMoved(hm, n, Remote)
        /\ \A f \in {"next", "adds", "initiator", "unacked", "revokeLast"} : n[f] = hm[f]
        /\ n.settles = [hm.settles EXCEPT ![Remote] = Carried(@)]
        /\ n.fails = [hm.fails EXCEPT ![Remote] = Carried(@)]
    BY <1>1, RevokedEffect
  <2> HIDE DEF Carried, n
  <2>2. QED BY <2>1
<1> HIDE DEF n
<1>4. /\ hm'.ctn = n.ctn /\ hm'.revack = n.revack /\ hm'.settles = n.settles /\ hm'.fails = n.fails
      /\ hm'.adds = hm.adds
  BY <1>2, <1>3 DEF OnlyChanges, Fields, Aside
<1>5. c = hm.ctn[Remote] + 1 /\ hm.ctn[Remote] \in Nat /\ hm'.ctn[Local] = hm.ctn[Local]
  <2>1. CtnMoved(hm, hm', Remote)
    BY <1>3, <1>4 DEF CtnMoved
  <2> QED BY <1>1, <1>2, <2>1, CtnMovedFacts, CtnTypes
<1>6. hm'.settles[Local] = hm.settles[Local] /\ hm'.fails[Local] = hm.fails[Local]
  <2>1. hm.settles \in [Owner -> [HtlcIds -> Entry]] /\ hm.fails \in [Owner -> [HtlcIds -> Entry]]
    BY <1>1 DEF TypedLog
  <2>2. hm'.settles[Local] = hm.settles[Local]
    BY <1>1, <1>3, <1>4, <2>1
  <2>3. hm'.fails[Local] = hm.fails[Local]
    BY <1>1, <1>3, <1>4, <2>1
  <2> QED BY <2>2, <2>3
<1>7. gone = {i \in hm'.active[Local] : hm.settles[Local][i][Remote] = c \/ hm.fails[Local][i][Remote] = c}
  <2>1. c >= hm'.ctn[Remote]
    BY <1>5
  <2>2. /\ sent_in_ctn(hm', c) = {i \in hm'.active[Local] : hm'.settles[Local][i][Remote] = c}
        /\ failed_in_ctn(hm', c) = {i \in hm'.active[Local] : hm'.fails[Local][i][Remote] = c}
    <3> HIDE DEF c
    <3> QED BY <2>1 DEF sent_in_ctn, failed_in_ctn, removed_exactly_at_ctn
  <2> QED BY <1>6, <2>2
<1> HIDE DEF c, gone
<1>8. hm'.active[Local] \subseteq HtlcIds
  BY <1>1 DEF TypedLog
<1>9. ASSUME NEW i \in HtlcIds
      PROVE  i \in gone <=> i \in RemovedIds(hm') /\ i \notin RemovedIds(hm)
  <2> DEFINE e == hm.settles[Local][i]
             d == hm.fails[Local][i]
  <2>1. /\ e \in Entry /\ d \in Entry /\ (e = Absent \/ d = Absent)
        /\ e[Remote] \in Int /\ d[Remote] \in Int
    BY <1>1, EntryTypes DEF RemovedOnce, Entry, Ctn, None
  <2>2. e[Remote] = None \/ d[Remote] = None
    BY <1>1, <2>1 DEF Absent
  <2>3. /\ i \in RemovedIds(hm) <=> (e[Remote] # None /\ e[Remote] < c) \/ (d[Remote] # None /\ d[Remote] < c)
        /\ i \in RemovedIds(hm') <=> (e[Remote] # None /\ e[Remote] <= c) \/ (d[Remote] # None /\ d[Remote] <= c)
    BY <1>1, <1>5, <1>6, <2>1 DEF RemovedIds, InCtx, c
  <2>4. c # None /\ c \in Nat
    BY <1>5 DEF None
  <2>5. i \in RemovedIds(hm') /\ i \notin RemovedIds(hm) <=> e[Remote] = c \/ d[Remote] = c
    BY <2>1, <2>2, <2>3, <2>4
  <2>6. ASSUME e[Remote] = c \/ d[Remote] = c
        PROVE  i \in hm'.active[Local]
    <3>1. i \in Known(hm', Local)
      <4>1. e # Absent \/ d # Absent
        BY <1>1, <2>4, <2>6 DEF Absent
      <4>2. i < hm.next[Local]
        <5>1. hm.next[Local] \in Nat /\ i \in Nat
          BY <1>1, EntryTypes
        <5> QED BY <1>1, <4>1, <5>1 DEF ContiguousIds
      <4> QED BY <1>1, <1>4, <4>2 DEF ContiguousIds, Known
    <3>2. ~LongGone(hm', e) /\ ~LongGone(hm', d)
      BY <1>1, <1>5, <2>1, <2>2, <2>4, <2>6 DEF LongGone, InCtx, c
    <3> QED BY <1>1, <1>6, <3>1, <3>2 DEF SoundCache
  <2> QED BY <1>7, <2>5, <2>6
<1>10. gone \subseteq HtlcIds /\ RemovedIds(hm') \subseteq HtlcIds
  BY <1>7, <1>8 DEF RemovedIds
<1> QED BY <1>9, <1>10 DEF gone, c

\* The reports are the invariant themselves.
ReportedIsRemoved == resolved = [i \in HtlcIds |-> IF i \in RemovedIds(hm) THEN 1 ELSE 0]

LEMMA ReportedStep ==
    ASSUME IInv, ReportedIsRemoved, [Next]_vars
    PROVE  ReportedIsRemoved'
<1>1. TypeOK /\ LogOK(hm) /\ Remote \in Owner /\ Local \in Owner /\ Local # Remote
  BY TypeOKSplits, TypedLogOK, EntryFacts DEF IInv, Owner
<1>2. ASSUME resolved' = resolved, hm'.ctn[Remote] = hm.ctn[Remote] PROVE ReportedIsRemoved'
  BY <1>2, RemovedIdsStay DEF ReportedIsRemoved
<1>3. ASSUME NEW p \in Owner, AddHtlc(p) PROVE ReportedIsRemoved'
  BY <1>1, <1>2, <1>3, AddHtlcCalls DEF IsAdded, OnlyChanges, Fields, Aside
<1>4. ASSUME NEW p \in Owner, NEW i \in HtlcIds, SettleHtlc(p, i) \/ FailHtlc(p, i) PROVE ReportedIsRemoved'
  BY <1>1, <1>2, <1>4, SettleHtlcCalls, FailHtlcCalls DEF IsSettled, IsFailed, OnlyChanges, Fields, Aside
<1>5. ASSUME NEW rate \in Rates, UpdateFee(rate) PROVE ReportedIsRemoved'
  BY <1>1, <1>2, <1>5, UpdateFeeCalls DEF IsFeeUpdated, OnlyChanges, Fields, Aside
<1>6. CASE SendCtx \/ RecvCtx
  BY <1>1, <1>2, <1>6, SendCtxCalls, RecvCtxCalls DEF IsSigned, OnlyChanges, Fields, Aside
<1>7. CASE SendRev
  <2>1. IsRevoked(hm, hm', Local) /\ resolved' = resolved
    BY <1>1, <1>7, SendRevCalls
  <2>2. CtnMoved(hm, Revoked(hm, Local), Local)
    BY <1>1, RevokedEffect DEF TypeOK
  <2>3. hm'.ctn = Revoked(hm, Local).ctn
    BY <2>1 DEF IsRevoked, OnlyChanges, Fields, Aside
  <2>4. hm'.ctn[Remote] = hm.ctn[Remote]
    BY <1>1, <2>2, <2>3 DEF CtnMoved, LogOK
  <2>5. QED BY <1>2, <2>1, <2>4
<1>8. CASE RecvRev
  <2> DEFINE c    == hm'.ctn[Remote]
             gone == sent_in_ctn(hm', c) \cup failed_in_ctn(hm', c)
  <2>1. resolved' = [i \in HtlcIds |-> IF i \in gone THEN resolved[i] + 1 ELSE resolved[i]]
    BY <1>8 DEF RecvRev
  <2>2. gone = RemovedIds(hm') \ RemovedIds(hm)
    BY <1>8, ReportsWhatIsRemoved
  <2>3. RemovedIds(hm) \subseteq RemovedIds(hm')
    <3>1. ConsistentLog(hm) /\ ConsistentLog(hm') /\ CtnsGrow(hm, hm') /\ EntriesFrozen(hm, hm')
      BY StepFreezes
    <3>2. IrrevocableStays(hm, hm')
      BY <3>1, IrrevocableIsFinal
    <3>3. \A i \in HtlcIds : i \in RemovedIds(hm) => i \in RemovedIds(hm')
      BY <1>1, <3>1, <3>2, RemoteIsLast DEF IrrevocableStays
    <3>4. QED BY <3>3 DEF RemovedIds
  <2> HIDE DEF gone
  <2>4. QED BY <2>1, <2>2, <2>3 DEF ReportedIsRemoved
<1>9. CASE Discard \/ Reload
  BY <1>1, <1>2, <1>9, DiscardCalls, ReloadCalls
<1>10. CASE UNCHANGED vars
  BY <1>2, <1>10 DEF vars
<1>11. QED BY <1>3, <1>4, <1>5, <1>6, <1>7, <1>8, <1>9, <1>10 DEF Next

\* Nothing is removed from the empty log.
LEMMA ReportedInit == Init => ReportedIsRemoved
<1> SUFFICES ASSUME Init PROVE ReportedIsRemoved
  OBVIOUS
<1>1. PICK s \in Initiators, rate \in Rates : hm = NewLog(s, rate)
  BY DEF Init
<1>2. \A i \in HtlcIds : hm.settles[Local][i] = Absent /\ hm.fails[Local][i] = Absent
  BY <1>1 DEF NewLog, Owner
<1>3. RemovedIds(hm) = {}
  BY <1>2 DEF RemovedIds, InCtx, Absent, Owner
<1> QED BY <1>3 DEF Init, ReportedIsRemoved

\* An htlc we sent is reported once when it is out of both parties' ctxs for good, not
\* before and not again: recv_rev looks for what left Remote's ctx at just this ctn.
THEOREM ReportedExactlyOnceAlways == Spec => []ReportedExactlyOnce
<1>1. IInv /\ ReportedIsRemoved /\ [Next]_vars => ReportedIsRemoved'
  BY ReportedStep
<1>2. IInv /\ ReportedIsRemoved => ReportedExactlyOnce
  BY RemoteIsLast DEF IInv, ReportedIsRemoved, ReportedExactlyOnce
<1> QED BY <1>1, <1>2, ReportedInit, LogIsConsistent, PTL DEF Spec

-----------------------------------------------------------------------------
(* What is kept for a replay *)

Signatures(msgs) == {k \in DOMAIN msgs : msgs[k] = "commitment_signed"}

LEMMA SignaturesOfAppend ==
    ASSUME NEW msgs \in Seq(Messages)
    PROVE  /\ Signatures(<< >>) = {} /\ << >> \in Seq(Messages)
           /\ Signatures(Append(msgs, "update")) = Signatures(msgs)
           /\ Signatures(Append(msgs, "commitment_signed")) = Signatures(msgs) \cup {Len(msgs) + 1}
           /\ Len(Append(msgs, "commitment_signed")) = Len(msgs) + 1
<1>1. /\ Len(msgs) \in Nat /\ DOMAIN msgs = 1 .. Len(msgs)
      /\ \A k \in DOMAIN msgs : k # Len(msgs) + 1
  OBVIOUS
<1>2. \A x : /\ DOMAIN Append(msgs, x) = DOMAIN msgs \cup {Len(msgs) + 1}
             /\ \A k \in DOMAIN msgs : Append(msgs, x)[k] = msgs[k]
             /\ Append(msgs, x)[Len(msgs) + 1] = x
             /\ Len(Append(msgs, x)) = Len(msgs) + 1
  <2> SUFFICES ASSUME NEW x
               PROVE  /\ DOMAIN Append(msgs, x) = DOMAIN msgs \cup {Len(msgs) + 1}
                      /\ \A k \in DOMAIN msgs : Append(msgs, x)[k] = msgs[k]
                      /\ Append(msgs, x)[Len(msgs) + 1] = x
                      /\ Len(Append(msgs, x)) = Len(msgs) + 1
    OBVIOUS
  <2>1. DOMAIN Append(msgs, x) = 1 .. Len(msgs) + 1 /\ Len(Append(msgs, x)) = Len(msgs) + 1
    OBVIOUS
  <2> QED BY <1>1, <2>1
<1>3. Signatures(<< >>) = {} /\ << >> \in Seq(Messages)
  BY DEF Signatures
<1>4. Signatures(Append(msgs, "update")) = Signatures(msgs)
  BY <1>1, <1>2 DEF Signatures
<1>5. Signatures(Append(msgs, "commitment_signed")) = Signatures(msgs) \cup {Len(msgs) + 1}
  BY <1>1, <1>2 DEF Signatures
<1> QED BY <1>2, <1>3, <1>4, <1>5

\* The messages kept, after one more for the ctx c
Noted(u, c, msg) ==
    LET stored == IF c \in DOMAIN u THEN u[c] ELSE << >>
    IN  [d \in DOMAIN u \cup {c} |-> IF d = c THEN Append(stored, msg) ELSE u[d]]

\* ReplayEndsInOneSignature, of the messages alone
ReplayOK(u, signed, latest) ==
    \A c \in DOMAIN u :
        IF signed /\ c = latest
        THEN Signatures(u[c]) = {Len(u[c])}
        ELSE c = latest + 1 /\ Signatures(u[c]) = {}

Replayable == UnackedOK(hm.unacked) /\ ReplayOK(hm.unacked, hm.revack[Remote], ctn_latest(hm, Remote))

LEMMA UpdateIsNoted ==
    ASSUME NEW u, UnackedOK(u), NEW signed \in BOOLEAN, NEW latest \in Nat, ReplayOK(u, signed, latest)
    PROVE  ReplayOK(Noted(u, latest + 1, "update"), signed, latest)
<1> DEFINE stored == IF latest + 1 \in DOMAIN u THEN u[latest + 1] ELSE << >>
           v == Noted(u, latest + 1, "update")
<1>1. stored \in Seq(Messages) /\ Signatures(stored) = {}
  BY SignaturesOfAppend DEF UnackedOK, ReplayOK, Signatures
<1>2. /\ DOMAIN v = DOMAIN u \cup {latest + 1}
      /\ v[latest + 1] = Append(stored, "update")
      /\ \A d \in DOMAIN u : d # latest + 1 => v[d] = u[d]
  BY DEF Noted
<1> HIDE DEF stored, v
<1>3. Signatures(v[latest + 1]) = {}
  BY <1>1, <1>2, SignaturesOfAppend
<1>4. ASSUME NEW c \in DOMAIN v
      PROVE  IF signed /\ c = latest
             THEN Signatures(v[c]) = {Len(v[c])}
             ELSE c = latest + 1 /\ Signatures(v[c]) = {}
  <2>1. CASE c = latest + 1
    <3>1. c # latest
      BY <2>1
    <3> QED BY <1>3, <2>1, <3>1
  <2>2. CASE c # latest + 1
    BY <1>2, <2>2 DEF ReplayOK
  <2> QED BY <2>1, <2>2
<1>5. ReplayOK(v, signed, latest)
  BY <1>4, Zenon DEF ReplayOK
<1> QED BY <1>5 DEF v

LEMMA SignatureIsNoted ==
    ASSUME NEW u, UnackedOK(u), NEW latest \in Nat, ReplayOK(u, FALSE, latest)
    PROVE  ReplayOK(Noted(u, latest + 1, "commitment_signed"), TRUE, latest + 1)
<1> DEFINE stored == IF latest + 1 \in DOMAIN u THEN u[latest + 1] ELSE << >>
           v == Noted(u, latest + 1, "commitment_signed")
<1>1. stored \in Seq(Messages) /\ Signatures(stored) = {}
  BY SignaturesOfAppend DEF UnackedOK, ReplayOK, Signatures
<1>2. DOMAIN v = {latest + 1} /\ v[latest + 1] = Append(stored, "commitment_signed")
  BY DEF Noted, ReplayOK
<1> HIDE DEF stored, v
<1>3. Signatures(v[latest + 1]) = {Len(v[latest + 1])}
  BY <1>1, <1>2, SignaturesOfAppend
<1>4. ReplayOK(v, TRUE, latest + 1)
  BY <1>2, <1>3 DEF ReplayOK
<1> QED BY <1>4 DEF v

\* Stored notes an update, or nothing.
LEMMA StoredIsNoted ==
    ASSUME NEW m, NEW n, DOMAIN n = Fields, n.unacked = m.unacked, n.ctn = m.ctn, n.revack = m.revack, NEW s
    PROVE  \/ Stored(n, s).unacked = m.unacked
           \/ Stored(n, s).unacked = Noted(m.unacked, ctn_latest(m, Remote) + 1, "update")
<1>1. CASE s = Remote
  <2> DEFINE c == next_ctn(n, Remote)
  <2>1. c = ctn_latest(m, Remote) + 1
    BY DEF next_ctn, ctn_latest
  <2>2. store_local_update_raw_msg(n, "update", FALSE) = [n EXCEPT !.unacked = Noted(n.unacked, c, "update")]
    BY DEF store_local_update_raw_msg, Noted
  <2> HIDE DEF c
  <2>3. [n EXCEPT !.unacked = Noted(n.unacked, c, "update")].unacked = Noted(n.unacked, c, "update")
    BY DEF Fields
  <2> QED BY <1>1, <2>1, <2>2, <2>3 DEF Stored
<1>2. CASE s # Remote
  BY <1>2 DEF Stored
<1> QED BY <1>1, <1>2

\* Calls that update the log note it, or need not.
LEMMA UpdatesAreNoted ==
    ASSUME TypeOK,
           \/ \E p \in Owner : AddHtlc(p)
           \/ \E p \in Owner, i \in HtlcIds : SettleHtlc(p, i) \/ FailHtlc(p, i)
           \/ \E rate \in Rates : UpdateFee(rate)
    PROVE  \/ hm'.unacked = hm.unacked
           \/ hm'.unacked = Noted(hm.unacked, ctn_latest(hm, Remote) + 1, "update")
<1>1. DOMAIN hm = Fields
  BY TypeOKSplits, LogFieldsAre
<1>2. ASSUME NEW n, NEW F \in SUBSET {"next", "adds", "locked", "active", "settles", "fails", "fees"},
             OnlyChanges(F, hm, n), NEW s, hm' = Stored(n, s)
      PROVE  \/ hm'.unacked = hm.unacked
             \/ hm'.unacked = Noted(hm.unacked, ctn_latest(hm, Remote) + 1, "update")
  <2>1. DOMAIN n = Fields /\ n.unacked = hm.unacked /\ n.ctn = hm.ctn /\ n.revack = hm.revack
    BY <1>2 DEF OnlyChanges, Fields
  <2> QED BY <1>2, <2>1, StoredIsNoted
<1>3. ASSUME NEW p \in Owner, AddHtlc(p)
      PROVE  \E n, s : OnlyChanges({"next", "adds", "locked", "active"}, hm, n) /\ hm' = Stored(n, s)
  <2>1. PICK amount \in Amounts : hm' = Stored(add_htlc(hm, p, amount), Other(p))
    BY <1>3 DEF AddHtlc
  <2>2. OnlyChanges({"next", "adds", "locked", "active"}, hm, add_htlc(hm, p, amount))
    BY <1>1 DEF add_htlc, OnlyChanges, Fields
  <2> QED BY <2>1, <2>2
<1>4. ASSUME NEW p \in Owner, NEW i \in HtlcIds, SettleHtlc(p, i)
      PROVE  \E n, s : OnlyChanges({"settles"}, hm, n) /\ hm' = Stored(n, s)
  <2>1. OnlyChanges({"settles"}, hm, settle_htlc(hm, p, i))
    BY <1>1 DEF settle_htlc, OnlyChanges, Fields
  <2> QED BY <1>4, <2>1 DEF SettleHtlc
<1>5. ASSUME NEW p \in Owner, NEW i \in HtlcIds, FailHtlc(p, i)
      PROVE  \E n, s : OnlyChanges({"fails"}, hm, n) /\ hm' = Stored(n, s)
  <2>1. OnlyChanges({"fails"}, hm, fail_htlc(hm, p, i))
    BY <1>1 DEF fail_htlc, OnlyChanges, Fields
  <2> QED BY <1>5, <2>1 DEF FailHtlc
<1>6. ASSUME NEW rate \in Rates, UpdateFee(rate)
      PROVE  \E n, s : OnlyChanges({"fees"}, hm, n) /\ hm' = Stored(n, s)
  <2> DEFINE s == Other(hm.initiator)
  <2>1. hm' = Stored(update_fee(hm, s, rate), s)
    BY <1>6 DEF UpdateFee
  <2>2. \E fees : update_fee(hm, s, rate) = [hm EXCEPT !.fees = fees]
    BY DEF update_fee
  <2>3. OnlyChanges({"fees"}, hm, update_fee(hm, s, rate))
    BY <1>1, <2>2 DEF OnlyChanges, Fields
  <2> QED BY <2>1, <2>3
<1>7. \E n, s : \E F \in SUBSET {"next", "adds", "locked", "active", "settles", "fails", "fees"} :
          OnlyChanges(F, hm, n) /\ hm' = Stored(n, s)
  BY <1>3, <1>4, <1>5, <1>6
<1> QED BY <1>2, <1>7

LEMMA ReplayStep ==
    ASSUME IInv, Replayable, [Next]_vars
    PROVE  Replayable'
<1>1. /\ TypeOK /\ LogOK(hm) /\ Local \in Owner /\ Remote \in Owner /\ Local # Remote
      /\ hm.revack[Remote] \in BOOLEAN /\ ctn_latest(hm, Remote) \in Nat
  BY TypeOKSplits, TypedLogOK, EntryFacts, CtnTypes DEF IInv, Owner, LogOK
<1>2. UnackedOK(hm'.unacked)
  BY <1>1, NextCalls DEF AsideOK
<1>3. ASSUME hm'.ctn[Remote] = hm.ctn[Remote], hm'.revack[Remote] = hm.revack[Remote],
             \/ hm'.unacked = hm.unacked
             \/ hm'.unacked = Noted(hm.unacked, ctn_latest(hm, Remote) + 1, "update")
      PROVE  Replayable'
  <2>1. ctn_latest(hm', Remote) = ctn_latest(hm, Remote)
    BY <1>3 DEF ctn_latest
  <2> QED BY <1>1, <1>2, <1>3, <2>1, UpdateIsNoted DEF Replayable
<1>4. ASSUME \/ \E p \in Owner : AddHtlc(p)
             \/ \E p \in Owner, i \in HtlcIds : SettleHtlc(p, i) \/ FailHtlc(p, i)
             \/ \E rate \in Rates : UpdateFee(rate)
      PROVE  Replayable'
  <2>1. hm'.ctn = hm.ctn /\ hm'.revack = hm.revack
    <3>1. ASSUME NEW p \in Owner, AddHtlc(p) PROVE hm'.ctn = hm.ctn /\ hm'.revack = hm.revack
      BY <1>1, <3>1, AddHtlcCalls DEF IsAdded, OnlyChanges, Fields, Aside
    <3>2. ASSUME NEW p \in Owner, NEW i \in HtlcIds, SettleHtlc(p, i) \/ FailHtlc(p, i)
          PROVE  hm'.ctn = hm.ctn /\ hm'.revack = hm.revack
      BY <1>1, <3>2, SettleHtlcCalls, FailHtlcCalls DEF IsSettled, IsFailed, OnlyChanges, Fields, Aside
    <3>3. ASSUME NEW rate \in Rates, UpdateFee(rate) PROVE hm'.ctn = hm.ctn /\ hm'.revack = hm.revack
      BY <1>1, <3>3, UpdateFeeCalls DEF IsFeeUpdated, OnlyChanges, Fields, Aside
    <3>4. QED BY <1>4, <3>1, <3>2, <3>3
  <2>2. QED BY <1>1, <1>3, <1>4, <2>1, UpdatesAreNoted
<1>5. CASE SendCtx
  <2>1. /\ hm'.ctn = hm.ctn /\ hm'.revack = [hm.revack EXCEPT ![Remote] = TRUE] /\ ~hm.revack[Remote]
        /\ hm'.unacked = store_local_update_raw_msg(send_ctx(hm), "commitment_signed", TRUE).unacked
    <3>1. IsSigned(hm, hm', Remote)
      BY <1>1, <1>5, SendCtxCalls
    <3>2. QED BY <1>5, <3>1 DEF SendCtx, IsSigned, can_sign, OnlyChanges, Fields, Aside
  <2>2. /\ ctn_latest(hm', Remote) = ctn_latest(hm, Remote) + 1
        /\ hm'.revack[Remote] = TRUE
    BY <1>1, <2>1 DEF ctn_latest, LogOK
  <2>3. hm'.unacked = Noted(hm.unacked, ctn_latest(hm, Remote) + 1, "commitment_signed")
    <3> DEFINE n == send_ctx(hm)
               c == ctn_latest(n, Remote)
    <3>1. /\ DOMAIN n = Fields /\ n.unacked = hm.unacked /\ n.ctn = hm.ctn
          /\ n.revack = [hm.revack EXCEPT ![Remote] = TRUE]
      BY <1>1, TypeOKSplits, LogFieldsAre DEF send_ctx, Fields
    <3>2. c = ctn_latest(hm, Remote) + 1
      <4> HIDE DEF n
      <4> QED BY <1>1, <2>1, <3>1 DEF ctn_latest, LogOK
    <3>3. store_local_update_raw_msg(n, "commitment_signed", TRUE) =
              [n EXCEPT !.unacked = Noted(n.unacked, c, "commitment_signed")]
      BY DEF store_local_update_raw_msg, Noted
    <3> HIDE DEF n, c
    <3>4. [n EXCEPT !.unacked = Noted(n.unacked, c, "commitment_signed")].unacked
              = Noted(n.unacked, c, "commitment_signed")
      BY <3>1 DEF Fields
    <3> QED BY <2>1, <3>1, <3>2, <3>3, <3>4 DEF n
  <2>4. UnackedOK(hm.unacked) /\ ReplayOK(hm.unacked, FALSE, ctn_latest(hm, Remote))
    <3>1. hm.revack[Remote] = FALSE
      BY <1>1, <2>1
    <3> QED BY <3>1 DEF Replayable
  <2>5. ReplayOK(Noted(hm.unacked, ctn_latest(hm, Remote) + 1, "commitment_signed"),
                 TRUE, ctn_latest(hm, Remote) + 1)
    BY <1>1, <2>4, SignatureIsNoted
  <2> QED BY <1>2, <2>2, <2>3, <2>5 DEF Replayable
<1>6. CASE RecvCtx
  <2>1. /\ IsSigned(hm, hm', Local) /\ DOMAIN hm = Fields
        /\ hm'.unacked = recv_ctx(hm).unacked
    BY <1>1, <1>6, RecvCtxCalls, TypeOKSplits, LogFieldsAre DEF RecvCtx
  <2>2. hm'.unacked = hm.unacked
    BY <2>1 DEF recv_ctx, Fields
  <2>3. hm'.ctn = hm.ctn /\ hm'.revack = [hm.revack EXCEPT ![Local] = TRUE]
    BY <2>1 DEF IsSigned, OnlyChanges, Fields, Aside
  <2>4. QED BY <1>1, <1>3, <2>2, <2>3 DEF LogOK
<1>7. CASE SendRev
  <2> DEFINE n == Revoked(hm, Local)
  <2>1. OnlyChanges(Aside, n, hm') /\ hm'.unacked = hm.unacked
    BY <1>1, <1>7, SendRevCalls DEF IsRevoked
  <2>2. CtnMoved(hm, n, Local)
    BY <1>1, RevokedEffect DEF TypeOK
  <2> HIDE DEF n
  <2>3. hm'.ctn = n.ctn /\ hm'.revack = n.revack /\ hm'.unacked = hm.unacked
    BY <2>1, <2>2 DEF OnlyChanges, Fields, Aside
  <2>4. hm'.ctn[Remote] = hm.ctn[Remote] /\ hm'.revack[Remote] = hm.revack[Remote]
    BY <1>1, <2>2, <2>3 DEF CtnMoved, LogOK
  <2> QED BY <1>3, <2>3, <2>4
<1>8. CASE RecvRev
  <2> DEFINE n == Revoked(hm, Remote)
  <2>1. /\ can_revoke(hm, Remote) /\ OnlyChanges(Aside, n, hm')
        /\ hm'.unacked = [c \in DOMAIN hm.unacked \ {hm'.ctn[Remote]} |-> hm.unacked[c]]
    BY <1>1, <1>8, RecvRevCalls DEF IsRevoked
  <2>2. CtnMoved(hm, n, Remote)
    BY <1>1, RevokedEffect DEF TypeOK
  <2> HIDE DEF n
  <2>3. CtnMoved(hm, hm', Remote)
    BY <2>1, <2>2 DEF OnlyChanges, Fields, Aside, CtnMoved
  <2>4. /\ hm'.ctn[Remote] = ctn_latest(hm, Remote)
        /\ ctn_latest(hm', Remote) = ctn_latest(hm, Remote)
    <3>1. /\ hm'.ctn[Remote] = hm.ctn[Remote] + 1 /\ ctn_latest(hm, Remote) = hm.ctn[Remote] + 1
          /\ \A t \in Owner : ctn_latest(hm', t) = ctn_latest(hm, t)
      BY <1>1, <2>1, <2>3, CtnMovedFacts
    <3> QED BY <1>1, <3>1
  <2>5. hm.revack[Remote] /\ ~hm'.revack[Remote]
    BY <1>1, <2>1, <2>3 DEF can_revoke, CtnMoved, LogOK
  <2> QED BY <1>1, <1>2, <2>1, <2>4, <2>5 DEF Replayable, ReplayOK
<1>9. CASE Discard
  BY <1>1, <1>3, <1>9, DiscardCalls
<1>10. CASE Reload
  BY <1>1, <1>3, <1>10, ReloadCalls
<1>11. CASE UNCHANGED vars
  BY <1>3, <1>11 DEF vars
<1> QED
  BY <1>4, <1>5, <1>6, <1>7, <1>8, <1>9, <1>10, <1>11 DEF Next

\* Nothing is to be replayed at first.
LEMMA ReplayInit == Init => Replayable
<1> SUFFICES ASSUME Init PROVE Replayable
  OBVIOUS
<1>1. hm.unacked = << >>
  BY DEF Init, NewLog
<1> QED BY <1>1 DEF Replayable, UnackedOK, ReplayOK

\* What is kept for a replay is, for each ctx not yet acknowledged, updates and then
\* one commitment_signed: no update is kept with a ctx that was signed before it.
THEOREM ReplayEndsInOneSignatureAlways == Spec => []ReplayEndsInOneSignature
<1>1. IInv /\ Replayable /\ [Next]_vars => Replayable'
  BY ReplayStep
<1>2. IInv /\ Replayable => ReplayEndsInOneSignature
  <2> SUFFICES ASSUME IInv, Replayable PROVE ReplayEndsInOneSignature
    OBVIOUS
  <2>1. next_ctn(hm, Remote) = ctn_latest(hm, Remote) + 1
    BY DEF next_ctn
  <2> QED BY <2>1 DEF ReplayEndsInOneSignature, Replayable, ReplayOK, Signatures
<1> QED BY <1>1, <1>2, ReplayInit, LogIsConsistent, PTL DEF Spec

-----------------------------------------------------------------------------
(* Balances and feerates *)

\* No step makes _balance_delta differ from what the log says.
LEMMA DeltaAlways == Spec => []ExactDelta(hm)
<1>1. Init => ExactDelta(hm)
  BY NewLogDelta, InitiatorsAssumption DEF Init
<1>2. IInv /\ ExactDelta(hm) /\ [Next]_vars => ExactDelta(hm)'
  BY StepFreezes, CallKeepsDelta
<1>3. QED BY <1>1, <1>2, LogIsConsistent, PTL DEF Spec

\* The balances of the ctxs that are not revoked, which are computed from the cache and from
\* _balance_delta, are those of the whole log: for every amount, number of htlcs and revocations,
\* whatever was discarded, and after restarts.
THEOREM CachedBalanceIsExactAlways == Spec => []CachedBalanceIsExact
<1>1. IInv /\ ExactDelta(hm) => CachedBalanceIsExact
  BY BalanceIsExact DEF IInv, CachedBalanceIsExact, BalanceOf
<1>2. QED BY <1>1, DeltaAlways, LogIsConsistent, PTL

\* No step puts the feerates out of order.
LEMMA FeesAlways == Spec => []SortedFees(hm)
<1>1. Init => SortedFees(hm)
  BY NewLogFees, InitiatorsAssumption DEF Init
<1>2. IInv /\ SortedFees(hm) /\ [Next]_vars => SortedFees(hm)'
  BY StepFreezes, CallKeepsFees
<1>3. QED BY <1>1, <1>2, LogIsConsistent, PTL DEF Spec

\* For every ctx up to the next one, revoked ones too, there is a last feerate that has reached
\* it, and the binary search of get_feerate finds that one, whatever was replaced or discarded.
THEOREM FeerateIsFoundAlways == Spec => [](NewestExists(hm) /\ FeeratesAreNewest(hm))
<1>1. IInv /\ SortedFees(hm) => NewestExists(hm) /\ FeeratesAreNewest(hm)
  BY FeeratesFound, NewestFound DEF IInv
<1>2. QED BY <1>1, FeesAlways, LogIsConsistent, PTL

\* The feerate and the balances of a ctx that was signed never change, by no call, reconnection
\* or restart: its signature stays valid for what the log says it is.
THEOREM SignedTermsAreFinalAlways == Spec => SignedTermsAreFinal
<1>1. IInv /\ ExactDelta(hm) /\ ExactDelta(hm)' /\ SortedFees(hm) /\ [Next]_vars => [TermsStay(hm, hm')]_vars
  <2> SUFFICES ASSUME IInv, ExactDelta(hm), ExactDelta(hm'), SortedFees(hm), [Next]_vars PROVE TermsStay(hm, hm')
    OBVIOUS
  <2>1. /\ IsCall(hm, hm') /\ ConsistentLog(hm) /\ ConsistentLog(hm')
        /\ CtnsGrow(hm, hm') /\ EntriesFrozen(hm, hm')
    BY StepFreezes
  <2>2. FeesFrozen(hm, hm')
    BY <2>1, CallKeepsFees
  <2>3. QED BY <2>1, <2>2, SignedTermsFinal
<1>2. [][TermsStay(hm, hm')]_vars => SignedTermsAreFinal
  BY PTL DEF SignedTermsAreFinal, TermsStay
<1>3. QED BY <1>1, <1>2, LogIsConsistent, DeltaAlways, FeesAlways, PTL DEF Spec

=============================================================================
